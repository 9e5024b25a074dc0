------------------------- MODULE TokenBalanceProofs -------------------------
(***************************************************************************)
(* Facts about the sums and folds of the community modules, for any        *)
(* numbers and sequences, and then about what TokenBalance computes, for   *)
(* any balance.  Induction is by a least counterexample: the facts are     *)
(* about functions, where a principle of induction would be about          *)
(* operators.                                                              *)
(***************************************************************************)
EXTENDS TokenBalance, FiniteSetTheorems, SequenceTheorems, WellFoundedInduction, TLAPS

\* A set of natural numbers that is not empty has a least element.
LEMMA LeastElement ==
  ASSUME NEW T \in SUBSET Nat, T # {}
  PROVE  \E i \in T : \A j \in T : i <= j
<1>1. PICK i \in T : \A j \in T : <<j, i>> \notin OpToRel(<, Nat)
  BY NatLessThanWellFounded, WFMin
<1>2. ASSUME NEW j \in T PROVE i <= j
  <2>1. i \in Nat /\ j \in Nat
    BY <1>1, <1>2
  <2>2. j < i => <<j, i>> \in OpToRel(<, Nat)
    BY <2>1 DEF OpToRel
  <2>3. ~(j < i)
    BY <1>1, <1>2, <2>2
  <2>4. QED
    BY <2>1, <2>3
<1>3. QED
  BY <1>1, <1>2

\* Of finite sets, one has the fewest elements.
LEMMA SmallestSet ==
  ASSUME NEW D, D # {}, \A S \in D : IsFiniteSet(S)
  PROVE  \E S \in D : \A R \in D : Cardinality(S) <= Cardinality(R)
<1> DEFINE T == {Cardinality(S) : S \in D}
<1>1. T \in SUBSET Nat /\ T # {}
  BY FS_CardinalityType
<1> HIDE DEF T
<1>2. PICK i \in T : \A j \in T : i <= j
  BY <1>1, LeastElement
<1>3. QED
  BY <1>2 DEF T

\* A set without one of its elements is smaller.
LEMMA Smaller ==
  ASSUME NEW S, IsFiniteSet(S), NEW x \in S
  PROVE  /\ IsFiniteSet(S \ {x}) /\ Cardinality(S) \in Nat
         /\ Cardinality(S \ {x}) \in Nat /\ Cardinality(S \ {x}) = Cardinality(S) - 1
BY FS_RemoveElement, FS_CardinalityType

-----------------------------------------------------------------------------
(* The function that a fold over a set computes.                           *)

\* A fold takes the element pick[T] of what is left, T, as long as there is one.
FoldsTo(iter, S, base, pick, G) ==
  \A T \in SUBSET S : iter[T] = IF T = {} THEN base ELSE G[pick[T]][iter[T \ {pick[T]}]]

\* A fold that picks elements of S and stays in A.
IsFold(S, A, base, pick, G) ==
  /\ IsFiniteSet(S) /\ base \in A /\ G \in [S -> [A -> A]]
  /\ \A T \in SUBSET S : T # {} => pick[T] \in T

\* There is such a function.
LEMMA FoldExists ==
  ASSUME NEW S, NEW A, NEW base, NEW pick, NEW G, IsFold(S, A, base, pick, G)
  PROVE  \E iter \in [SUBSET S -> A] : FoldsTo(iter, S, base, pick, G)
<1> USE DEF IsFold
<1> DEFINE Step(f, T) == IF T = {} THEN base ELSE G[pick[T]][f[T \ {pick[T]}]]
           Good(k) == \E f \in [SUBSET S -> A] :
                        \A T \in SUBSET S : Cardinality(T) <= k => f[T] = Step(f, T)
           Bad == {k \in Nat : ~Good(k)}
<1>1. ASSUME NEW T \in SUBSET S
      PROVE  /\ IsFiniteSet(T) /\ Cardinality(T) \in Nat
             /\ T # {} => /\ Cardinality(T) # 0 /\ pick[T] \in T
                          /\ T \ {pick[T]} \in SUBSET S
                          /\ Cardinality(T \ {pick[T]}) = Cardinality(T) - 1
  <2>1. IsFiniteSet(T) /\ Cardinality(T) \in Nat
    BY FS_Subset, FS_CardinalityType
  <2>2. T # {} => Cardinality(T) # 0 /\ pick[T] \in T
    BY <2>1, FS_EmptySet
  <2>3. QED
    BY <2>1, <2>2, Smaller
<1>2. \A f \in [SUBSET S -> A] : \A T \in SUBSET S : Step(f, T) \in A
  BY <1>1
<1>3. Good(0)
  <2> DEFINE f == [T \in SUBSET S |-> base]
  <2>1. f \in [SUBSET S -> A]
    OBVIOUS
  <2>2. ASSUME NEW T \in SUBSET S, Cardinality(T) <= 0 PROVE f[T] = Step(f, T)
    <3>1. T = {}
      <4>1. Cardinality(T) \in Nat /\ (T # {} => Cardinality(T) # 0)
        BY <1>1
      <4>2. QED
        BY <2>2, <4>1
    <3>2. QED
      BY <3>1
  <2>3. QED
    BY <2>1, <2>2
<1>4. ASSUME NEW k \in Nat, Good(k) PROVE Good(k + 1)
  <2>1. PICK f \in [SUBSET S -> A] :
          \A T \in SUBSET S : Cardinality(T) <= k => f[T] = Step(f, T)
    BY <1>4
  <2> DEFINE g == [T \in SUBSET S |-> Step(f, T)]
  <2>2. g \in [SUBSET S -> A]
    BY <1>2
  <2>3. ASSUME NEW T \in SUBSET S, Cardinality(T) <= k + 1 PROVE g[T] = Step(g, T)
    <3>1. CASE T = {}
      BY <3>1
    <3>2. CASE T # {}
      <4> DEFINE R == T \ {pick[T]}
      <4>1. R \in SUBSET S /\ Cardinality(R) <= k
        <5>1. R \in SUBSET S /\ Cardinality(R) = Cardinality(T) - 1 /\ Cardinality(T) \in Nat
          BY <1>1, <3>2
        <5> HIDE DEF R
        <5>2. QED
          BY <1>4, <2>3, <5>1
      <4>2. g[R] = f[R]
        BY <2>1, <4>1
      <4>3. g[T] = G[pick[T]][f[R]]
        BY <3>2
      <4>4. QED
        BY <3>2, <4>2, <4>3
    <3>3. QED
      BY <3>1, <3>2
  <2> HIDE DEF Step, g
  <2>4. QED
    BY <2>2, <2>3
<1> HIDE DEF Good
<1>5. Bad = {}
  <2> SUFFICES ASSUME Bad # {} PROVE FALSE
    OBVIOUS
  <2>1. PICK k \in Bad : \A j \in Bad : k <= j
    BY LeastElement
  <2>2. k \in Nat /\ k # 0 /\ k - 1 \in Nat /\ ~(k <= k - 1)
    BY <1>3, <2>1
  <2>3. Good(k - 1)
    BY <2>1, <2>2
  <2>4. Good((k - 1) + 1)
    BY <1>4, <2>2, <2>3
  <2>5. QED
    BY <2>1, <2>2, <2>4
<1>6. Good(Cardinality(S))
  BY <1>1, <1>5
<1>7. PICK f \in [SUBSET S -> A] :
        \A T \in SUBSET S : Cardinality(T) <= Cardinality(S) => f[T] = Step(f, T)
  BY <1>6 DEF Good
<1>8. \A T \in SUBSET S : Cardinality(T) <= Cardinality(S)
  BY FS_Subset
<1>9. QED
  BY <1>7, <1>8 DEF FoldsTo

-----------------------------------------------------------------------------
(* Sums of the values of a function.                                       *)

\* The element that SumFunctionOnSet takes of a set.
AnyOf(T) == CHOOSE x \in T : TRUE

\* It adds what is left after the first element.
SumsTo(iter, f, S) == \A T \in SUBSET S : iter[T] = IF T = {} THEN 0 ELSE f[AnyOf(T)] + iter[T \ {AnyOf(T)}]

LEMMA SumExists ==
  ASSUME NEW S, IsFiniteSet(S), NEW f, \A x \in S : f[x] \in Int
  PROVE  \E iter \in [SUBSET S -> Int] : SumsTo(iter, f, S) /\ SumFunctionOnSet(f, S) = iter[S]
<1> DEFINE pick == [T \in SUBSET S |-> AnyOf(T)]
           G == [x \in S |-> [a \in Int |-> f[x] + a]]
           Solves(iter) == iter = [T \in SUBSET S |-> IF T = {} THEN 0
                                                      ELSE f[AnyOf(T)] + iter[T \ {AnyOf(T)}]]
<1>1. ASSUME NEW T \in SUBSET S, T # {} PROVE pick[T] = AnyOf(T) /\ AnyOf(T) \in T /\ AnyOf(T) \in S
  BY <1>1 DEF AnyOf
<1>2. G \in [S -> [Int -> Int]]
  OBVIOUS
<1>3. \A x \in S : \A a \in Int : G[x][a] = f[x] + a
  OBVIOUS
<1> HIDE DEF pick, G
<1>4. PICK it \in [SUBSET S -> Int] : FoldsTo(it, S, 0, pick, G)
  <2>1. IsFold(S, Int, 0, pick, G)
    BY <1>1, <1>2 DEF IsFold
  <2>2. QED
    BY <2>1, FoldExists
<1>5. ASSUME NEW T \in SUBSET S
      PROVE  it[T] = IF T = {} THEN 0 ELSE f[AnyOf(T)] + it[T \ {AnyOf(T)}]
  <2>1. CASE T = {}
    BY <1>4, <2>1 DEF FoldsTo
  <2>2. CASE T # {}
    <3>1. it[T \ {AnyOf(T)}] \in Int /\ AnyOf(T) \in S
      BY <1>1, <1>4, <2>2
    <3>2. it[T] = G[AnyOf(T)][it[T \ {AnyOf(T)}]]
      BY <1>1, <1>4, <2>2 DEF FoldsTo
    <3>3. QED
      BY <1>3, <2>2, <3>1, <3>2
  <2>3. QED
    BY <2>1, <2>2
<1>6. \E iter : Solves(iter)
  BY <1>4, <1>5
<1> DEFINE iter == CHOOSE iter : Solves(iter)
<1>7. Solves(iter)
  BY <1>6
<1>8. SumFunctionOnSet(f, S) = iter[S]
  BY DEF SumFunctionOnSet, FoldFunctionOnSet, MapThenFoldSet, AnyOf
<1> HIDE DEF iter
<1>9. SumsTo(iter, f, S)
  BY <1>7 DEF SumsTo
<1>10. iter \in [SUBSET S -> Int]
  <2>1. iter = it
    <3> DEFINE D == {T \in SUBSET S : iter[T] # it[T]}
    <3>1. D = {}
      <4> SUFFICES ASSUME D # {} PROVE FALSE
        OBVIOUS
      <4>1. PICK T \in D : \A R \in D : Cardinality(T) <= Cardinality(R)
        <5>1. \A T \in D : IsFiniteSet(T)
          BY FS_Subset
        <5> HIDE DEF D
        <5>2. QED
          BY <5>1, SmallestSet
      <4>2. T # {} /\ T \in SUBSET S
        BY <1>5, <1>9, <4>1 DEF SumsTo
      <4>3. T \ {AnyOf(T)} \notin D
        <5>1. IsFiniteSet(T) /\ AnyOf(T) \in T
          BY <1>1, <4>2, FS_Subset
        <5> HIDE DEF D
        <5>2. QED
          BY <4>1, <5>1, Smaller
      <4>4. iter[T \ {AnyOf(T)}] = it[T \ {AnyOf(T)}]
        BY <4>2, <4>3
      <4>5. QED
        BY <1>5, <1>9, <4>1, <4>2, <4>4 DEF SumsTo
    <3>2. iter = [T \in SUBSET S |-> iter[T]]
      BY <1>7
    <3>3. QED
      BY <1>4, <3>1, <3>2
  <2>2. QED
    BY <1>4, <2>1
<1>11. QED
  BY <1>8, <1>9, <1>10

\* f has integer values on the finite set S.
Summable(f, S) == IsFiniteSet(S) /\ \A x \in S : f[x] \in Int

LEMMA SummableSubset ==
  ASSUME NEW S, NEW f, Summable(f, S), NEW T \in SUBSET S
  PROVE  Summable(f, T)
BY FS_Subset DEF Summable

\* The sums over subsets do not depend on the set, nor on other values.
LEMMA SumsToUnique ==
  ASSUME NEW S, NEW f, NEW iter, SumsTo(iter, f, S),
         NEW T, IsFiniteSet(T), T \subseteq S, NEW g, NEW other, SumsTo(other, g, T),
         \A x \in T : f[x] = g[x]
  PROVE  iter[T] = other[T]
<1> DEFINE D == {R \in SUBSET T : iter[R] # other[R]}
<1>1. D = {}
  <2> SUFFICES ASSUME D # {} PROVE FALSE
    OBVIOUS
  <2>1. PICK R \in D : \A Q \in D : Cardinality(R) <= Cardinality(Q)
    <3>1. \A Q \in D : IsFiniteSet(Q)
      BY FS_Subset
    <3> HIDE DEF D
    <3>2. QED
      BY <3>1, SmallestSet
  <2>2. R # {}
    <3>1. iter[{}] = 0 /\ other[{}] = 0
      BY DEF SumsTo
    <3>2. QED
      BY <2>1, <3>1
  <2>3. AnyOf(R) \in R /\ IsFiniteSet(R)
    BY <2>1, <2>2, FS_Subset DEF AnyOf
  <2>4. R \ {AnyOf(R)} \notin D
    <3> HIDE DEF D
    <3>1. QED
      BY <2>1, <2>3, Smaller
  <2>5. iter[R \ {AnyOf(R)}] = other[R \ {AnyOf(R)}]
    BY <2>1, <2>4
  <2>6. /\ iter[R] = f[AnyOf(R)] + iter[R \ {AnyOf(R)}]
        /\ other[R] = g[AnyOf(R)] + other[R \ {AnyOf(R)}]
    BY <2>1, <2>2 DEF SumsTo
  <2>7. f[AnyOf(R)] = g[AnyOf(R)]
    BY <2>1, <2>3
  <2>8. QED
    BY <2>1, <2>5, <2>6, <2>7
<1>2. QED
  BY <1>1

LEMMA SumType ==
  ASSUME NEW S, NEW f, Summable(f, S)
  PROVE  SumFunctionOnSet(f, S) \in Int
<1>1. PICK iter \in [SUBSET S -> Int] : SumsTo(iter, f, S) /\ SumFunctionOnSet(f, S) = iter[S]
  BY SumExists DEF Summable
<1>2. QED
  BY <1>1

LEMMA SumAgrees ==
  ASSUME NEW S, NEW f, Summable(f, S), NEW g, \A x \in S : f[x] = g[x]
  PROVE  SumFunctionOnSet(f, S) = SumFunctionOnSet(g, S)
<1>1. Summable(g, S)
  BY DEF Summable
<1>2. PICK iter : SumsTo(iter, f, S) /\ SumFunctionOnSet(f, S) = iter[S]
  BY SumExists DEF Summable
<1>3. PICK other : SumsTo(other, g, S) /\ SumFunctionOnSet(g, S) = other[S]
  BY <1>1, SumExists DEF Summable
<1>4. QED
  BY <1>2, <1>3, SumsToUnique DEF Summable

LEMMA SumEmpty ==
  ASSUME NEW f
  PROVE  SumFunctionOnSet(f, {}) = 0
<1>1. PICK iter : SumsTo(iter, f, {}) /\ SumFunctionOnSet(f, {}) = iter[{}]
  BY SumExists, FS_EmptySet
<1>2. QED
  BY <1>1 DEF SumsTo

LEMMA SumFirst ==
  ASSUME NEW S, NEW f, Summable(f, S), S # {}
  PROVE  /\ AnyOf(S) \in S
         /\ SumFunctionOnSet(f, S) = f[AnyOf(S)] + SumFunctionOnSet(f, S \ {AnyOf(S)})
<1>1. AnyOf(S) \in S
  BY DEF AnyOf
<1> DEFINE T == S \ {AnyOf(S)}
<1>2. Summable(f, T)
  BY SummableSubset
<1>3. PICK iter : SumsTo(iter, f, S) /\ SumFunctionOnSet(f, S) = iter[S]
  BY SumExists DEF Summable
<1>4. PICK other : SumsTo(other, f, T) /\ SumFunctionOnSet(f, T) = other[T]
  BY <1>2, SumExists DEF Summable
<1>5. iter[T] = other[T]
  <2>1. IsFiniteSet(T) /\ T \subseteq S
    BY <1>2 DEF Summable
  <2> HIDE DEF T
  <2>2. QED
    BY <1>3, <1>4, <2>1, SumsToUnique
<1>6. iter[S] = f[AnyOf(S)] + iter[T]
  BY <1>3 DEF SumsTo
<1>7. QED
  BY <1>1, <1>3, <1>4, <1>5, <1>6

\* Whichever element comes first.
LEMMA SumRemove ==
  ASSUME NEW S, NEW f, Summable(f, S), NEW x \in S
  PROVE  SumFunctionOnSet(f, S) = f[x] + SumFunctionOnSet(f, S \ {x})
<1> DEFINE Splits(T) == \A y \in T : SumFunctionOnSet(f, T) = f[y] + SumFunctionOnSet(f, T \ {y})
           D == {T \in SUBSET S : ~Splits(T)}
<1>1. D = {}
  <2> SUFFICES ASSUME D # {} PROVE FALSE
    OBVIOUS
  <2>1. PICK T \in D : \A R \in D : Cardinality(T) <= Cardinality(R)
    <3>1. \A R \in D : IsFiniteSet(R)
      BY FS_Subset DEF Summable
    <3> HIDE DEF D
    <3>2. QED
      BY <3>1, SmallestSet
  <2>2. PICK y \in T : SumFunctionOnSet(f, T) # f[y] + SumFunctionOnSet(f, T \ {y})
    BY <2>1
  <2>3. ASSUME NEW R \in SUBSET T
        PROVE  Summable(f, R) /\ IsFiniteSet(R) /\ SumFunctionOnSet(f, R) \in Int
    BY <2>1, SummableSubset, SumType DEF Summable
  <2>4. \A z \in T : f[z] \in Int
    BY <2>3 DEF Summable
  <2> DEFINE a == AnyOf(T)
  <2>5. a \in T /\ SumFunctionOnSet(f, T) = f[a] + SumFunctionOnSet(f, T \ {a})
    BY <2>2, <2>3, SumFirst
  <2> HIDE DEF a
  <2>6. a # y
    BY <2>2, <2>5
  <2>7. ASSUME NEW z \in T PROVE Splits(T \ {z})
    <3>1. T \ {z} \notin D
      <4>1. IsFiniteSet(T)
        BY <2>3
      <4> HIDE DEF D
      <4>2. QED
        BY <2>1, <4>1, Smaller
    <3>2. T \ {z} \in SUBSET S
      BY <2>1
    <3>3. QED
      BY <3>1, <3>2
  <2> DEFINE rest == (T \ {a}) \ {y}
  <2>8. SumFunctionOnSet(f, T \ {a}) = f[y] + SumFunctionOnSet(f, rest)
    BY <2>2, <2>5, <2>6, <2>7
  <2>9. SumFunctionOnSet(f, T \ {y}) = f[a] + SumFunctionOnSet(f, rest)
    <3>1. rest = (T \ {y}) \ {a}
      OBVIOUS
    <3>2. QED
      BY <2>2, <2>5, <2>6, <2>7, <3>1
  <2>10. SumFunctionOnSet(f, rest) \in Int /\ f[a] \in Int /\ f[y] \in Int
    BY <2>2, <2>3, <2>4, <2>5
  <2> HIDE DEF rest
  <2>11. SumFunctionOnSet(f, T) = f[y] + SumFunctionOnSet(f, T \ {y})
    <3>1. SumFunctionOnSet(f, T) = f[a] + (f[y] + SumFunctionOnSet(f, rest))
      BY <2>5, <2>8
    <3>2. f[a] + (f[y] + SumFunctionOnSet(f, rest)) = f[y] + (f[a] + SumFunctionOnSet(f, rest))
      BY <2>10
    <3>3. QED
      BY <2>9, <3>1, <3>2
  <2>12. QED
    BY <2>2, <2>11
<1>2. QED
  BY <1>1

LEMMA SumMonotone ==
  ASSUME NEW S, NEW f, Summable(f, S), NEW g, Summable(g, S), \A x \in S : f[x] <= g[x]
  PROVE  SumFunctionOnSet(f, S) <= SumFunctionOnSet(g, S)
<1> DEFINE D == {T \in SUBSET S : ~(SumFunctionOnSet(f, T) <= SumFunctionOnSet(g, T))}
<1>1. D = {}
  <2> SUFFICES ASSUME D # {} PROVE FALSE
    OBVIOUS
  <2>1. PICK T \in D : \A R \in D : Cardinality(T) <= Cardinality(R)
    <3>1. \A R \in D : IsFiniteSet(R)
      BY FS_Subset DEF Summable
    <3> HIDE DEF D
    <3>2. QED
      BY <3>1, SmallestSet
  <2>2. Summable(f, T) /\ Summable(g, T) /\ T \in SUBSET S
    BY <2>1, SummableSubset
  <2>3. PICK a : a \in T
    <3>1. T # {}
      BY <2>1, SumEmpty
    <3>2. QED
      BY <3>1
  <2> DEFINE rest == T \ {a}
  <2>4. /\ SumFunctionOnSet(f, T) = f[a] + SumFunctionOnSet(f, rest)
        /\ SumFunctionOnSet(g, T) = g[a] + SumFunctionOnSet(g, rest)
    BY <2>2, <2>3, SumRemove
  <2>5. rest \notin D /\ rest \in SUBSET S
    <3>1. IsFiniteSet(T)
      BY <2>2 DEF Summable
    <3> HIDE DEF D
    <3>2. QED
      BY <2>1, <2>2, <2>3, <3>1, Smaller
  <2>6. SumFunctionOnSet(f, rest) \in Int /\ SumFunctionOnSet(g, rest) \in Int
    BY <2>2, SummableSubset, SumType
  <2>7. f[a] \in Int /\ g[a] \in Int /\ f[a] <= g[a]
    BY <2>2, <2>3 DEF Summable
  <2> HIDE DEF rest
  <2>8. SumFunctionOnSet(f, T) <= SumFunctionOnSet(g, T)
    BY <2>4, <2>5, <2>6, <2>7
  <2>9. QED
    BY <2>1, <2>8
<1>2. QED
  BY <1>1

\* Of values that are not negative, the sum of fewer is no more.
LEMMA SumSubset ==
  ASSUME NEW S, NEW f, Summable(f, S), \A x \in S : 0 <= f[x], NEW T \in SUBSET S
  PROVE  SumFunctionOnSet(f, T) <= SumFunctionOnSet(f, S)
<1> DEFINE D == {R \in SUBSET S : T \subseteq R /\ ~(SumFunctionOnSet(f, T) <= SumFunctionOnSet(f, R))}
<1>1. D = {}
  <2> SUFFICES ASSUME D # {} PROVE FALSE
    OBVIOUS
  <2>1. PICK R \in D : \A Q \in D : Cardinality(R) <= Cardinality(Q)
    <3>1. \A Q \in D : IsFiniteSet(Q)
      BY FS_Subset DEF Summable
    <3> HIDE DEF D
    <3>2. QED
      BY <3>1, SmallestSet
  <2>2. Summable(f, R) /\ R \in SUBSET S /\ SumFunctionOnSet(f, T) \in Int
    BY <2>1, SummableSubset, SumType
  <2>3. PICK a : a \in R \ T
    <3>1. R # T
      BY <2>1, <2>2
    <3>2. QED
      BY <2>1, <3>1
  <2> DEFINE rest == R \ {a}
  <2>4. SumFunctionOnSet(f, R) = f[a] + SumFunctionOnSet(f, rest)
    BY <2>2, <2>3, SumRemove
  <2>5. rest \notin D /\ rest \in SUBSET S /\ T \subseteq rest
    <3>1. IsFiniteSet(R) /\ T \subseteq R
      BY <2>1, <2>2 DEF Summable
    <3>2. rest \in SUBSET S /\ T \subseteq rest
      BY <2>2, <2>3, <3>1
    <3> HIDE DEF D
    <3>3. a \in R
      BY <2>3
    <3>4. rest \notin D
      BY <2>1, <3>1, <3>3, Smaller
    <3>5. QED
      BY <3>2, <3>4
  <2>6. SumFunctionOnSet(f, rest) \in Int
    BY <2>2, SummableSubset, SumType
  <2>7. f[a] \in Int /\ 0 <= f[a]
    BY <2>2, <2>3 DEF Summable
  <2> HIDE DEF rest
  <2>8. SumFunctionOnSet(f, T) <= SumFunctionOnSet(f, R)
    BY <2>2, <2>4, <2>5, <2>6, <2>7
  <2>9. QED
    BY <2>1, <2>8
<1>2. QED
  BY <1>1

LEMMA SumNat ==
  ASSUME NEW S, NEW f, Summable(f, S), \A x \in S : 0 <= f[x]
  PROVE  SumFunctionOnSet(f, S) \in Nat
<1>1. SumFunctionOnSet(f, {}) <= SumFunctionOnSet(f, S)
  BY SumSubset
<1>2. QED
  BY <1>1, SumEmpty, SumType

LEMMA SumOfZeros ==
  ASSUME NEW S, NEW f, Summable(f, S), \A x \in S : f[x] = 0
  PROVE  SumFunctionOnSet(f, S) = 0
<1> DEFINE D == {T \in SUBSET S : SumFunctionOnSet(f, T) # 0}
<1>1. D = {}
  <2> SUFFICES ASSUME D # {} PROVE FALSE
    OBVIOUS
  <2>1. PICK T \in D : \A R \in D : Cardinality(T) <= Cardinality(R)
    <3>1. \A R \in D : IsFiniteSet(R)
      BY FS_Subset DEF Summable
    <3> HIDE DEF D
    <3>2. QED
      BY <3>1, SmallestSet
  <2>2. Summable(f, T) /\ T \in SUBSET S
    BY <2>1, SummableSubset
  <2>3. PICK a : a \in T
    <3>1. T # {}
      BY <2>1, SumEmpty
    <3>2. QED
      BY <3>1
  <2> DEFINE rest == T \ {a}
  <2>4. SumFunctionOnSet(f, T) = f[a] + SumFunctionOnSet(f, rest)
    BY <2>2, <2>3, SumRemove
  <2>5. rest \notin D /\ rest \in SUBSET S
    <3>1. IsFiniteSet(T)
      BY <2>2 DEF Summable
    <3> HIDE DEF D
    <3>2. QED
      BY <2>1, <2>2, <2>3, <3>1, Smaller
  <2>6. SumFunctionOnSet(f, rest) = 0 /\ f[a] = 0
    BY <2>2, <2>3, <2>5
  <2>7. QED
    BY <2>1, <2>4, <2>6
<1>2. QED
  BY <1>1

\* The functions f and g have the same values on S, but of x.
LEMMA SumUpdate ==
  ASSUME NEW S, NEW f, Summable(f, S), NEW x \in S, NEW g, g[x] \in Int,
         \A y \in S \ {x} : g[y] = f[y]
  PROVE  SumFunctionOnSet(g, S) = SumFunctionOnSet(f, S) + (g[x] - f[x])
<1>1. Summable(g, S) /\ f[x] \in Int
  BY DEF Summable
<1> DEFINE rest == S \ {x}
<1>2. /\ SumFunctionOnSet(f, S) = f[x] + SumFunctionOnSet(f, rest)
      /\ SumFunctionOnSet(g, S) = g[x] + SumFunctionOnSet(g, rest)
  BY <1>1, SumRemove
<1>3. Summable(f, rest) /\ SumFunctionOnSet(f, rest) \in Int
  BY SummableSubset, SumType
<1>4. SumFunctionOnSet(f, rest) = SumFunctionOnSet(g, rest)
  BY <1>3, SumAgrees
<1> HIDE DEF rest
<1>5. QED
  BY <1>1, <1>2, <1>3, <1>4

-----------------------------------------------------------------------------
(* Sums of sequences of integers.                                          *)

LEMMA SequenceSummable ==
  ASSUME NEW s \in Seq(Int)
  PROVE  Summable(s, DOMAIN s)
<1>1. DOMAIN s = 1 .. Len(s) /\ Len(s) \in Nat /\ \A i \in 1 .. Len(s) : s[i] \in Int
  OBVIOUS
<1>2. IsFiniteSet(1 .. Len(s))
  BY <1>1, FS_Interval
<1>3. QED
  BY <1>1, <1>2 DEF Summable

LEMMA SumOfNothing ==
  ASSUME NEW s \in Seq(Int), Len(s) = 0
  PROVE  SumFunction(s) = 0
<1>1. DOMAIN s = {}
  OBVIOUS
<1>2. QED
  BY <1>1, SumEmpty DEF SumFunction

LEMMA SumAppend ==
  ASSUME NEW s \in Seq(Int), NEW x \in Int
  PROVE  SumFunction(Append(s, x)) = SumFunction(s) + x
<1> DEFINE t == Append(s, x)
           n == Len(s) + 1
<1>1. t \in Seq(Int) /\ n \in DOMAIN t /\ t[n] = x
  OBVIOUS
<1>2. DOMAIN t \ {n} = DOMAIN s /\ \A i \in DOMAIN s : t[i] = s[i]
  <2>1. DOMAIN s = 1 .. Len(s) /\ DOMAIN t = 1 .. Len(s) + 1 /\ Len(s) \in Nat
    OBVIOUS
  <2>2. (1 .. Len(s) + 1) \ {Len(s) + 1} = 1 .. Len(s)
    BY <2>1
  <2>3. \A i \in DOMAIN s : t[i] = s[i]
    OBVIOUS
  <2>4. QED
    BY <2>1, <2>2, <2>3
<1>3. Summable(t, DOMAIN t) /\ Summable(s, DOMAIN s)
  BY <1>1, SequenceSummable
<1> HIDE DEF t, n
<1>4. SumFunctionOnSet(t, DOMAIN t) = x + SumFunctionOnSet(t, DOMAIN s)
  BY <1>1, <1>2, <1>3, SumRemove
<1>5. SumFunctionOnSet(s, DOMAIN s) = SumFunctionOnSet(t, DOMAIN s)
  BY <1>2, <1>3, SumAgrees
<1>6. SumFunctionOnSet(s, DOMAIN s) \in Int
  BY <1>3, SumType
<1>7. QED
  BY <1>4, <1>5, <1>6 DEF SumFunction, t

(***************************************************************************)
(* The values of a function on the elements of a sequence, added.          *)
(***************************************************************************)
SumOver(seq, value) == SumFunction([i \in DOMAIN seq |-> value[seq[i]]])

LEMMA SumOverSequence ==
  ASSUME NEW X, NEW seq \in Seq(X), NEW value \in [X -> Int]
  PROVE  /\ [i \in DOMAIN seq |-> value[seq[i]]] \in Seq(Int)
         /\ DOMAIN seq = 1 .. Len(seq) /\ Len(seq) \in Nat
         /\ Len([i \in DOMAIN seq |-> value[seq[i]]]) = Len(seq)
         /\ \A i \in DOMAIN seq : seq[i] \in X
<1>1. DOMAIN seq = 1 .. Len(seq) /\ Len(seq) \in Nat /\ \A i \in DOMAIN seq : seq[i] \in X
  OBVIOUS
<1>2. [i \in 1 .. Len(seq) |-> value[seq[i]]] \in [1 .. Len(seq) -> Int]
  BY <1>1
<1>3. QED
  BY <1>1, <1>2

LEMMA SumOverEmpty ==
  ASSUME NEW value
  PROVE  SumOver(<< >>, value) = 0
<1>1. DOMAIN [i \in DOMAIN << >> |-> value[<< >>[i]]] = {}
  OBVIOUS
<1>2. QED
  BY <1>1, SumEmpty DEF SumOver, SumFunction

LEMMA SumOverAppend ==
  ASSUME NEW X, NEW seq \in Seq(X), NEW value \in [X -> Int], NEW x \in X
  PROVE  SumOver(Append(seq, x), value) = SumOver(seq, value) + value[x]
<1> DEFINE s == [i \in DOMAIN seq |-> value[seq[i]]]
           t == [i \in DOMAIN Append(seq, x) |-> value[Append(seq, x)[i]]]
<1>1. s \in Seq(Int) /\ Len(s) = Len(seq) /\ value[x] \in Int
  BY SumOverSequence
<1>2. t = Append(s, value[x])
  <2>1. Append(seq, x) \in Seq(X) /\ Len(Append(seq, x)) = Len(seq) + 1
    OBVIOUS
  <2>2. t \in Seq(Int) /\ Len(t) = Len(seq) + 1
    <3> HIDE DEF t
    <3>1. Append(seq, x) \in Seq(X)
      BY <2>1
    <3>2. QED
      BY <2>1, <3>1, SumOverSequence DEF t
  <2>3. Append(s, value[x]) \in Seq(Int) /\ Len(Append(s, value[x])) = Len(seq) + 1
    BY <1>1
  <2>4. \A i \in 1 .. Len(seq) + 1 : t[i] = Append(s, value[x])[i]
    OBVIOUS
  <2> HIDE DEF s, t
  <2>5. QED
    BY <2>2, <2>3, <2>4, SeqEqual
<1> HIDE DEF s, t
<1>3. SumFunction(Append(s, value[x])) = SumFunction(s) + value[x]
  BY <1>1, SumAppend
<1>4. QED
  BY <1>2, <1>3 DEF SumOver, s, t

LEMMA SumOverType ==
  ASSUME NEW X, NEW seq \in Seq(X), NEW value \in [X -> Int]
  PROVE  SumOver(seq, value) \in Int
BY SumOverSequence, SequenceSummable, SumType DEF SumOver, SumFunction

LEMMA SumOverMonotone ==
  ASSUME NEW X, NEW seq \in Seq(X), NEW value \in [X -> Int], NEW other \in [X -> Int],
         \A x \in X : value[x] <= other[x]
  PROVE  SumOver(seq, value) <= SumOver(seq, other)
<1> DEFINE s == [i \in DOMAIN seq |-> value[seq[i]]]
           t == [i \in DOMAIN seq |-> other[seq[i]]]
<1>1. s \in Seq(Int) /\ t \in Seq(Int)
  BY SumOverSequence
<1>2. DOMAIN s = DOMAIN seq /\ DOMAIN t = DOMAIN seq /\ \A i \in DOMAIN seq : s[i] <= t[i]
  BY SumOverSequence
<1> HIDE DEF s, t
<1>3. SumFunctionOnSet(s, DOMAIN seq) <= SumFunctionOnSet(t, DOMAIN seq)
  BY <1>1, <1>2, SequenceSummable, SumMonotone
<1>4. QED
  BY <1>2, <1>3 DEF SumOver, SumFunction, s, t

LEMMA AppendElements ==
  ASSUME NEW X, NEW seq \in Seq(X), NEW x
  PROVE  ToSet(Append(seq, x)) = ToSet(seq) \cup {x}
<1> DEFINE t == Append(seq, x)
<1>1. DOMAIN seq = 1 .. Len(seq) /\ Len(seq) \in Nat
  OBVIOUS
<1>2. DOMAIN t = 1 .. Len(seq) + 1
  OBVIOUS
<1>3. 1 .. Len(seq) + 1 = (1 .. Len(seq)) \cup {Len(seq) + 1}
  BY <1>1
<1>4. t[Len(seq) + 1] = x /\ \A i \in 1 .. Len(seq) : t[i] = seq[i]
  OBVIOUS
<1> HIDE DEF t
<1>5. ToSet(t) = ToSet(seq) \cup {x}
  BY <1>1, <1>2, <1>3, <1>4 DEF ToSet
<1>6. QED
  BY <1>5 DEF t

-----------------------------------------------------------------------------
(* FoldLeft, one element after the other.                                  *)

\* What holds at 0, and of a number if it holds of the one before, holds up to n.
LEMMA UpTo ==
  ASSUME NEW n \in Nat, NEW P, 0 \in P, \A i \in 1 .. n : i - 1 \in P => i \in P
  PROVE  \A i \in 0 .. n : i \in P
<1> DEFINE D == {i \in 0 .. n : i \notin P}
<1>1. D = {}
  <2> SUFFICES ASSUME D # {} PROVE FALSE
    OBVIOUS
  <2>1. PICK i \in D : \A j \in D : i <= j
    <3>1. D \in SUBSET Nat
      OBVIOUS
    <3> HIDE DEF D
    <3>2. QED
      BY <3>1, LeastElement
  <2>2. i \in 1 .. n /\ i - 1 \in 0 .. n /\ ~(i <= i - 1)
    BY <2>1
  <2>3. i - 1 \in P
    BY <2>1, <2>2
  <2>4. QED
    BY <2>1, <2>2, <2>3
<1>2. QED
  BY <1>1

\* G[x][a] is what the element x makes of the accumulator a.
Foldable(seq, X, A, base, G) == seq \in Seq(X) /\ base \in A /\ G \in [X -> [A -> A]]

Accumulates(iter, seq, base, A, G) ==
  \A T \in SUBSET DOMAIN seq :
    iter[T] = IF T = {} THEN base ELSE G[seq[Max(T)]][iter[T \ {Max(T)}]]

LEMMA MaxOfIndices ==
  ASSUME NEW n \in Nat, NEW T \in SUBSET (1 .. n), T # {}
  PROVE  Max(T) \in T /\ \A i \in T : i <= Max(T)
<1> DEFINE D == {n - i : i \in T}
<1>1. D \in SUBSET Nat /\ D # {}
  <2>1. \A i \in T : n - i \in Nat
    OBVIOUS
  <2>2. QED
    BY <2>1
<1> HIDE DEF D
<1>2. PICK d \in D : \A e \in D : d <= e
  BY <1>1, LeastElement
<1>3. PICK m \in T : d = n - m
  BY <1>2 DEF D
<1>4. \A i \in T : m >= i
  <2>1. \A i \in T : n - i \in D
    BY DEF D
  <2>2. QED
    BY <1>2, <1>3, <2>1
<1>5. Max(T) \in T /\ \A i \in T : Max(T) >= i
  BY <1>4 DEF Max
<1>6. QED
  BY <1>5

LEMMA AccumulatorsExist ==
  ASSUME NEW seq, NEW X, NEW A, NEW base, NEW G, Foldable(seq, X, A, base, G)
  PROVE  \E iter \in [SUBSET DOMAIN seq -> A] : Accumulates(iter, seq, base, A, G)
<1> DEFINE S == DOMAIN seq
           pick == [T \in SUBSET S |-> Max(T)]
           H == [i \in S |-> G[seq[i]]]
<1>1. S = 1 .. Len(seq) /\ Len(seq) \in Nat /\ \A i \in S : seq[i] \in X
  BY DEF Foldable
<1>2. ASSUME NEW T \in SUBSET S, T # {} PROVE pick[T] = Max(T) /\ Max(T) \in T
  BY <1>1, <1>2, MaxOfIndices
<1>3. IsFiniteSet(S)
  BY <1>1, FS_Interval
<1>4. H \in [S -> [A -> A]] /\ \A i \in S : H[i] = G[seq[i]]
  BY <1>1 DEF Foldable
<1> HIDE DEF S, pick, H
<1>5. IsFold(S, A, base, pick, H)
  BY <1>2, <1>3, <1>4 DEF IsFold, Foldable
<1>6. PICK iter \in [SUBSET S -> A] : FoldsTo(iter, S, base, pick, H)
  BY <1>5, FoldExists
<1>7. ASSUME NEW T \in SUBSET S
      PROVE  iter[T] = IF T = {} THEN base ELSE G[seq[Max(T)]][iter[T \ {Max(T)}]]
  <2>1. CASE T = {}
    BY <1>6, <2>1 DEF FoldsTo
  <2>2. CASE T # {}
    <3>1. iter[T] = H[pick[T]][iter[T \ {pick[T]}]]
      BY <1>6, <2>2 DEF FoldsTo
    <3>2. pick[T] = Max(T) /\ Max(T) \in S
      BY <1>2, <2>2
    <3>3. QED
      BY <1>4, <2>2, <3>1, <3>2
  <2>3. QED
    BY <2>1, <2>2
<1>8. QED
  BY <1>6, <1>7 DEF Accumulates, S

\* The same, where it is only known of accumulators in A.
AccumulatesWithin(iter, seq, base, A, G) ==
  /\ iter[{}] = base
  /\ \A T \in SUBSET DOMAIN seq :
       T # {} /\ iter[T \ {Max(T)}] \in A => iter[T] = G[seq[Max(T)]][iter[T \ {Max(T)}]]

\* run[i] is the accumulator after i elements.
IsRun(run, seq, base, A, G) ==
  /\ run \in [0 .. Len(seq) -> A]
  /\ run[0] = base
  /\ \A i \in 1 .. Len(seq) : run[i] = G[seq[i]][run[i - 1]]

LEMMA AccumulatorsRun ==
  ASSUME NEW seq, NEW X, NEW A, NEW base, NEW G, Foldable(seq, X, A, base, G),
         NEW iter, AccumulatesWithin(iter, seq, base, A, G)
  PROVE  \E run : IsRun(run, seq, base, A, G) /\ run[Len(seq)] = iter[DOMAIN seq]
<1> DEFINE n == Len(seq)
           run == [i \in 0 .. n |-> iter[1 .. i]]
           P == {i \in 0 .. n : iter[1 .. i] \in A}
<1>1. DOMAIN seq = 1 .. n /\ n \in Nat /\ \A i \in 1 .. n : seq[i] \in X
  BY DEF Foldable
<1>2. iter[1 .. 0] = base
  <2>1. 1 .. 0 = {}
    OBVIOUS
  <2>2. QED
    BY <2>1 DEF AccumulatesWithin
<1>3. ASSUME NEW i \in 1 .. n, iter[1 .. i - 1] \in A
      PROVE  iter[1 .. i] = G[seq[i]][iter[1 .. i - 1]] /\ iter[1 .. i] \in A
  <2> DEFINE T == 1 .. i
  <2>index. i \in Nat /\ 1 <= i /\ i <= n
    BY <1>1
  <2>1. T \in SUBSET (1 .. n) /\ T # {}
    <3>1. i \in T
      BY <2>index
    <3>2. \A j \in T : j \in 1 .. n
      BY <1>1, <2>index
    <3>3. QED
      BY <3>1, <3>2
  <2>2. Max(T) = i
    <3>1. Max(T) \in T /\ \A j \in T : j <= Max(T)
      BY <1>1, <2>1, MaxOfIndices
    <3>2. QED
      BY <1>1, <3>1
  <2>3. T \ {i} = 1 .. i - 1
    BY <1>1
  <2> HIDE DEF T
  <2>4. iter[T] = G[seq[i]][iter[1 .. i - 1]]
    BY <1>1, <1>3, <2>1, <2>2, <2>3 DEF AccumulatesWithin
  <2>5. G[seq[i]] \in [A -> A]
    BY <1>1 DEF Foldable
  <2>6. QED
    BY <1>3, <2>4, <2>5 DEF T
<1>4. \A i \in 0 .. n : i \in P
  <2>1. 0 \in P
    BY <1>1, <1>2 DEF Foldable
  <2>2. \A i \in 1 .. n : i - 1 \in P => i \in P
    BY <1>1, <1>3
  <2> HIDE DEF P
  <2>3. QED
    BY <1>1, <2>1, <2>2, UpTo
<1>5. run \in [0 .. n -> A] /\ run[0] = base /\ run[n] = iter[DOMAIN seq]
  BY <1>1, <1>2, <1>4
<1>6. \A i \in 1 .. n : run[i] = G[seq[i]][run[i - 1]]
  BY <1>1, <1>3, <1>4
<1>7. QED
  BY <1>5, <1>6 DEF IsRun

\* A fold stays in a set that its turns do not leave.
LEMMA FoldStays ==
  ASSUME NEW seq, NEW X, NEW A, NEW base, NEW G, Foldable(seq, X, A, base, G),
         NEW iter, AccumulatesWithin(iter, seq, base, A, G)
  PROVE  iter[DOMAIN seq] \in A
<1>1. PICK run : IsRun(run, seq, base, A, G) /\ run[Len(seq)] = iter[DOMAIN seq]
  BY AccumulatorsRun
<1>2. Len(seq) \in Nat
  BY DEF Foldable
<1>3. QED
  BY <1>1, <1>2 DEF IsRun

-----------------------------------------------------------------------------
(* A function that is defined by recursion from 0 to n.                    *)

\* G[i][a] is the value at i, if a is the one before.
IsRecursion(n, A, base, G) == n \in Nat /\ base \in A /\ G \in [1 .. n -> [A -> A]]

LEMMA RecursionExists ==
  ASSUME NEW n, NEW A, NEW base, NEW G, IsRecursion(n, A, base, G)
  PROVE  \E run \in [0 .. n -> A] : run[0] = base /\ \A i \in 1 .. n : run[i] = G[i][run[i - 1]]
<1> USE DEF IsRecursion
<1> DEFINE X == 1 .. n
           seq == [i \in 1 .. n |-> i]
<1>1. seq \in Seq(X) /\ Len(seq) = n
  OBVIOUS
<1>2. \A i \in 1 .. n : seq[i] = i
  OBVIOUS
<1> HIDE DEF seq
<1>3. Foldable(seq, X, A, base, G)
  BY <1>1 DEF Foldable
<1> HIDE DEF X
<1>4. PICK iter \in [SUBSET DOMAIN seq -> A] : Accumulates(iter, seq, base, A, G)
  BY <1>3, AccumulatorsExist
<1>5. AccumulatesWithin(iter, seq, base, A, G)
  BY <1>4 DEF Accumulates, AccumulatesWithin
<1>6. PICK run : IsRun(run, seq, base, A, G)
  BY <1>3, <1>5, AccumulatorsRun
<1>7. run \in [0 .. n -> A] /\ run[0] = base /\ \A i \in 1 .. n : run[i] = G[seq[i]][run[i - 1]]
  BY <1>1, <1>6 DEF IsRun
<1>8. \A i \in 1 .. n : run[i] = G[i][run[i - 1]]
  BY <1>2, <1>7
<1>9. QED
  BY <1>7, <1>8

-----------------------------------------------------------------------------
(* Balances and their holds.                                               *)

AllHolds == Holds(Nat, Nat)

\* Holds that may lose of their quantity.
Kind(H) == /\ H \subseteq AllHolds
           /\ \A h \in H : \A m \in 1 .. h.quantity : [h EXCEPT !.quantity = m] \in H

BalanceOf(H) == [quantity : Nat, holds : Seq(H)]

\* What of the holds has not expired.
Unexpired(H, value, now) == [h \in H |-> IF IsExpired(h, now) THEN 0 ELSE value[h]]

\* kept[i] are those of the first i holds that have not expired.
IsKept(kept, H, holds, now) ==
  /\ kept \in [0 .. Len(holds) -> Seq(H)]
  /\ kept[0] = << >>
  /\ \A i \in 1 .. Len(holds) :
       kept[i] = IF IsExpired(holds[i], now) THEN kept[i - 1] ELSE Append(kept[i - 1], holds[i])

LEMMA UnexpiredRun ==
  ASSUME NEW H, NEW balance \in BalanceOf(H), NEW now
  PROVE  \E kept : /\ IsKept(kept, H, balance.holds, now)
                   /\ UnexpiredHolds(balance, now) = kept[Len(balance.holds)]
<1> DEFINE s == balance.holds
           n == Len(s)
           A == Seq(H)
           G == [i \in 1 .. n |-> [a \in A |-> IF IsExpired(s[i], now) THEN a ELSE Append(a, s[i])]]
           Turn(kept, i) == IF i = 0 THEN << >>
                            ELSE IF IsExpired(s[i], now) THEN kept[i - 1]
                            ELSE Append(kept[i - 1], s[i])
           Solves(kept) == kept = [i \in 0 .. n |-> Turn(kept, i)]
<1>1. n \in Nat /\ \A i \in 1 .. n : s[i] \in H
  BY DEF BalanceOf
<1>2. << >> \in A /\ \A i \in 1 .. n : \A a \in A : Append(a, s[i]) \in A
  BY <1>1
<1> HIDE DEF A
<1>3. G \in [1 .. n -> [A -> A]]
  BY <1>2
<1>4. \A i \in 1 .. n : \A a \in A : G[i][a] = IF IsExpired(s[i], now) THEN a ELSE Append(a, s[i])
  OBVIOUS
<1> HIDE DEF G
<1>5. PICK run \in [0 .. n -> A] : run[0] = << >> /\ \A i \in 1 .. n : run[i] = G[i][run[i - 1]]
  <2>1. IsRecursion(n, A, << >>, G)
    BY <1>1, <1>2, <1>3 DEF IsRecursion
  <2> HIDE DEF n
  <2>2. QED
    BY <2>1, RecursionExists
<1>6. \A i \in 1 .. n : run[i] = IF IsExpired(s[i], now) THEN run[i - 1] ELSE Append(run[i - 1], s[i])
  <2>1. \A i \in 1 .. n : run[i - 1] \in A
    BY <1>1, <1>5
  <2>2. QED
    BY <1>4, <1>5, <2>1
<1>7. Solves(run)
  <2>1. \A i \in 0 .. n : run[i] = Turn(run, i)
    BY <1>1, <1>5, <1>6
  <2> HIDE DEF Turn, n
  <2>2. QED
    BY <1>5, <2>1
<1> DEFINE kept == CHOOSE kept : Solves(kept)
<1>8. Solves(kept)
  BY <1>7
<1>9. UnexpiredHolds(balance, now) = kept[n]
  BY DEF UnexpiredHolds
<1> HIDE DEF kept
<1>10. kept[0] = << >> /\ \A i \in 1 .. n :
         kept[i] = IF IsExpired(s[i], now) THEN kept[i - 1] ELSE Append(kept[i - 1], s[i])
  <2>1. \A i \in 0 .. n : kept[i] = Turn(kept, i)
    <3> HIDE DEF Turn, n
    <3>1. QED
      BY <1>8
  <2>2. QED
    BY <1>1, <2>1
<1>11. \A i \in 0 .. n : kept[i] \in A
  <2> DEFINE P == {i \in 0 .. n : kept[i] \in A}
  <2>1. 0 \in P
    BY <1>1, <1>2, <1>10
  <2>3. ASSUME NEW i \in 1 .. n, i - 1 \in P PROVE i \in P
    <3>1. kept[i - 1] \in A /\ i \in 0 .. n
      BY <1>1, <2>3
    <3>2. kept[i] \in A
      BY <1>2, <1>10, <3>1
    <3>3. QED
      BY <3>1, <3>2
  <2> HIDE DEF P
  <2>2. \A i \in 0 .. n : i \in P
    BY <1>1, <2>1, <2>3, UpTo
  <2>4. QED
    BY <2>2 DEF P
<1>12. kept \in [0 .. n -> A]
  BY <1>8, <1>11
<1>13. IsKept(kept, H, s, now)
  BY <1>10, <1>12 DEF IsKept, A
<1>14. QED
  BY <1>9, <1>13

LEMMA UnexpiredType ==
  ASSUME NEW H, NEW balance \in BalanceOf(H), NEW now
  PROVE  UnexpiredHolds(balance, now) \in Seq(H)
<1>1. PICK kept : /\ IsKept(kept, H, balance.holds, now)
                  /\ UnexpiredHolds(balance, now) = kept[Len(balance.holds)]
  BY UnexpiredRun
<1>2. Len(balance.holds) \in Nat
  BY DEF BalanceOf
<1>3. QED
  BY <1>1, <1>2 DEF IsKept

\* The holds that are left out are those that have expired.
LEMMA UnexpiredSum ==
  ASSUME NEW H, NEW balance \in BalanceOf(H), NEW now, NEW value \in [H -> Int]
  PROVE  SumOver(UnexpiredHolds(balance, now), value)
           = SumOver(balance.holds, Unexpired(H, value, now))
<1> DEFINE s == balance.holds
           n == Len(s)
           weights == [i \in DOMAIN s |-> Unexpired(H, value, now)[s[i]]]
<1>1. /\ s \in Seq(H) /\ DOMAIN s = 1 .. n /\ n \in Nat
      /\ \A i \in 1 .. n : s[i] \in H
  BY DEF BalanceOf
<1>kept. PICK kept : IsKept(kept, H, s, now) /\ UnexpiredHolds(balance, now) = kept[n]
  BY UnexpiredRun
<1>2. /\ kept \in [0 .. n -> Seq(H)] /\ kept[0] = << >>
      /\ \A i \in 1 .. n : kept[i] = IF IsExpired(s[i], now) THEN kept[i - 1]
                                     ELSE Append(kept[i - 1], s[i])
      /\ UnexpiredHolds(balance, now) = kept[n]
  BY <1>kept DEF IsKept
<1>3. Unexpired(H, value, now) \in [H -> Int]
  BY DEF Unexpired
<1>4. \A i \in 1 .. n : weights[i] = IF IsExpired(s[i], now) THEN 0 ELSE value[s[i]]
  BY <1>1 DEF Unexpired
<1>5. ASSUME NEW i \in 1 .. n PROVE weights[i] \in Int
  <2>1. value[s[i]] \in Int
    BY <1>1
  <2> HIDE DEF weights
  <2>2. QED
    BY <1>4, <2>1
<1>6. DOMAIN weights = 1 .. n
  BY <1>1
<1> HIDE DEF weights, n, s
<1>7. Summable(weights, 1 .. n)
  BY <1>1, <1>5, FS_Interval DEF Summable
<1> DEFINE P == {i \in 0 .. n : SumOver(kept[i], value) = SumFunctionOnSet(weights, 1 .. i)}
<1>8. 0 \in P
  <2>1. 1 .. 0 = {}
    OBVIOUS
  <2>2. QED
    BY <1>1, <1>2, <2>1, SumOverEmpty, SumEmpty
<1>9. ASSUME NEW i \in 1 .. n, i - 1 \in P PROVE i \in P
  <2>1. SumOver(kept[i - 1], value) = SumFunctionOnSet(weights, 1 .. i - 1)
    BY <1>9
  <2>2. i \in 1 .. i /\ (1 .. i) \ {i} = 1 .. i - 1 /\ (1 .. i) \in SUBSET (1 .. n)
    BY <1>1
  <2>3. Summable(weights, 1 .. i)
    BY <1>7, <2>2, SummableSubset
  <2>4. SumFunctionOnSet(weights, 1 .. i) = weights[i] + SumFunctionOnSet(weights, 1 .. i - 1)
    <3> DEFINE T == 1 .. i
    <3>1. SumFunctionOnSet(weights, T) = weights[i] + SumFunctionOnSet(weights, T \ {i})
      <4>1. i \in T /\ Summable(weights, T)
        BY <2>2, <2>3
      <4> HIDE DEF T
      <4>2. QED
        BY <4>1, SumRemove
    <3>2. QED
      BY <2>2, <3>1
  <2>5. kept[i - 1] \in Seq(H) /\ s[i] \in H /\ value[s[i]] \in Int
    <3>1. i - 1 \in 0 .. n /\ s[i] \in H
      BY <1>1
    <3>2. kept[i - 1] \in Seq(H)
      BY <1>2, <3>1
    <3>3. QED
      BY <3>1, <3>2
  <2>6. SumOver(kept[i - 1], value) \in Int
    <3> DEFINE before == kept[i - 1]
    <3>1. before \in Seq(H)
      BY <2>5
    <3> HIDE DEF before
    <3>2. SumOver(before, value) \in Int
      BY <3>1, SumOverType
    <3>3. QED
      BY <3>2 DEF before
  <2>7. ASSUME IsExpired(s[i], now) PROVE SumOver(kept[i], value) = SumFunctionOnSet(weights, 1 .. i)
    <3>1. kept[i] = kept[i - 1] /\ weights[i] = 0
      BY <1>2, <1>4, <2>7
    <3>2. QED
      BY <2>1, <2>4, <2>6, <3>1
  <2>8. ASSUME ~IsExpired(s[i], now) PROVE SumOver(kept[i], value) = SumFunctionOnSet(weights, 1 .. i)
    <3>1. kept[i] = Append(kept[i - 1], s[i]) /\ weights[i] = value[s[i]]
      BY <1>2, <1>4, <2>8
    <3>2. SumOver(kept[i], value) = SumOver(kept[i - 1], value) + value[s[i]]
      BY <2>5, <3>1, SumOverAppend
    <3>3. QED
      BY <2>1, <2>4, <2>5, <2>6, <3>1, <3>2
  <2>9. SumOver(kept[i], value) = SumFunctionOnSet(weights, 1 .. i)
    BY <2>7, <2>8
  <2>10. QED
    BY <1>1, <2>9
<1>10. \A i \in 0 .. n : i \in P
  <2> HIDE DEF P
  <2>1. QED
    BY <1>1, <1>8, <1>9, UpTo
<1>11. SumOver(kept[n], value) = SumFunctionOnSet(weights, 1 .. n)
  BY <1>1, <1>10
<1>12. SumOver(s, Unexpired(H, value, now)) = SumFunctionOnSet(weights, 1 .. n)
  BY <1>6 DEF SumOver, SumFunction, weights
<1>13. QED
  BY <1>2, <1>11, <1>12 DEF s

LEMMA UnexpiredElements ==
  ASSUME NEW H, NEW balance \in BalanceOf(H), NEW now
  PROVE  ToSet(UnexpiredHolds(balance, now)) = {h \in ToSet(balance.holds) : ~IsExpired(h, now)}
<1> DEFINE s == balance.holds
           n == Len(s)
<1>1. s \in Seq(H) /\ DOMAIN s = 1 .. n /\ n \in Nat
  BY DEF BalanceOf
<1>kept. PICK kept : IsKept(kept, H, s, now) /\ UnexpiredHolds(balance, now) = kept[n]
  BY UnexpiredRun
<1>2. /\ kept \in [0 .. n -> Seq(H)] /\ kept[0] = << >>
      /\ \A i \in 1 .. n : kept[i] = IF IsExpired(s[i], now) THEN kept[i - 1]
                                     ELSE Append(kept[i - 1], s[i])
      /\ UnexpiredHolds(balance, now) = kept[n]
  BY <1>kept DEF IsKept
<1> HIDE DEF n, s
<1> DEFINE From(i) == {s[j] : j \in {j \in 1 .. i : ~IsExpired(s[j], now)}}
           P == {i \in 0 .. n : ToSet(kept[i]) = From(i)}
<1>3. 0 \in P
  BY <1>1, <1>2 DEF ToSet
<1>4. ASSUME NEW i \in 1 .. n, i - 1 \in P PROVE i \in P
  <2>1. ToSet(kept[i - 1]) = From(i - 1) /\ kept[i - 1] \in Seq(H)
    BY <1>1, <1>2, <1>4
  <2>2. 1 .. i = (1 .. i - 1) \cup {i}
    BY <1>1
  <2>3. ASSUME IsExpired(s[i], now) PROVE ToSet(kept[i]) = From(i)
    <3>1. kept[i] = kept[i - 1] /\ From(i) = From(i - 1)
      BY <1>2, <2>2, <2>3
    <3>2. QED
      BY <2>1, <3>1
  <2>4. ASSUME ~IsExpired(s[i], now) PROVE ToSet(kept[i]) = From(i)
    <3>1. kept[i] = Append(kept[i - 1], s[i]) /\ From(i) = From(i - 1) \cup {s[i]}
      BY <1>2, <2>2, <2>4
    <3>2. ToSet(kept[i]) = ToSet(kept[i - 1]) \cup {s[i]}
      BY <2>1, <3>1, AppendElements
    <3>3. QED
      BY <2>1, <3>1, <3>2
  <2>5. ToSet(kept[i]) = From(i)
    BY <2>3, <2>4
  <2>6. QED
    BY <1>1, <2>5
<1>5. \A i \in 0 .. n : i \in P
  <2> HIDE DEF P
  <2>1. QED
    BY <1>1, <1>3, <1>4, UpTo
<1>6. ToSet(kept[n]) = From(n)
  <2>1. n \in P
    BY <1>1, <1>5
  <2>2. QED
    BY <2>1
<1>7. From(n) = {h \in ToSet(s) : ~IsExpired(h, now)}
  BY <1>1 DEF ToSet
<1>8. QED
  BY <1>2, <1>6, <1>7 DEF s

-----------------------------------------------------------------------------
(* What a hold locks.                                                      *)

LEMMA Division ==
  ASSUME NEW a \in Nat, NEW b \in Nat \ {0}
  PROVE  a \div b \in Nat /\ b * (a \div b) <= a /\ a < b * (a \div b) + b
OBVIOUS

LEMMA DivisionMonotone ==
  ASSUME NEW a \in Nat, NEW c \in Nat, a <= c, NEW b \in Nat \ {0}
  PROVE  a \div b <= c \div b
<1> DEFINE m == a \div b
           n == c \div b
<1>1. m \in Nat /\ n \in Nat /\ b * m <= a /\ c < b * n + b
  BY Division
<1> HIDE DEF m, n
<1>2. SUFFICES ASSUME n + 1 <= m PROVE FALSE
  BY <1>1 DEF m, n
<1>3. b * (n + 1) <= b * m
  BY <1>1, <1>2
<1>4. b * (n + 1) = b * n + b
  BY <1>1
<1>5. b * n \in Nat /\ b * m \in Nat
  BY <1>1
<1>6. QED
  BY <1>1, <1>3, <1>4, <1>5

\* The part of q that has vested after d of a period p.
LEMMA VestedShare ==
  ASSUME NEW q \in Nat, NEW p \in Nat \ {0}, NEW d \in 0 .. p
  PROVE  (2 * q * d + p) \div (2 * p) \in 0 .. q
<1> DEFINE a == 2 * q * d + p
           m == a \div (2 * p)
<1>1. a \in Nat /\ 2 * p \in Nat \ {0}
  OBVIOUS
<1>2. q * d <= q * p /\ q * d \in Nat /\ q * p \in Nat
  OBVIOUS
<1>3. a <= (2 * p) * q + p
  BY <1>2
<1>4. m \in Nat /\ (2 * p) * m <= a
  <2> HIDE DEF a
  <2>1. QED
    BY <1>1, Division
<1> HIDE DEF a, m
<1>5. SUFFICES ASSUME q + 1 <= m PROVE FALSE
  BY <1>4 DEF m, a
<1>6. (2 * p) * (q + 1) <= (2 * p) * m
  BY <1>1, <1>4, <1>5
<1>7. (2 * p) * (q + 1) = (2 * p) * q + 2 * p
  BY <1>1
<1>8. (2 * p) * q \in Nat /\ (2 * p) * m \in Nat
  BY <1>4
<1>9. QED
  BY <1>1, <1>3, <1>4, <1>6, <1>7, <1>8

LEMMA VestedGrows ==
  ASSUME NEW q \in Nat, NEW p \in Nat \ {0}, NEW d \in Nat, NEW e \in Nat, d <= e
  PROVE  (2 * q * d + p) \div (2 * p) <= (2 * q * e + p) \div (2 * p)
<1>1. q * d <= q * e /\ q * d \in Nat /\ q * e \in Nat
  OBVIOUS
<1>2. 2 * q * d = 2 * (q * d) /\ 2 * q * e = 2 * (q * e)
  OBVIOUS
<1>3. 2 * q * d + p <= 2 * q * e + p /\ 2 * q * d + p \in Nat /\ 2 * q * e + p \in Nat
  BY <1>1, <1>2
<1>4. 2 * p \in Nat \ {0}
  OBVIOUS
<1>5. QED
  BY <1>3, <1>4, DivisionMonotone

\* The holds of which the locked quantity is a number at all times.
RegularHolds == {h \in AllHolds : IsVesting(h) => h.vestingStart # h.expires}

LockedOf(h, t) == IF IsExpired(h, t) THEN 0 ELSE HoldQuantity(h, t)

LEMMA HoldFields ==
  ASSUME NEW h \in AllHolds
  PROVE  /\ h.quantity \in Nat /\ h.expires \in Nat
         /\ IsVesting(h) => h.vestingStart \in Nat
BY DEF AllHolds, Holds, IsVesting

LEMMA HoldLocks ==
  ASSUME NEW h \in RegularHolds, NEW t \in Nat
  PROVE  LockedOf(h, t) \in 0 .. h.quantity
<1>1. h.quantity \in Nat /\ h.expires \in Nat
  BY HoldFields DEF RegularHolds
<1>2. ASSUME IsVesting(h) PROVE LockedVestingQuantity(h, t) \in 0 .. h.quantity
  <2>1. h.vestingStart \in Nat /\ h.vestingStart # h.expires
    BY <1>2, HoldFields DEF RegularHolds
  <2>2. CASE t < h.vestingStart
    BY <1>1, <2>2 DEF LockedVestingQuantity
  <2>3. CASE ~(t < h.vestingStart) /\ t > h.expires
    BY <1>1, <2>3 DEF LockedVestingQuantity
  <2>4. CASE ~(t < h.vestingStart) /\ ~(t > h.expires)
    <3> DEFINE q == h.quantity
               p == h.expires - h.vestingStart
               d == t - h.vestingStart
    <3>1. LockedVestingQuantity(h, t) = q - (2 * q * d + p) \div (2 * p)
      BY <2>4 DEF LockedVestingQuantity
    <3>2. q \in Nat /\ p \in Nat \ {0} /\ d \in 0 .. p
      BY <1>1, <2>1, <2>4
    <3> HIDE DEF q, p, d
    <3>3. (2 * q * d + p) \div (2 * p) \in 0 .. q
      BY <3>2, VestedShare
    <3>4. LockedVestingQuantity(h, t) \in 0 .. q
      BY <3>1, <3>2, <3>3
    <3>5. QED
      BY <3>4 DEF q
  <2>5. QED
    BY <2>2, <2>3, <2>4
<1>3. QED
  BY <1>1, <1>2 DEF LockedOf, HoldQuantity

LEMMA HoldReleases ==
  ASSUME NEW h \in RegularHolds, NEW t \in Nat, NEW u \in Nat, t <= u
  PROVE  LockedOf(h, u) <= LockedOf(h, t)
<1>1. h.quantity \in Nat /\ h.expires \in Nat
  BY HoldFields DEF RegularHolds
<1>2. LockedOf(h, t) \in 0 .. h.quantity /\ LockedOf(h, u) \in 0 .. h.quantity
  BY HoldLocks
<1>3. CASE IsExpired(h, u)
  <2>1. LockedOf(h, u) = 0
    BY <1>3 DEF LockedOf
  <2>2. QED
    BY <1>1, <1>2, <2>1
<1>4. ASSUME ~IsExpired(h, u), IsVesting(h)
      PROVE  LockedVestingQuantity(h, u) <= LockedOf(h, t)
  <2>1. h.vestingStart \in Nat /\ h.vestingStart # h.expires
    BY <1>4, HoldFields DEF RegularHolds
  <2>2. ~IsExpired(h, t)
    BY <1>1, <1>4 DEF IsExpired
  <2>3. LockedOf(h, t) = LockedVestingQuantity(h, t) /\ LockedOf(h, u) = LockedVestingQuantity(h, u)
    BY <1>4, <2>2 DEF LockedOf, HoldQuantity
  <2>4. CASE t < h.vestingStart
    <3>1. LockedVestingQuantity(h, t) = h.quantity
      BY <2>4 DEF LockedVestingQuantity
    <3>2. QED
      BY <1>1, <1>2, <2>3, <3>1
  <2>5. CASE ~(t < h.vestingStart) /\ u > h.expires
    <3>1. LockedVestingQuantity(h, u) = 0
      BY <1>1, <2>1, <2>5 DEF LockedVestingQuantity
    <3>2. QED
      BY <1>1, <1>2, <3>1
  <2>6. CASE ~(t < h.vestingStart) /\ ~(u > h.expires)
    <3> DEFINE q == h.quantity
               p == h.expires - h.vestingStart
               d == t - h.vestingStart
               e == u - h.vestingStart
    <3>1. LockedVestingQuantity(h, t) = q - (2 * q * d + p) \div (2 * p)
      BY <1>1, <2>1, <2>6 DEF LockedVestingQuantity
    <3>2. LockedVestingQuantity(h, u) = q - (2 * q * e + p) \div (2 * p)
      BY <1>1, <2>1, <2>6 DEF LockedVestingQuantity
    <3>3. q \in Nat /\ p \in Nat \ {0} /\ d \in 0 .. p /\ e \in 0 .. p /\ d <= e
      BY <1>1, <2>1, <2>6
    <3> HIDE DEF q, p, d, e
    <3>4. (2 * q * d + p) \div (2 * p) \in 0 .. q /\ (2 * q * e + p) \div (2 * p) \in 0 .. q
      BY <3>3, VestedShare
    <3>5. (2 * q * d + p) \div (2 * p) <= (2 * q * e + p) \div (2 * p)
      BY <3>3, VestedGrows
    <3>6. LockedVestingQuantity(h, u) <= LockedVestingQuantity(h, t)
      BY <3>1, <3>2, <3>3, <3>4, <3>5
    <3>7. QED
      BY <2>3, <3>6
  <2>7. QED
    BY <1>1, <2>1, <2>4, <2>5, <2>6
<1>5. CASE ~IsExpired(h, u) /\ ~IsVesting(h)
  <2>1. ~IsExpired(h, t)
    BY <1>1, <1>5 DEF IsExpired
  <2>2. LockedOf(h, u) = h.quantity /\ LockedOf(h, t) = h.quantity
    BY <1>5, <2>1 DEF LockedOf, HoldQuantity
  <2>3. QED
    BY <1>1, <2>2
<1>6. QED
  BY <1>3, <1>4, <1>5 DEF LockedOf, HoldQuantity

-----------------------------------------------------------------------------
(* What a balance locks.                                                   *)

LockedOfAll(H, t) == [h \in H |-> LockedOf(h, t)]

LEMMA LockedOfAllType ==
  ASSUME NEW H, H \subseteq RegularHolds, NEW t \in Nat
  PROVE  LockedOfAll(H, t) \in [H -> Int] /\ LockedOfAll(H, t) \in [H -> Nat]
<1>1. \A h \in H : LockedOf(h, t) \in Nat
  <2>1. ASSUME NEW h \in H PROVE LockedOf(h, t) \in Nat
    <3>1. LockedOf(h, t) \in 0 .. h.quantity /\ h.quantity \in Nat
      BY HoldLocks, HoldFields DEF RegularHolds
    <3>2. QED
      BY <3>1
  <2>2. QED
    BY <2>1
<1>2. QED
  BY <1>1 DEF LockedOfAll

LEMMA LockedIsSum ==
  ASSUME NEW H, NEW balance \in BalanceOf(H), NEW t
  PROVE  LockedQuantity(balance, t) = SumOver(balance.holds, LockedOfAll(H, t))
<1> DEFINE s == balance.holds
<1>1. \A i \in DOMAIN s : s[i] \in H
  BY DEF BalanceOf
<1>2. [i \in DOMAIN s |-> IF IsExpired(s[i], t) THEN 0 ELSE HoldQuantity(s[i], t)]
        = [i \in DOMAIN s |-> LockedOfAll(H, t)[s[i]]]
  BY <1>1 DEF LockedOfAll, LockedOf
<1> HIDE DEF s
<1>3. QED
  BY <1>2 DEF LockedQuantity, SumOver, s

LEMMA LockedType ==
  ASSUME NEW H, H \subseteq RegularHolds, NEW balance \in BalanceOf(H), NEW t \in Nat
  PROVE  LockedQuantity(balance, t) \in Int
<1>1. balance.holds \in Seq(H)
  BY DEF BalanceOf
<1> DEFINE value == LockedOfAll(H, t)
<1>2. value \in [H -> Int]
  BY LockedOfAllType
<1>3. LockedQuantity(balance, t) = SumOver(balance.holds, value)
  BY LockedIsSum
<1> HIDE DEF value
<1>4. QED
  BY <1>1, <1>2, <1>3, SumOverType

\* As time goes on, less is locked.
LEMMA LockedReleases ==
  ASSUME NEW H, H \subseteq RegularHolds, NEW balance \in BalanceOf(H),
         NEW t \in Nat, NEW u \in Nat, t <= u
  PROVE  LockedQuantity(balance, u) <= LockedQuantity(balance, t)
<1>1. balance.holds \in Seq(H)
  BY DEF BalanceOf
<1>2. ASSUME NEW h \in H PROVE LockedOfAll(H, u)[h] <= LockedOfAll(H, t)[h]
  BY HoldReleases DEF LockedOfAll
<1>3. SumOver(balance.holds, LockedOfAll(H, u)) <= SumOver(balance.holds, LockedOfAll(H, t))
  BY <1>1, <1>2, LockedOfAllType, SumOverMonotone
<1>4. QED
  BY <1>3, LockedIsSum

\* From now on, the holds that have expired lock nothing.
LEMMA LockedOfUnexpired ==
  ASSUME NEW H, H \subseteq RegularHolds, NEW balance \in BalanceOf(H),
         NEW now \in Nat, NEW t \in Nat, now <= t
  PROVE  SumOver(UnexpiredHolds(balance, now), LockedOfAll(H, t)) = LockedQuantity(balance, t)
<1>1. LockedOfAll(H, t) \in [H -> Int]
  BY LockedOfAllType
<1>2. Unexpired(H, LockedOfAll(H, t), now) = LockedOfAll(H, t)
  <2>1. ASSUME NEW h \in H
        PROVE  (IF IsExpired(h, now) THEN 0 ELSE LockedOfAll(H, t)[h]) = LockedOfAll(H, t)[h]
    <3>1. h.expires \in Nat
      BY HoldFields DEF RegularHolds
    <3>2. IsExpired(h, now) => IsExpired(h, t)
      BY <3>1 DEF IsExpired
    <3>3. QED
      BY <3>2 DEF LockedOfAll, LockedOf
  <2>2. LockedOfAll(H, t) = [h \in H |-> LockedOfAll(H, t)[h]]
    BY <1>1
  <2> HIDE DEF LockedOfAll
  <2>3. QED
    BY <2>1, <2>2 DEF Unexpired
<1>3. QED
  BY <1>1, <1>2, LockedIsSum, UnexpiredSum

LEMMA LockedAfterLock ==
  ASSUME NEW H, H \subseteq RegularHolds, NEW balance \in BalanceOf(H), NEW hold \in H,
         NEW now \in Nat, NEW t \in Nat, now <= t
  PROVE  /\ LockQuantity(balance, hold, now) \in BalanceOf(H)
         /\ LockQuantity(balance, hold, now).quantity = balance.quantity
         /\ LockedQuantity(LockQuantity(balance, hold, now), t)
              <= LockedQuantity(balance, t) + hold.quantity
<1> DEFINE s == UnexpiredHolds(balance, now)
           b == LockQuantity(balance, hold, now)
<1>1. s \in Seq(H)
  BY UnexpiredType
<1>2. b \in BalanceOf(H) /\ b.quantity = balance.quantity /\ b.holds = Append(s, hold)
  <2>1. Append(s, hold) \in Seq(H)
    BY <1>1
  <2> HIDE DEF s
  <2>2. QED
    BY <2>1 DEF LockQuantity, BalanceOf, s
<1>3. SumOver(Append(s, hold), LockedOfAll(H, t)) = SumOver(s, LockedOfAll(H, t)) + LockedOfAll(H, t)[hold]
  <2> DEFINE value == LockedOfAll(H, t)
  <2>1. value \in [H -> Int]
    BY LockedOfAllType
  <2> HIDE DEF value, s
  <2>2. SumOver(Append(s, hold), value) = SumOver(s, value) + value[hold]
    BY <1>1, <2>1, SumOverAppend
  <2>3. QED
    BY <2>2 DEF value
<1>4. SumOver(s, LockedOfAll(H, t)) = LockedQuantity(balance, t) /\ LockedQuantity(balance, t) \in Int
  BY LockedOfUnexpired, LockedType
<1>5. LockedOfAll(H, t)[hold] \in 0 .. hold.quantity /\ hold.quantity \in Nat
  BY HoldLocks, HoldFields DEF LockedOfAll, RegularHolds
<1>6. LockedQuantity(b, t) = SumOver(Append(s, hold), LockedOfAll(H, t))
  BY <1>2, LockedIsSum
<1> HIDE DEF s, b
<1>7. LockedQuantity(b, t) <= LockedQuantity(balance, t) + hold.quantity
  BY <1>3, <1>4, <1>5, <1>6
<1>8. QED
  BY <1>2, <1>7 DEF b

LEMMA SpendableIsFree ==
  ASSUME NEW H, H \subseteq RegularHolds, NEW balance \in BalanceOf(H), NEW q \in Nat,
         NEW now \in Nat, IsSpendable(balance, q, now)
  PROVE  LockedQuantity(balance, now) + q <= balance.quantity
<1>1. balance.quantity \in Nat /\ balance.holds \in Seq(H)
  BY DEF BalanceOf
<1>2. LockedQuantity(balance, now) \in Int
  BY LockedType
<1>3. ASSUME NEW h \in ToSet(balance.holds) PROVE ~IsNaN(h, now)
  <2>1. h \in H
    BY <1>1, <1>3 DEF ToSet
  <2>2. QED
    BY <2>1 DEF RegularHolds, IsNaN
<1>4. SpendableQuantity(balance, now) >= q
  BY <1>3 DEF IsSpendable
<1>5. QED
  BY <1>1, <1>2, <1>4 DEF SpendableQuantity

-----------------------------------------------------------------------------
(* Unlocks.                                                                *)

UnlockResults(H) == [remaining : Nat, kept : Seq(H)]

\* What one turn of the loop makes of the holds that are kept.
LEMMA UnlockTurn ==
  ASSUME NEW H, Kind(H), NEW hold \in H, NEW acc \in UnlockResults(H),
         NEW name, NEW owner, NEW caller, NEW isTokenAuthority
  PROVE  LET turn == UnlockHold(hold, name, owner, caller, isTokenAuthority, acc)
         IN  /\ turn \in UnlockResults(H)
             /\ \/ /\ IsVesting(hold) \/ ~IsCallingUserAuthorized(hold, name, owner, caller, isTokenAuthority)
                   /\ turn.kept = Append(acc.kept, hold) /\ turn.remaining = acc.remaining
                \/ /\ ~IsVesting(hold)
                   /\ IsCallingUserAuthorized(hold, name, owner, caller, isTokenAuthority)
                   /\ \/ turn.kept = acc.kept /\ turn.remaining = acc.remaining - hold.quantity
                      \/ \E m \in 1 .. hold.quantity :
                           /\ turn.kept = Append(acc.kept, [hold EXCEPT !.quantity = m])
                           /\ turn.remaining = 0 /\ m = hold.quantity - acc.remaining
<1> DEFINE turn == UnlockHold(hold, name, owner, caller, isTokenAuthority, acc)
           authorized == IsCallingUserAuthorized(hold, name, owner, caller, isTokenAuthority)
<1>1. acc.remaining \in Nat /\ acc.kept \in Seq(H)
  BY DEF UnlockResults
<1>2. hold \in AllHolds
  BY DEF Kind
<1>3. hold.quantity \in Nat
  BY <1>2, HoldFields
<1>4. Append(acc.kept, hold) \in Seq(H)
  BY <1>1
<1>5. CASE IsVesting(hold) \/ ~authorized
  <2>1. turn = [acc EXCEPT !.kept = Append(@, hold)]
    BY <1>5 DEF UnlockHold
  <2>2. turn \in UnlockResults(H) /\ turn.kept = Append(acc.kept, hold) /\ turn.remaining = acc.remaining
    BY <1>1, <1>4, <2>1 DEF UnlockResults
  <2>3. QED
    BY <1>5, <2>2
<1>6. CASE ~IsVesting(hold) /\ authorized /\ hold.quantity <= acc.remaining
  <2>1. turn = [acc EXCEPT !.remaining = @ - hold.quantity]
    BY <1>6 DEF UnlockHold
  <2>2. acc.remaining - hold.quantity \in Nat
    BY <1>1, <1>3, <1>6
  <2>3. turn \in UnlockResults(H) /\ turn.kept = acc.kept /\ turn.remaining = acc.remaining - hold.quantity
    BY <1>1, <2>1, <2>2 DEF UnlockResults
  <2>4. QED
    BY <1>6, <2>3
<1>7. CASE ~IsVesting(hold) /\ authorized /\ ~(hold.quantity <= acc.remaining)
  <2> DEFINE m == hold.quantity - acc.remaining
             part == [hold EXCEPT !.quantity = m]
  <2>1. m \in 1 .. hold.quantity
    BY <1>1, <1>3, <1>7
  <2>2. part \in H
    BY <2>1 DEF Kind
  <2>3. turn = [remaining |-> 0, kept |-> Append(acc.kept, part)]
    BY <1>7 DEF UnlockHold
  <2>4. Append(acc.kept, part) \in Seq(H)
    BY <1>1, <2>2
  <2> HIDE DEF turn
  <2>5. turn \in UnlockResults(H) /\ turn.kept = Append(acc.kept, part) /\ turn.remaining = 0
    BY <2>3, <2>4 DEF UnlockResults
  <2>6. QED
    BY <1>7, <2>1, <2>5 DEF turn
<1>8. QED
  BY <1>5, <1>6, <1>7

\* The accumulators that the loop runs through.
Unlocks(run, H, holds, q, name, owner, caller, isTokenAuthority, order) ==
  /\ run \in [0 .. Len(order) -> UnlockResults(H)]
  /\ run[0] = [remaining |-> q, kept |-> << >>]
  /\ \A i \in 1 .. Len(order) :
       run[i] = UnlockHold(holds[order[i]], name, owner, caller, isTokenAuthority, run[i - 1])

LEMMA UnlockRun ==
  ASSUME NEW H, Kind(H), NEW balance \in BalanceOf(H), NEW q \in Nat, NEW now,
         NEW name, NEW owner, NEW caller, NEW isTokenAuthority,
         NEW order \in Seq(1 .. Len(UnexpiredHolds(balance, now)))
  PROVE  \E run :
           /\ Unlocks(run, H, UnexpiredHolds(balance, now), q, name, owner, caller, isTokenAuthority, order)
           /\ UnlockQuantity(balance, q, now, name, owner, caller, isTokenAuthority, order)
                = run[Len(order)]
<1> DEFINE s == UnexpiredHolds(balance, now)
           X == 1 .. Len(s)
           A == UnlockResults(H)
           base == [remaining |-> q, kept |-> << >>]
           Turn(i, acc) == UnlockHold(s[i], name, owner, caller, isTokenAuthority, acc)
           G == [i \in X |-> [acc \in A |-> Turn(i, acc)]]
           Solves(iter) == iter = [T \in SUBSET DOMAIN order |->
                                     IF T = {} THEN base ELSE Turn(order[Max(T)], iter[T \ {Max(T)}])]
<1>1. s \in Seq(H)
  BY UnexpiredType
<1>2. ASSUME NEW i \in X, NEW acc \in A PROVE Turn(i, acc) \in A
  <2>1. s[i] \in H
    BY <1>1
  <2>2. QED
    BY <2>1, UnlockTurn
<1>3. base \in A
  BY DEF UnlockResults
<1> HIDE DEF A, base, Turn, X, s
<1>4. G \in [X -> [A -> A]] /\ \A i \in X : \A acc \in A : G[i][acc] = Turn(i, acc)
  BY <1>2
<1> HIDE DEF G
<1>5. order \in Seq(X)
  BY DEF X, s
<1>6. Foldable(order, X, A, base, G)
  BY <1>3, <1>4, <1>5 DEF Foldable
<1>7. DOMAIN order = 1 .. Len(order) /\ Len(order) \in Nat /\ \A i \in 1 .. Len(order) : order[i] \in X
  BY <1>5
<1>8. ASSUME NEW T \in SUBSET DOMAIN order, T # {} PROVE order[Max(T)] \in X
  BY <1>7, <1>8, MaxOfIndices
<1>9. PICK it \in [SUBSET DOMAIN order -> A] : Accumulates(it, order, base, A, G)
  BY <1>6, AccumulatorsExist
<1>10. \E iter : Solves(iter)
  <2>1. ASSUME NEW T \in SUBSET DOMAIN order
        PROVE  it[T] = IF T = {} THEN base ELSE Turn(order[Max(T)], it[T \ {Max(T)}])
    <3>1. it[T] = IF T = {} THEN base ELSE G[order[Max(T)]][it[T \ {Max(T)}]]
      BY <1>9 DEF Accumulates
    <3>2. it[T \ {Max(T)}] \in A
      BY <1>9
    <3>3. QED
      BY <1>4, <1>8, <3>1, <3>2
  <2>2. Solves(it)
    BY <1>9, <2>1
  <2>3. QED
    BY <2>2
<1> DEFINE iter == CHOOSE iter : Solves(iter)
<1>11. Solves(iter)
  BY <1>10
<1>12. UnlockQuantity(balance, q, now, name, owner, caller, isTokenAuthority, order) = iter[DOMAIN order]
  BY DEF UnlockQuantity, FoldLeft, MapThenFoldSet, s, base, Turn
<1> HIDE DEF iter
<1>13. AccumulatesWithin(iter, order, base, A, G)
  <2>1. iter[{}] = base
    BY <1>11
  <2>2. ASSUME NEW T \in SUBSET DOMAIN order, T # {}, iter[T \ {Max(T)}] \in A
        PROVE  iter[T] = G[order[Max(T)]][iter[T \ {Max(T)}]]
    <3>1. iter[T] = Turn(order[Max(T)], iter[T \ {Max(T)}])
      BY <1>11, <2>2
    <3>2. QED
      BY <1>4, <1>8, <2>2, <3>1
  <2>3. QED
    BY <2>1, <2>2 DEF AccumulatesWithin
<1>14. PICK run : IsRun(run, order, base, A, G) /\ run[Len(order)] = iter[DOMAIN order]
  BY <1>6, <1>13, AccumulatorsRun
<1>15. run \in [0 .. Len(order) -> A] /\ run[0] = base
  BY <1>14 DEF IsRun
<1>16. ASSUME NEW i \in 1 .. Len(order) PROVE run[i] = Turn(order[i], run[i - 1])
  <2>1. run[i] = G[order[i]][run[i - 1]]
    BY <1>14 DEF IsRun
  <2>3. i - 1 \in 0 .. Len(order)
    BY <1>7
  <2>4. run[i - 1] \in A
    BY <1>15, <2>3
  <2>2. QED
    BY <1>4, <1>7, <2>1, <2>4
<1>17. Unlocks(run, H, s, q, name, owner, caller, isTokenAuthority, order)
  BY <1>15, <1>16 DEF Unlocks, A, base, Turn
<1>18. QED
  BY <1>12, <1>14, <1>17 DEF s

\* Values that do not grow when a hold is released, whole or in part.
Releasing(H, value) ==
  \A h \in H : /\ 0 <= value[h]
               /\ ~IsVesting(h) => \A m \in 1 .. h.quantity : value[[h EXCEPT !.quantity = m]] <= value[h]

\* Values of the holds that the caller cannot release.
Unreleased(H, value, name, owner, caller, isTokenAuthority) ==
  \A h \in H : ~IsVesting(h) /\ IsCallingUserAuthorized(h, name, owner, caller, isTokenAuthority)
                 => value[h] = 0 /\ \A m \in 1 .. h.quantity : value[[h EXCEPT !.quantity = m]] = 0

\* Values that are the quantities of the holds that the caller can release.
Counting(H, value, name, owner, caller, isTokenAuthority) ==
  \A h \in H : ~IsVesting(h) /\ IsCallingUserAuthorized(h, name, owner, caller, isTokenAuthority)
                 => /\ value[h] = h.quantity
                    /\ \A m \in 1 .. h.quantity : value[[h EXCEPT !.quantity = m]] = m

LEMMA TurnSum ==
  ASSUME NEW H, Kind(H), NEW hold \in H, NEW acc \in UnlockResults(H),
         NEW name, NEW owner, NEW caller, NEW isTokenAuthority, NEW value \in [H -> Int]
  PROVE  LET turn == UnlockHold(hold, name, owner, caller, isTokenAuthority, acc)
         IN  /\ Releasing(H, value)
                  => SumOver(turn.kept, value) <= SumOver(acc.kept, value) + value[hold]
             /\ Unreleased(H, value, name, owner, caller, isTokenAuthority)
                  => SumOver(turn.kept, value) = SumOver(acc.kept, value) + value[hold]
             /\ Counting(H, value, name, owner, caller, isTokenAuthority)
                  => SumOver(turn.kept, value) - turn.remaining
                       = SumOver(acc.kept, value) - acc.remaining + value[hold]
<1> DEFINE turn == UnlockHold(hold, name, owner, caller, isTokenAuthority, acc)
           authorized == IsCallingUserAuthorized(hold, name, owner, caller, isTokenAuthority)
           Part(m) == [hold EXCEPT !.quantity = m]
           counting == Counting(H, value, name, owner, caller, isTokenAuthority)
           Counted == counting => SumOver(turn.kept, value) - turn.remaining
                                    = SumOver(acc.kept, value) - acc.remaining + value[hold]
<1>0. hold.quantity \in Nat
  BY HoldFields DEF Kind
<1>1. acc.kept \in Seq(H) /\ value[hold] \in Int /\ acc.remaining \in Nat
  BY DEF UnlockResults
<1>2. SumOver(acc.kept, value) \in Int
  BY <1>1, SumOverType
<1>3. \/ /\ IsVesting(hold) \/ ~authorized
         /\ turn.kept = Append(acc.kept, hold) /\ turn.remaining = acc.remaining
      \/ /\ ~IsVesting(hold) /\ authorized
         /\ \/ turn.kept = acc.kept /\ turn.remaining = acc.remaining - hold.quantity
            \/ \E m \in 1 .. hold.quantity :
                 /\ turn.kept = Append(acc.kept, Part(m))
                 /\ turn.remaining = 0 /\ m = hold.quantity - acc.remaining
  BY UnlockTurn
<1>4. Releasing(H, value) => 0 <= value[hold]
  BY DEF Releasing
<1>5. Unreleased(H, value, name, owner, caller, isTokenAuthority) /\ ~IsVesting(hold) /\ authorized
        => value[hold] = 0
  BY DEF Unreleased
<1>count. counting /\ ~IsVesting(hold) /\ authorized => value[hold] = hold.quantity
  BY DEF Counting
<1>6. ASSUME NEW m \in 1 .. hold.quantity
      PROVE  /\ Part(m) \in H /\ value[Part(m)] \in Int
             /\ Releasing(H, value) /\ ~IsVesting(hold) => value[Part(m)] <= value[hold]
             /\ Unreleased(H, value, name, owner, caller, isTokenAuthority) /\ ~IsVesting(hold) /\ authorized
                  => value[Part(m)] = 0
             /\ counting /\ ~IsVesting(hold) /\ authorized => value[Part(m)] = m
  <2>1. Part(m) \in H
    BY DEF Kind
  <2>2. QED
    BY <2>1 DEF Releasing, Unreleased, Counting
<1> HIDE DEF turn, authorized, Part, counting
<1>7. ASSUME turn.kept = Append(acc.kept, hold), turn.remaining = acc.remaining
      PROVE  /\ Releasing(H, value)
                  => SumOver(turn.kept, value) <= SumOver(acc.kept, value) + value[hold]
             /\ Unreleased(H, value, name, owner, caller, isTokenAuthority)
                  => SumOver(turn.kept, value) = SumOver(acc.kept, value) + value[hold]
             /\ Counted
  <2>1. SumOver(turn.kept, value) = SumOver(acc.kept, value) + value[hold]
    BY <1>1, <1>7, SumOverAppend
  <2>2. QED
    BY <1>1, <1>2, <1>7, <2>1
<1>8. ASSUME ~IsVesting(hold), authorized, turn.kept = acc.kept, turn.remaining = acc.remaining - hold.quantity
      PROVE  /\ Releasing(H, value)
                  => SumOver(turn.kept, value) <= SumOver(acc.kept, value) + value[hold]
             /\ Unreleased(H, value, name, owner, caller, isTokenAuthority)
                  => SumOver(turn.kept, value) = SumOver(acc.kept, value) + value[hold]
             /\ Counted
  <2>1. SumOver(turn.kept, value) = SumOver(acc.kept, value)
    BY <1>8
  <2>2. Counted
    BY <1>0, <1>1, <1>2, <1>count, <1>8, <2>1
  <2>3. QED
    BY <1>1, <1>2, <1>4, <1>5, <1>8, <2>1, <2>2
<1>9. ASSUME ~IsVesting(hold), authorized, NEW m \in 1 .. hold.quantity,
             turn.kept = Append(acc.kept, Part(m)), turn.remaining = 0, m = hold.quantity - acc.remaining
      PROVE  /\ Releasing(H, value)
                  => SumOver(turn.kept, value) <= SumOver(acc.kept, value) + value[hold]
             /\ Unreleased(H, value, name, owner, caller, isTokenAuthority)
                  => SumOver(turn.kept, value) = SumOver(acc.kept, value) + value[hold]
             /\ Counted
  <2>1. SumOver(turn.kept, value) = SumOver(acc.kept, value) + value[Part(m)]
    <3> DEFINE part == Part(m)
               kept == acc.kept
    <3>1. part \in H /\ kept \in Seq(H) /\ turn.kept = Append(kept, part)
      BY <1>1, <1>6, <1>9
    <3> HIDE DEF part, kept
    <3>2. SumOver(Append(kept, part), value) = SumOver(kept, value) + value[part]
      BY <3>1, SumOverAppend
    <3>3. QED
      BY <3>1, <3>2 DEF part, kept
  <2>2. ASSUME Releasing(H, value) PROVE SumOver(turn.kept, value) <= SumOver(acc.kept, value) + value[hold]
    <3>1. value[Part(m)] <= value[hold] /\ value[Part(m)] \in Int
      BY <1>6, <1>9, <2>2
    <3>2. QED
      BY <1>1, <1>2, <2>1, <3>1
  <2>3. ASSUME Unreleased(H, value, name, owner, caller, isTokenAuthority)
        PROVE  SumOver(turn.kept, value) = SumOver(acc.kept, value) + value[hold]
    <3>1. value[Part(m)] = 0 /\ value[hold] = 0
      BY <1>5, <1>6, <1>9, <2>3
    <3>2. QED
      BY <1>2, <2>1, <3>1
  <2>4. Counted
    BY <1>0, <1>1, <1>2, <1>6, <1>count, <1>9, <2>1
  <2>5. QED
    BY <2>2, <2>3, <2>4
<1>10. QED
  BY <1>3, <1>7, <1>8, <1>9 DEF turn, counting

\* Every hold is visited once.
LEMMA VisitsAll ==
  ASSUME NEW s, Len(s) \in Nat, NEW order \in VisitOrders(s)
  PROVE  /\ order \in Seq(1 .. Len(s)) /\ Len(order) = Len(s)
         /\ order \in [1 .. Len(s) -> 1 .. Len(s)]
         /\ \A i, j \in 1 .. Len(s) : order[i] = order[j] => i = j
         /\ {order[j] : j \in 1 .. Len(s)} = 1 .. Len(s)
<1> DEFINE n == Len(s)
           N == 1 .. n
<1>1. order \in [N -> N] /\ \A i, j \in N : order[i] = order[j] => i = j
  BY DEF VisitOrders, IsInjective
<1>2. order \in Seq(N) /\ Len(order) = n
  BY <1>1
<1>3. IsFiniteSet(N)
  BY FS_Interval
<1> HIDE DEF N
<1>4. order \in Injection(N, N)
  BY <1>1 DEF Injection, IsInjective
<1>5. order \in Surjection(N, N)
  BY <1>3, <1>4, FS_Injection
<1>6. {order[j] : j \in N} = N
  BY <1>1, <1>5 DEF Surjection
<1>7. QED
  BY <1>1, <1>2, <1>6 DEF N

LEMMA UnlockSums ==
  ASSUME NEW H, Kind(H), NEW balance \in BalanceOf(H), NEW q \in Nat, NEW now,
         NEW name, NEW owner, NEW caller, NEW isTokenAuthority,
         NEW order \in VisitOrders(UnexpiredHolds(balance, now)), NEW value \in [H -> Int]
  PROVE  LET result == UnlockQuantity(balance, q, now, name, owner, caller, isTokenAuthority, order)
         IN  /\ result \in UnlockResults(H)
             /\ Releasing(H, value)
                  => SumOver(result.kept, value) <= SumOver(UnexpiredHolds(balance, now), value)
             /\ Unreleased(H, value, name, owner, caller, isTokenAuthority)
                  => SumOver(result.kept, value) = SumOver(UnexpiredHolds(balance, now), value)
             /\ Counting(H, value, name, owner, caller, isTokenAuthority)
                  => SumOver(result.kept, value) - result.remaining
                       = SumOver(UnexpiredHolds(balance, now), value) - q
<1> DEFINE s == UnexpiredHolds(balance, now)
           n == Len(s)
           f == [i \in DOMAIN s |-> value[s[i]]]
           releasing == Releasing(H, value)
           unreleased == Unreleased(H, value, name, owner, caller, isTokenAuthority)
           counting == Counting(H, value, name, owner, caller, isTokenAuthority)
           result == UnlockQuantity(balance, q, now, name, owner, caller, isTokenAuthority, order)
           Visited(k) == {order[j] : j \in 1 .. k}
           Sum(k) == SumFunctionOnSet(f, Visited(k))
<1>1. s \in Seq(H) /\ DOMAIN s = 1 .. n /\ n \in Nat /\ \A i \in 1 .. n : s[i] \in H
  <2>1. s \in Seq(H)
    BY UnexpiredType
  <2> HIDE DEF s
  <2>2. QED
    BY <2>1
<1>2. /\ order \in Seq(1 .. n) /\ Len(order) = n /\ order \in [1 .. n -> 1 .. n]
      /\ \A i, j \in 1 .. n : order[i] = order[j] => i = j
      /\ Visited(n) = 1 .. n
  <2> HIDE DEF s
  <2>1. order \in VisitOrders(s)
    BY DEF s
  <2>2. QED
    BY <1>1, <2>1, VisitsAll
<1>run. PICK run : /\ Unlocks(run, H, s, q, name, owner, caller, isTokenAuthority, order)
                   /\ result = run[Len(order)]
  BY <1>2, UnlockRun
<1>3. /\ run \in [0 .. n -> UnlockResults(H)]
      /\ run[0] = [remaining |-> q, kept |-> << >>]
      /\ \A i \in 1 .. n :
           run[i] = UnlockHold(s[order[i]], name, owner, caller, isTokenAuthority, run[i - 1])
      /\ result = run[n]
  <2> HIDE DEF s, n, result
  <2>1. QED
    BY <1>2, <1>run DEF Unlocks
<1>4. DOMAIN f = 1 .. n /\ \A i \in 1 .. n : f[i] = value[s[i]] /\ f[i] \in Int
  BY <1>1
<1>5. SumOver(s, value) = SumFunctionOnSet(f, 1 .. n)
  BY <1>1 DEF SumOver, SumFunction
<1> HIDE DEF s, n, f, result, releasing, unreleased, counting
<1>6. Summable(f, 1 .. n)
  BY <1>1, <1>4, FS_Interval DEF Summable
<1>7. ASSUME NEW k \in 0 .. n
      PROVE  Visited(k) \in SUBSET (1 .. n) /\ Summable(f, Visited(k)) /\ Sum(k) \in Int
  <2>1. Visited(k) \in SUBSET (1 .. n)
    BY <1>1, <1>2
  <2>2. Summable(f, Visited(k))
    <3> HIDE DEF Visited
    <3>1. QED
      BY <1>6, <2>1, SummableSubset
  <2>3. QED
    BY <2>1, <2>2, SumType
<1>8. Sum(0) = 0
  <2>1. Visited(0) = {}
    OBVIOUS
  <2>2. QED
    BY <2>1, SumEmpty
<1>index. ASSUME NEW k \in 1 .. n PROVE k \in 0 .. n /\ k - 1 \in 0 .. n
  BY <1>1
<1>9. ASSUME NEW k \in 1 .. n PROVE order[k] \in 1 .. n /\ Sum(k) = f[order[k]] + Sum(k - 1)
  <2>1. order[k] \in Visited(k) /\ order[k] \in 1 .. n
    <3>1. k \in 1 .. k
      BY <1>1
    <3>2. QED
      BY <1>2, <3>1
  <2>2. Visited(k) \ {order[k]} = Visited(k - 1)
    <3>1. 1 .. k = (1 .. k - 1) \cup {k} /\ k \notin 1 .. k - 1 /\ 1 .. k \subseteq 1 .. n
      BY <1>1
    <3>2. \A j \in 1 .. k - 1 : order[j] # order[k]
      BY <1>1, <1>2, <3>1
    <3>3. QED
      BY <3>1, <3>2
  <2>3. Summable(f, Visited(k))
    BY <1>index, <1>7
  <2> HIDE DEF Visited
  <2>4. SumFunctionOnSet(f, Visited(k)) = f[order[k]] + SumFunctionOnSet(f, Visited(k) \ {order[k]})
    BY <2>1, <2>3, SumRemove
  <2>5. QED
    BY <2>1, <2>2, <2>4
<1> DEFINE Kept(k) == SumOver(run[k].kept, value)
           P == {k \in 0 .. n : /\ releasing => Kept(k) <= Sum(k)
                                /\ unreleased => Kept(k) = Sum(k)
                                /\ counting => Kept(k) - run[k].remaining = Sum(k) - q}
<1>10. 0 \in P
  <2>1. Kept(0) = 0 /\ run[0].remaining = q
    BY <1>3, SumOverEmpty
  <2>2. QED
    BY <1>1, <1>8, <2>1
<1>11. ASSUME NEW k \in 1 .. n, k - 1 \in P PROVE k \in P
  <2>1. run[k - 1] \in UnlockResults(H) /\ run[k] \in UnlockResults(H) /\ s[order[k]] \in H
    <3>1. k \in 0 .. n /\ k - 1 \in 0 .. n /\ order[k] \in 1 .. n
      BY <1>index, <1>9
    <3> HIDE DEF P, Kept, Sum
    <3>2. QED
      BY <1>1, <1>3, <3>1
  <2>2. /\ releasing => Kept(k) <= Kept(k - 1) + value[s[order[k]]]
        /\ unreleased => Kept(k) = Kept(k - 1) + value[s[order[k]]]
        /\ counting => Kept(k) - run[k].remaining = Kept(k - 1) - run[k - 1].remaining + value[s[order[k]]]
    <3>1. run[k] = UnlockHold(s[order[k]], name, owner, caller, isTokenAuthority, run[k - 1])
      BY <1>3
    <3> DEFINE hold == s[order[k]]
               acc == run[k - 1]
    <3>2. hold \in H /\ acc \in UnlockResults(H)
      BY <2>1
    <3>3. run[k] = UnlockHold(hold, name, owner, caller, isTokenAuthority, acc)
      BY <3>1
    <3> HIDE DEF hold, acc
    <3>4. /\ releasing => SumOver(run[k].kept, value) <= SumOver(acc.kept, value) + value[hold]
          /\ unreleased => SumOver(run[k].kept, value) = SumOver(acc.kept, value) + value[hold]
          /\ counting => SumOver(run[k].kept, value) - run[k].remaining
                           = SumOver(acc.kept, value) - acc.remaining + value[hold]
      BY <3>2, <3>3, TurnSum DEF releasing, unreleased, counting
    <3>5. QED
      BY <3>4 DEF hold, acc
  <2>3. f[order[k]] = value[s[order[k]]] /\ value[s[order[k]]] \in Int
    BY <1>4, <1>9
  <2>4. Kept(k - 1) \in Int /\ Kept(k) \in Int
    <3>1. run[k].kept \in Seq(H) /\ run[k - 1].kept \in Seq(H)
      BY <2>1 DEF UnlockResults
    <3>2. QED
      BY <3>1, SumOverType
  <2>rest. run[k - 1].remaining \in Nat /\ run[k].remaining \in Nat
    BY <2>1 DEF UnlockResults
  <2>5. Sum(k - 1) \in Int
    BY <1>index, <1>7
  <2>6. /\ releasing => Kept(k - 1) <= Sum(k - 1)
        /\ unreleased => Kept(k - 1) = Sum(k - 1)
        /\ counting => Kept(k - 1) - run[k - 1].remaining = Sum(k - 1) - q
    BY <1>11
  <2> HIDE DEF Kept, Sum
  <2>7. /\ releasing => Kept(k) <= Sum(k)
        /\ unreleased => Kept(k) = Sum(k)
    BY <1>9, <2>2, <2>3, <2>4, <2>5, <2>6
  <2>8. counting => Kept(k) - run[k].remaining = Sum(k) - q
    BY <1>9, <2>2, <2>3, <2>4, <2>rest, <2>5, <2>6
  <2>9. QED
    BY <1>1, <2>7, <2>8
<1>12. n \in P
  <2> HIDE DEF P
  <2>1. \A k \in 0 .. n : k \in P
    BY <1>1, <1>10, <1>11, UpTo
  <2>2. QED
    BY <1>1, <2>1
<1>13. Sum(n) = SumOver(s, value)
  BY <1>2, <1>5
<1>14. /\ releasing => SumOver(result.kept, value) <= SumOver(s, value)
       /\ unreleased => SumOver(result.kept, value) = SumOver(s, value)
       /\ counting => SumOver(result.kept, value) - result.remaining = SumOver(s, value) - q
  BY <1>3, <1>12, <1>13
<1>15. result \in UnlockResults(H)
  BY <1>1, <1>3
<1>16. QED
  BY <1>14, <1>15 DEF result, s, releasing, unreleased, counting

\* A value that expired holds do not have is that of the unexpired ones.
LEMMA SumOfUnexpired ==
  ASSUME NEW H, NEW balance \in BalanceOf(H), NEW now, NEW value \in [H -> Int],
         \A h \in H : IsExpired(h, now) => value[h] = 0
  PROVE  SumOver(UnexpiredHolds(balance, now), value) = SumOver(balance.holds, value)
<1>1. Unexpired(H, value, now) = value
  <2>1. \A h \in H : (IF IsExpired(h, now) THEN 0 ELSE value[h]) = value[h]
    OBVIOUS
  <2>2. value = [h \in H |-> value[h]]
    OBVIOUS
  <2>3. QED
    BY <2>1, <2>2 DEF Unexpired
<1>2. QED
  BY <1>1, UnexpiredSum

\* From a time on, the holds of a balance lock no more than it has.
CoveredFrom(balance, since) ==
  \A t \in Nat : since <= t => LockedQuantity(balance, t) <= balance.quantity

LEMMA EmptyBalances ==
  ASSUME NEW H
  PROVE  /\ EmptyBalance \in BalanceOf(H)
         /\ EmptyBalance.quantity = 0 /\ EmptyBalance.holds = << >>
         /\ \A t : LockedQuantity(EmptyBalance, t) = 0
<1>1. EmptyBalance \in BalanceOf(H) /\ EmptyBalance.quantity = 0 /\ EmptyBalance.holds = << >>
  BY DEF EmptyBalance, BalanceOf
<1>2. ASSUME NEW t PROVE LockedQuantity(EmptyBalance, t) = 0
  BY <1>1, LockedIsSum, SumOverEmpty
<1>3. QED
  BY <1>1, <1>2

LEMMA SameHoldsLocked ==
  ASSUME NEW b, NEW c, c.holds = b.holds, NEW t
  PROVE  LockedQuantity(c, t) = LockedQuantity(b, t)
BY DEF LockedQuantity

\* An unlock leaves a balance that has the quantity it had, and locks no more.
LEMMA UnlockLocksLess ==
  ASSUME NEW H, Kind(H), NEW balance \in BalanceOf(H), NEW q \in Nat, NEW now,
         NEW name, NEW owner, NEW caller, NEW isTokenAuthority,
         NEW order \in VisitOrders(UnexpiredHolds(balance, now))
  PROVE  LET result == UnlockQuantity(balance, q, now, name, owner, caller, isTokenAuthority, order)
             after  == [balance EXCEPT !.holds = result.kept]
         IN  /\ result.kept \in Seq(H) /\ result.remaining \in Nat
             /\ after \in BalanceOf(H) /\ after.quantity = balance.quantity
             /\ after.holds = result.kept /\ balance.holds \in Seq(H)
             /\ \A t \in Nat : now \in Nat /\ now <= t /\ H \subseteq RegularHolds
                  => LockedQuantity(after, t) <= LockedQuantity(balance, t)
<1> DEFINE result == UnlockQuantity(balance, q, now, name, owner, caller, isTokenAuthority, order)
           after == [balance EXCEPT !.holds = result.kept]
<1>1. result \in UnlockResults(H)
  <2> DEFINE value == [h \in H |-> 0]
  <2>1. value \in [H -> Int]
    OBVIOUS
  <2> HIDE DEF value
  <2>2. QED
    BY <2>1, UnlockSums
<1>2. result.kept \in Seq(H) /\ result.remaining \in Nat
  <2> HIDE DEF result
  <2>1. QED
    BY <1>1 DEF UnlockResults
<1>3. /\ after \in BalanceOf(H) /\ after.quantity = balance.quantity
      /\ after.holds = result.kept /\ balance.holds \in Seq(H)
  <2> HIDE DEF result
  <2>1. QED
    BY <1>2 DEF BalanceOf
<1>4. ASSUME NEW t \in Nat, now \in Nat, now <= t, H \subseteq RegularHolds
      PROVE  LockedQuantity(after, t) <= LockedQuantity(balance, t)
  <2> DEFINE value == LockedOfAll(H, t)
  <2>1. value \in [H -> Int]
    BY <1>4, LockedOfAllType
  <2>2. Releasing(H, value)
    <3>1. ASSUME NEW h \in H
          PROVE  /\ 0 <= value[h]
                 /\ ~IsVesting(h) => \A m \in 1 .. h.quantity : value[[h EXCEPT !.quantity = m]] <= value[h]
      <4>1. h \in RegularHolds /\ h \in AllHolds /\ h.quantity \in Nat
        BY <1>4, HoldFields DEF RegularHolds
      <4>2. 0 <= value[h]
        <5>1. LockedOf(h, t) \in 0 .. h.quantity
          BY <4>1, HoldLocks
        <5>2. QED
          BY <4>1, <5>1 DEF LockedOfAll
      <4>3. ASSUME ~IsVesting(h), NEW m \in 1 .. h.quantity
            PROVE  value[[h EXCEPT !.quantity = m]] <= value[h]
        <5> DEFINE part == [h EXCEPT !.quantity = m]
        <5>1. part \in H
          BY DEF Kind
        <5>2. /\ part.quantity = m /\ part.expires = h.expires /\ ~IsVesting(part)
              /\ IsExpired(part, t) <=> IsExpired(h, t)
          BY <4>1, <4>3 DEF AllHolds, Holds, IsVesting, IsExpired
        <5> HIDE DEF part
        <5>3. /\ value[part] = IF IsExpired(h, t) THEN 0 ELSE m
              /\ value[h] = IF IsExpired(h, t) THEN 0 ELSE h.quantity
          BY <4>3, <5>1, <5>2 DEF LockedOfAll, LockedOf, HoldQuantity
        <5> HIDE DEF value
        <5>4. value[part] <= value[h]
          BY <4>1, <5>3
        <5>5. QED
          BY <5>4 DEF part
      <4>4. QED
        BY <4>2, <4>3
    <3>2. QED
      BY <3>1 DEF Releasing
  <2>3. LockedQuantity(after, t) = SumOver(result.kept, value)
    <3> HIDE DEF result, after, value
    <3>1. LockedQuantity(after, t) = SumOver(after.holds, LockedOfAll(H, t))
      BY <1>3, LockedIsSum
    <3>2. QED
      BY <1>3, <3>1 DEF value
  <2>4. LockedQuantity(balance, t) = SumOver(UnexpiredHolds(balance, now), value)
    BY <1>4, LockedOfUnexpired
  <2> HIDE DEF value
  <2>5. SumOver(result.kept, value) <= SumOver(UnexpiredHolds(balance, now), value)
    BY <2>1, <2>2, UnlockSums
  <2>6. QED
    BY <2>3, <2>4, <2>5
<1>5. QED
  BY <1>2, <1>3, <1>4

-----------------------------------------------------------------------------
(* The holds can be visited in an order: each is put where it belongs.     *)

IsVisit(order, holds, k) ==
  /\ order \in [1 .. k -> 1 .. k]
  /\ \A i, j \in 1 .. k : order[i] = order[j] => i = j
  /\ \A i, j \in 1 .. k : i < j => ~ExpiresBefore(holds[order[j]], holds[order[i]])

LEMMA InsertVisit ==
  ASSUME NEW holds, NEW k \in Nat, \A i \in 1 .. k + 1 : holds[i].expires \in Nat,
         NEW order, IsVisit(order, holds, k)
  PROVE  \E next : IsVisit(next, holds, k + 1)
<1> DEFINE later == {i \in 1 .. k : ExpiresBefore(holds[k + 1], holds[order[i]])}
<1>1. PICK p \in 1 .. k + 1 : /\ p # k + 1 => p \in later
                              /\ \A i \in 1 .. k : i < p => i \notin later
  <2>1. CASE later = {}
    BY <2>1
  <2>2. CASE later # {}
    <3>1. later \in SUBSET Nat
      OBVIOUS
    <3>2. PICK i \in later : \A j \in later : i <= j
      BY <2>2, <3>1, LeastElement
    <3>3. QED
      BY <3>2
  <2>3. QED
    BY <2>1, <2>2
<1> DEFINE next == [i \in 1 .. k + 1 |-> IF i < p THEN order[i] ELSE IF i = p THEN k + 1 ELSE order[i - 1]]
<1>2. \A i \in 1 .. k : order[i] \in 1 .. k
  BY DEF IsVisit
<1>3. /\ \A i \in 1 .. k + 1 : i < p => i \in 1 .. k /\ next[i] = order[i]
      /\ next[p] = k + 1
      /\ \A i \in 1 .. k + 1 : i > p => i - 1 \in 1 .. k /\ next[i] = order[i - 1]
  OBVIOUS
<1>4. next \in [1 .. k + 1 -> 1 .. k + 1]
  <2>1. ASSUME NEW i \in 1 .. k + 1
        PROVE  (IF i < p THEN order[i] ELSE IF i = p THEN k + 1 ELSE order[i - 1]) \in 1 .. k + 1
    BY <1>2
  <2>2. QED
    BY <2>1
<1> HIDE DEF next
<1>5. ASSUME NEW i \in 1 .. k + 1, NEW j \in 1 .. k + 1, next[i] = next[j] PROVE i = j
  <2>1. \A m \in 1 .. k + 1 : m # p => next[m] \in 1 .. k
    BY <1>2, <1>3
  <2>2. i = p <=> j = p
    BY <1>3, <1>5, <2>1
  <2>3. ASSUME i # p, j # p PROVE i = j
    <3>1. (i < p \/ i > p) /\ (j < p \/ j > p)
      BY <2>3
    <3>2. \A l, m \in 1 .. k : order[l] = order[m] => l = m
      BY DEF IsVisit
    <3>3. CASE i < p /\ j < p
      BY <1>3, <1>5, <3>2, <3>3
    <3>4. CASE i > p /\ j > p
      BY <1>3, <1>5, <3>2, <3>4
    <3>5. CASE i < p /\ j > p
      <4>1. i = j - 1
        BY <1>3, <1>5, <3>2, <3>5
      <4>2. QED
        BY <3>5, <4>1
    <3>6. CASE i > p /\ j < p
      <4>1. i - 1 = j
        BY <1>3, <1>5, <3>2, <3>6
      <4>2. QED
        BY <3>6, <4>1
    <3>7. QED
      BY <3>1, <3>3, <3>4, <3>5, <3>6
  <2>4. QED
    BY <2>2, <2>3
<1>6. ASSUME NEW i \in 1 .. k + 1, NEW j \in 1 .. k + 1, i < j
      PROVE  ~ExpiresBefore(holds[next[j]], holds[next[i]])
  <2>1. \A l, m \in 1 .. k : l < m => ~ExpiresBefore(holds[order[m]], holds[order[l]])
    BY DEF IsVisit
  <2>2. CASE j < p
    BY <1>3, <1>6, <2>1, <2>2
  <2>3. CASE j = p
    <3>1. i \in 1 .. k /\ next[i] = order[i] /\ i \notin later /\ next[j] = k + 1
      BY <1>1, <1>3, <1>6, <2>3
    <3>2. QED
      BY <3>1
  <2>4. CASE j > p /\ i < p
    <3>1. i \in 1 .. k /\ j - 1 \in 1 .. k /\ i < j - 1 /\ next[i] = order[i] /\ next[j] = order[j - 1]
      BY <1>3, <1>6, <2>4
    <3>2. QED
      BY <2>1, <3>1
  <2>5. CASE j > p /\ i > p
    <3>1. i - 1 \in 1 .. k /\ j - 1 \in 1 .. k /\ i - 1 < j - 1 /\ next[i] = order[i - 1] /\ next[j] = order[j - 1]
      BY <1>3, <1>6, <2>5
    <3>2. QED
      BY <2>1, <3>1
  <2>6. CASE j > p /\ i = p
    <3>1. j - 1 \in 1 .. k /\ next[j] = order[j - 1] /\ next[i] = k + 1 /\ p \in later /\ p \in 1 .. k
      BY <1>1, <1>3, <2>6
    <3>2. ExpiresBefore(holds[k + 1], holds[order[p]])
      BY <3>1
    <3>3. p < j - 1 => ~ExpiresBefore(holds[order[j - 1]], holds[order[p]])
      BY <2>1, <3>1
    <3>4. p < j - 1 \/ p = j - 1
      BY <2>6
    <3>5. /\ holds[k + 1].expires \in Nat /\ holds[order[p]].expires \in Nat
          /\ holds[order[j - 1]].expires \in Nat
      BY <1>2, <3>1
    <3>6. ~ExpiresBefore(holds[order[j - 1]], holds[k + 1])
      BY <3>2, <3>3, <3>4, <3>5 DEF ExpiresBefore
    <3>7. QED
      BY <3>1, <3>6
  <2>7. QED
    BY <1>6, <2>2, <2>3, <2>4, <2>5, <2>6
<1>7. QED
  BY <1>4, <1>5, <1>6 DEF IsVisit

LEMMA VisitExists ==
  ASSUME NEW s \in Seq(AllHolds)
  PROVE  \E order : order \in VisitOrders(s)
<1> DEFINE n == Len(s)
           P == {k \in 0 .. n : \E order : IsVisit(order, s, k)}
<1>1. n \in Nat /\ \A i \in 1 .. n : s[i].expires \in Nat
  BY HoldFields
<1> HIDE DEF n
<1>2. 0 \in P
  <2>1. IsVisit([i \in 1 .. 0 |-> 1], s, 0)
    BY DEF IsVisit
  <2>2. QED
    BY <1>1, <2>1
<1>3. ASSUME NEW i \in 1 .. n, i - 1 \in P PROVE i \in P
  <2>1. PICK order : IsVisit(order, s, i - 1)
    BY <1>3
  <2>2. i - 1 \in Nat /\ (i - 1) + 1 = i /\ \A j \in 1 .. (i - 1) + 1 : s[j].expires \in Nat
    BY <1>1
  <2>3. \E next : IsVisit(next, s, (i - 1) + 1)
    BY <2>1, <2>2, InsertVisit
  <2>4. QED
    BY <1>1, <2>2, <2>3
<1>4. n \in P
  <2> HIDE DEF P
  <2>1. \A i \in 0 .. n : i \in P
    BY <1>1, <1>2, <1>3, UpTo
  <2>2. QED
    BY <1>1, <2>1
<1>5. PICK order : IsVisit(order, s, n)
  BY <1>4
<1>6. order \in VisitOrders(s)
  BY <1>5 DEF IsVisit, VisitOrders, IsInjective, n
<1>7. QED
  BY <1>6

-----------------------------------------------------------------------------
(* How much the holds of a name lock.                                      *)

LEMMA FunctionSequence ==
  ASSUME NEW n \in Nat, NEW X, NEW f \in [1 .. n -> X]
  PROVE  f \in Seq(X) /\ DOMAIN f = 1 .. n
BY SeqDef

PlainHolds == {h \in AllHolds : ~IsVesting(h) /\ h.quantity >= 1}

QuantityNamed(holds, name) ==
  SumFunction([i \in DOMAIN holds |-> IF holds[i].name = name THEN holds[i].quantity ELSE 0])

Named(H, name) == [h \in H |-> IF h.name = name THEN h.quantity ELSE 0]

LEMMA NamedIsSum ==
  ASSUME NEW H, H \subseteq AllHolds, NEW holds \in Seq(H), NEW name
  PROVE  /\ Named(H, name) \in [H -> Int]
         /\ QuantityNamed(holds, name) = SumOver(holds, Named(H, name))
         /\ QuantityNamed(holds, name) \in Nat
<1> DEFINE weights == [i \in DOMAIN holds |-> Named(H, name)[holds[i]]]
<1>1. /\ Named(H, name) \in [H -> Int]
      /\ \A h \in H : Named(H, name)[h] = IF h.name = name THEN h.quantity ELSE 0
      /\ \A h \in H : 0 <= Named(H, name)[h]
  BY HoldFields DEF Named
<1>2. /\ weights \in Seq(Int) /\ DOMAIN holds = 1 .. Len(holds) /\ Len(holds) \in Nat
      /\ Len(weights) = Len(holds) /\ \A i \in DOMAIN holds : holds[i] \in H
  BY <1>1, SumOverSequence
<1>3. weights = [i \in DOMAIN holds |-> IF holds[i].name = name THEN holds[i].quantity ELSE 0]
  <2>1. \A i \in DOMAIN holds :
          Named(H, name)[holds[i]] = IF holds[i].name = name THEN holds[i].quantity ELSE 0
    BY <1>1, <1>2
  <2>2. QED
    BY <2>1
<1>4. QuantityNamed(holds, name) = SumOver(holds, Named(H, name))
  BY <1>3 DEF QuantityNamed, SumOver
<1>5. Summable(weights, DOMAIN weights) /\ \A i \in DOMAIN weights : 0 <= weights[i]
  <2>1. Summable(weights, DOMAIN weights)
    BY <1>2, SequenceSummable
  <2>2. \A i \in DOMAIN weights : weights[i] = Named(H, name)[holds[i]]
    OBVIOUS
  <2>3. QED
    BY <1>1, <1>2, <2>1, <2>2
<1> HIDE DEF weights
<1>6. SumFunctionOnSet(weights, DOMAIN weights) \in Nat
  BY <1>5, SumNat
<1>7. QED
  BY <1>1, <1>3, <1>4, <1>6 DEF QuantityNamed, SumFunction

\* Where nothing of a name is held, no hold has the name.
LEMMA NoneNamed ==
  ASSUME NEW H, H \subseteq PlainHolds, NEW holds \in Seq(H), NEW name, QuantityNamed(holds, name) = 0
  PROVE  holds \in Seq({h \in H : h.name # name})
<1> DEFINE n == Len(holds)
           f == [i \in DOMAIN holds |-> IF holds[i].name = name THEN holds[i].quantity ELSE 0]
<1>1. /\ DOMAIN holds = 1 .. n /\ n \in Nat /\ \A i \in 1 .. n : holds[i] \in H
      /\ \A i \in 1 .. n : holds[i].quantity \in Nat /\ holds[i].quantity >= 1
  <2>1. \A h \in H : h.quantity \in Nat /\ h.quantity >= 1
    BY HoldFields DEF PlainHolds
  <2>2. QED
    BY <2>1
<1> HIDE DEF n
<1>2. DOMAIN f = 1 .. n /\ \A i \in 1 .. n : f[i] \in Nat /\ (holds[i].name = name => f[i] >= 1)
  BY <1>1
<1>3. SumFunctionOnSet(f, 1 .. n) = 0
  BY <1>2 DEF QuantityNamed, SumFunction
<1> HIDE DEF f
<1>4. Summable(f, 1 .. n)
  BY <1>1, <1>2, FS_Interval DEF Summable
<1>5. ASSUME NEW i \in 1 .. n PROVE holds[i].name # name
  <2> DEFINE one == {i}
             all == 1 .. n
  <2>0. one \in SUBSET all /\ Summable(f, all) /\ \A j \in all : 0 <= f[j]
    BY <1>2, <1>4
  <2>1. Summable(f, {i})
    <3> HIDE DEF one, all
    <3>1. Summable(f, one)
      BY <2>0, SummableSubset
    <3>2. QED
      BY <3>1 DEF one
  <2>2. SumFunctionOnSet(f, {i}) <= SumFunctionOnSet(f, 1 .. n)
    <3> HIDE DEF one, all
    <3>1. SumFunctionOnSet(f, one) <= SumFunctionOnSet(f, all)
      BY <2>0, SumSubset
    <3>2. QED
      BY <3>1 DEF one, all
  <2>3. SumFunctionOnSet(f, {i}) = f[i] + SumFunctionOnSet(f, {i} \ {i})
    BY <2>1, SumRemove
  <2>4. SumFunctionOnSet(f, {i} \ {i}) = 0
    <3>1. {i} \ {i} = {}
      OBVIOUS
    <3>2. QED
      BY <3>1, SumEmpty
  <2>5. f[i] \in Nat
    BY <1>2
  <2>6. f[i] <= 0
    BY <1>3, <2>2, <2>3, <2>4, <2>5
  <2>7. QED
    BY <1>2, <2>5, <2>6
<1>6. holds \in [1 .. n -> {h \in H : h.name # name}]
  BY <1>1, <1>5
<1>7. QED
  BY <1>1, <1>6, FunctionSequence

\* No hold of the name has expired by the time.
Fresh(H, name, now) == \A h \in H : h.name = name => ~IsExpired(h, now)

\* What is left of a name after the holds that have expired are gone.
LEMMA NamedUnexpired ==
  ASSUME NEW H, H \subseteq AllHolds, NEW balance \in BalanceOf(H), NEW now, NEW name
  PROVE  LET left == SumOver(UnexpiredHolds(balance, now), Named(H, name))
         IN  /\ left <= QuantityNamed(balance.holds, name)
             /\ Fresh(H, name, now)
                  => left = QuantityNamed(balance.holds, name)
<1> DEFINE value == Named(H, name)
           some == Unexpired(H, value, now)
<1>1. balance.holds \in Seq(H) /\ value \in [H -> Int] /\ \A h \in H : 0 <= value[h]
  <2>1. balance.holds \in Seq(H)
    BY DEF BalanceOf
  <2>2. \A h \in H : 0 <= value[h]
    BY HoldFields DEF Named
  <2>3. QED
    BY <2>1, <2>2, NamedIsSum
<1>2. some \in [H -> Int] /\ \A h \in H : some[h] <= value[h]
  BY <1>1 DEF Unexpired
<1>3. QuantityNamed(balance.holds, name) = SumOver(balance.holds, value)
  BY <1>1, NamedIsSum
<1> DEFINE fresh == Fresh(H, name, now)
<1>4. fresh => \A h \in H : IsExpired(h, now) => value[h] = 0
  BY DEF Named, Fresh
<1> HIDE DEF value, some
<1>5. SumOver(UnexpiredHolds(balance, now), value) = SumOver(balance.holds, some)
  BY <1>1, UnexpiredSum DEF some
<1>6. SumOver(balance.holds, some) <= SumOver(balance.holds, value)
  BY <1>1, <1>2, SumOverMonotone
<1> HIDE DEF fresh
<1>7. fresh => SumOver(UnexpiredHolds(balance, now), value) = SumOver(balance.holds, value)
  BY <1>1, <1>4, SumOfUnexpired
<1>8. QED
  BY <1>3, <1>5, <1>6, <1>7 DEF value, fresh

LEMMA NamedAfterLock ==
  ASSUME NEW H, H \subseteq AllHolds, NEW balance \in BalanceOf(H), NEW hold \in H, NEW now, NEW name
  PROVE  LET after == LockQuantity(balance, hold, now)
             added == IF hold.name = name THEN hold.quantity ELSE 0
         IN  /\ after \in BalanceOf(H) /\ after.quantity = balance.quantity
             /\ QuantityNamed(after.holds, name) <= QuantityNamed(balance.holds, name) + added
             /\ Fresh(H, name, now)
                  => QuantityNamed(after.holds, name) = QuantityNamed(balance.holds, name) + added
<1> DEFINE value == Named(H, name)
           s == UnexpiredHolds(balance, now)
           after == LockQuantity(balance, hold, now)
<1>1. balance.holds \in Seq(H) /\ s \in Seq(H) /\ value \in [H -> Int]
  BY UnexpiredType, NamedIsSum DEF BalanceOf
<1>2. after \in BalanceOf(H) /\ after.quantity = balance.quantity /\ after.holds = Append(s, hold)
  <2> HIDE DEF s
  <2>1. Append(s, hold) \in Seq(H)
    BY <1>1
  <2>2. QED
    BY <2>1 DEF BalanceOf, LockQuantity, s
<1>3. value[hold] = (IF hold.name = name THEN hold.quantity ELSE 0) /\ value[hold] \in Nat
  BY HoldFields DEF Named
<1>4. QuantityNamed(after.holds, name) = SumOver(s, value) + value[hold]
  <2> HIDE DEF s, value
  <2>1. QuantityNamed(Append(s, hold), name) = SumOver(Append(s, hold), value)
    <3>1. Append(s, hold) \in Seq(H)
      BY <1>1
    <3>2. QED
      BY <3>1, NamedIsSum DEF value
  <2>2. SumOver(Append(s, hold), value) = SumOver(s, value) + value[hold]
    BY <1>1, SumOverAppend
  <2>3. QED
    BY <1>2, <2>1, <2>2
<1>5. /\ SumOver(s, value) <= QuantityNamed(balance.holds, name)
      /\ Fresh(H, name, now)
           => SumOver(s, value) = QuantityNamed(balance.holds, name)
  BY NamedUnexpired
<1>6. SumOver(s, value) \in Int /\ QuantityNamed(balance.holds, name) \in Int
  <2>1. SumOver(s, value) \in Int
    <3> HIDE DEF s, value
    <3>1. QED
      BY <1>1, SumOverType
  <2>2. QED
    BY <1>1, <2>1, NamedIsSum
<1> HIDE DEF value, s, after
<1>7. QED
  BY <1>2, <1>3, <1>4, <1>5, <1>6 DEF after

(***************************************************************************)
(* An unlock takes from the holds of the name it is given, and from those  *)
(* that have expired.                                                      *)
(***************************************************************************)
LEMMA NamedAfterUnlock ==
  ASSUME NEW H, Kind(H), H \subseteq PlainHolds, NEW balance \in BalanceOf(H), NEW q \in Nat, NEW now,
         NEW name, NEW owner, NEW caller, NEW isTokenAuthority,
         NEW order \in VisitOrders(UnexpiredHolds(balance, now)), NEW other
  PROVE  LET result == UnlockQuantity(balance, q, now, name, owner, caller, isTokenAuthority, order)
             fresh == Fresh(H, other, now)
         IN  /\ QuantityNamed(result.kept, other) <= QuantityNamed(balance.holds, other)
             /\ other # name /\ fresh
                  => QuantityNamed(result.kept, other) = QuantityNamed(balance.holds, other)
             /\ other = name /\ fresh
                  => QuantityNamed(result.kept, other) - result.remaining
                       = QuantityNamed(balance.holds, other) - q
<1> DEFINE value == Named(H, other)
           result == UnlockQuantity(balance, q, now, name, owner, caller, isTokenAuthority, order)
           left == SumOver(UnexpiredHolds(balance, now), value)
           fresh == Fresh(H, other, now)
<1>1. H \subseteq AllHolds
  BY DEF Kind
<1>2. value \in [H -> Int] /\ QuantityNamed(balance.holds, other) \in Nat
  BY <1>1, NamedIsSum DEF BalanceOf
<1>3. ASSUME NEW h \in H, NEW m \in 1 .. h.quantity
      PROVE  /\ value[[h EXCEPT !.quantity = m]] = IF h.name = other THEN m ELSE 0
             /\ h.quantity \in Nat /\ m <= h.quantity
  <2>1. [h EXCEPT !.quantity = m] \in H /\ h \in AllHolds
    BY <1>1 DEF Kind
  <2>2. /\ [h EXCEPT !.quantity = m].name = h.name /\ [h EXCEPT !.quantity = m].quantity = m
        /\ h.quantity \in Nat
    BY <2>1 DEF AllHolds, Holds
  <2>3. value[[h EXCEPT !.quantity = m]] = IF h.name = other THEN m ELSE 0
    <3> DEFINE part == [h EXCEPT !.quantity = m]
    <3>1. part \in H /\ part.name = h.name /\ part.quantity = m
      BY <2>1, <2>2
    <3> HIDE DEF part
    <3>2. value[part] = IF h.name = other THEN m ELSE 0
      BY <3>1 DEF Named
    <3>3. QED
      BY <3>2 DEF part
  <2>4. QED
    BY <2>2, <2>3
<1>4. \A h \in H : /\ value[h] = IF h.name = other THEN h.quantity ELSE 0
                   /\ h.quantity \in Nat /\ 0 <= value[h]
  BY <1>1, HoldFields DEF Named
<1> HIDE DEF value
<1>5. Releasing(H, value)
  <2>1. ASSUME NEW h \in H, NEW m \in 1 .. h.quantity PROVE value[[h EXCEPT !.quantity = m]] <= value[h]
    BY <1>3, <1>4
  <2>2. QED
    BY <1>4, <2>1 DEF Releasing
<1>6. other # name => Unreleased(H, value, name, owner, caller, isTokenAuthority)
  BY <1>3, <1>4 DEF Unreleased, IsCallingUserAuthorized
<1>7. other = name => Counting(H, value, name, owner, caller, isTokenAuthority)
  BY <1>3, <1>4 DEF Counting, IsCallingUserAuthorized
<1>8. /\ left <= QuantityNamed(balance.holds, other)
      /\ fresh => left = QuantityNamed(balance.holds, other)
  BY <1>1, NamedUnexpired DEF value
<1>9. /\ result \in UnlockResults(H)
      /\ SumOver(result.kept, value) <= left
      /\ other # name => SumOver(result.kept, value) = left
      /\ other = name => SumOver(result.kept, value) - result.remaining = left - q
  BY <1>2, <1>5, <1>6, <1>7, UnlockSums
<1>10. result.kept \in Seq(H) /\ result.remaining \in Nat
  <2> HIDE DEF result
  <2>1. QED
    BY <1>9 DEF UnlockResults
<1> HIDE DEF result
<1>11. QuantityNamed(result.kept, other) = SumOver(result.kept, value) /\ QuantityNamed(result.kept, other) \in Nat
  BY <1>1, <1>10, NamedIsSum DEF value
<1>12. left \in Int
  <2>1. UnexpiredHolds(balance, now) \in Seq(H)
    BY UnexpiredType
  <2>2. QED
    BY <1>2, <2>1, SumOverType
<1> HIDE DEF left, fresh
<1>13. QED
  BY <1>2, <1>8, <1>9, <1>10, <1>11, <1>12 DEF result, fresh

-----------------------------------------------------------------------------
(* The quantities of all balances together.                                *)

Total(b) == SumFunction([u \in Users |-> b[u].quantity])

LEMMA TotalSummable ==
  ASSUME IsFiniteSet(Users), NEW H, NEW b \in [Users -> BalanceOf(H)]
  PROVE  LET f == [u \in Users |-> b[u].quantity]
         IN  /\ Summable(f, Users) /\ \A u \in Users : f[u] = b[u].quantity /\ 0 <= f[u]
             /\ Total(b) = SumFunctionOnSet(f, Users)
<1> DEFINE f == [u \in Users |-> b[u].quantity]
<1>1. \A u \in Users : f[u] = b[u].quantity /\ b[u].quantity \in Nat
  BY DEF BalanceOf
<1>2. Summable(f, Users)
  BY <1>1 DEF Summable
<1>3. Total(b) = SumFunctionOnSet(f, Users)
  BY DEF Total, SumFunction
<1>4. \A u \in Users : 0 <= f[u]
  BY <1>1
<1>5. QED
  BY <1>1, <1>2, <1>3, <1>4

LEMMA TotalType ==
  ASSUME IsFiniteSet(Users), NEW H, NEW b \in [Users -> BalanceOf(H)]
  PROVE  Total(b) \in Nat
BY TotalSummable, SumNat

\* The quantity of one balance changes.
LEMMA TotalChange ==
  ASSUME IsFiniteSet(Users), NEW H, NEW b \in [Users -> BalanceOf(H)],
         NEW c \in [Users -> BalanceOf(H)], NEW x \in Users,
         \A u \in Users \ {x} : c[u].quantity = b[u].quantity
  PROVE  Total(c) = Total(b) + (c[x].quantity - b[x].quantity)
<1> DEFINE f == [u \in Users |-> b[u].quantity]
           g == [u \in Users |-> c[u].quantity]
<1>1. Summable(f, Users) /\ Summable(g, Users)
  BY TotalSummable
<1>2. Total(b) = SumFunctionOnSet(f, Users) /\ Total(c) = SumFunctionOnSet(g, Users)
  BY TotalSummable
<1>3. /\ f[x] = b[x].quantity /\ g[x] = c[x].quantity
      /\ \A u \in Users \ {x} : g[u] = f[u]
  OBVIOUS
<1> HIDE DEF f, g
<1>4. g[x] \in Int
  BY <1>1 DEF Summable
<1>5. SumFunctionOnSet(g, Users) = SumFunctionOnSet(f, Users) + (g[x] - f[x])
  BY <1>1, <1>3, <1>4, SumUpdate
<1>6. QED
  BY <1>2, <1>3, <1>5

LEMMA TotalSame ==
  ASSUME IsFiniteSet(Users), NEW H, NEW b \in [Users -> BalanceOf(H)], NEW c \in [Users -> BalanceOf(H)],
         \A u \in Users : c[u].quantity = b[u].quantity
  PROVE  Total(c) = Total(b)
<1>1. [u \in Users |-> c[u].quantity] = [u \in Users |-> b[u].quantity]
  OBVIOUS
<1>2. QED
  BY <1>1 DEF Total
=============================================================================
