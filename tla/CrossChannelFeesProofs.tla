------------------------ MODULE CrossChannelFeesProofs ------------------------
(***************************************************************************)
(* For any users, codes, schedules and formulas: what users were credited  *)
(* is accounted for, receipts agree, recorded fees are those of the        *)
(* schedule, and payments cost what the receipts say.                      *)
(*                                                                         *)
(* A gate computes its effects on what the transaction has done so far,    *)
(* and these become the state in the end.  The invariant is therefore a    *)
(* predicate of what a gate works on, BeforeGate of the state included,    *)
(* and the lemmas of one call of a gate are lemmas of the calls that       *)
(* follow it in the same transaction.                                      *)
(***************************************************************************)
EXTENDS CrossChannelFees, FiniteSetTheorems, WellFoundedInduction, TLAPS

-----------------------------------------------------------------------------
(* Sums over finite sets: the facts of TokenBalanceProofs, that are true of*)
(* any functions, and what they say of the quantities of records.          *)

Sums == INSTANCE TokenBalanceProofs WITH Names <- {}

Summable(f, S) == IsFiniteSet(S) /\ \A x \in S : f[x] \in Int

LEMMA SameSums ==
  ASSUME NEW f, NEW S
  PROVE  /\ Sums!SumFunctionOnSet(f, S) = SumFunctionOnSet(f, S)
         /\ Sums!IsFiniteSet(S) <=> IsFiniteSet(S)
         /\ Sums!Summable(f, S) <=> Summable(f, S)
<1>1. Sums!SumFunctionOnSet(f, S) = SumFunctionOnSet(f, S)
  BY DEF SumFunctionOnSet, FoldFunctionOnSet, MapThenFoldSet,
         Sums!SumFunctionOnSet, Sums!FoldFunctionOnSet, Sums!MapThenFoldSet
<1>2. Sums!IsFiniteSet(S) <=> IsFiniteSet(S)
  BY DEF IsFiniteSet, Sums!IsFiniteSet
<1>3. QED
  BY <1>1, <1>2 DEF Summable, Sums!Summable

LEMMA SumType ==
  ASSUME NEW S, NEW f, Summable(f, S)
  PROVE  SumFunctionOnSet(f, S) \in Int
BY SameSums, Sums!SumType

LEMMA SumEmpty ==
  ASSUME NEW f
  PROVE  SumFunctionOnSet(f, {}) = 0
BY SameSums, Sums!SumEmpty

LEMMA SumAgrees ==
  ASSUME NEW S, NEW f, Summable(f, S), NEW g, \A x \in S : f[x] = g[x]
  PROVE  SumFunctionOnSet(f, S) = SumFunctionOnSet(g, S)
BY SameSums, Sums!SumAgrees

LEMMA SumRemove ==
  ASSUME NEW S, NEW f, Summable(f, S), NEW x \in S
  PROVE  SumFunctionOnSet(f, S) = f[x] + SumFunctionOnSet(f, S \ {x})
BY SameSums, Sums!SumRemove

LEMMA SumNat ==
  ASSUME NEW S, NEW f, Summable(f, S), \A x \in S : 0 <= f[x]
  PROVE  SumFunctionOnSet(f, S) \in Nat
BY SameSums, Sums!SumNat

\* A set of records whose quantities can be added.
Countable(records) == IsFiniteSet(records) /\ \A r \in records : r.quantity \in Int

LEMMA TotalIsSum ==
  ASSUME NEW records, Countable(records), NEW all, records \subseteq all
  PROVE  /\ Total(records) = SumFunctionOnSet([r \in all |-> r.quantity], records)
         /\ Summable([r \in all |-> r.quantity], records)
<1> DEFINE f == [r \in records |-> r.quantity]
           g == [r \in all |-> r.quantity]
<1>1. Summable(f, records) /\ Summable(g, records)
  BY DEF Summable, Countable
<1>2. DOMAIN f = records /\ \A r \in records : f[r] = g[r]
  OBVIOUS
<1>3. Total(records) = SumFunctionOnSet(f, records)
  BY <1>2 DEF Total, SumFunction
<1> HIDE DEF f, g
<1>4. SumFunctionOnSet(f, records) = SumFunctionOnSet(g, records)
  BY <1>1, <1>2, SumAgrees
<1>5. QED
  BY <1>1, <1>3, <1>4 DEF g

LEMMA TotalType ==
  ASSUME NEW records, Countable(records)
  PROVE  Total(records) \in Int
<1> DEFINE f == [r \in records |-> r.quantity]
<1>1. Total(records) = SumFunctionOnSet(f, records) /\ Summable(f, records)
  BY TotalIsSum
<1> HIDE DEF f
<1>2. QED
  BY <1>1, SumType

LEMMA TotalOfNone == Total({}) = 0
<1>1. Countable({})
  BY FS_EmptySet DEF Countable
<1>2. QED
  BY <1>1, TotalIsSum, SumEmpty

LEMMA TotalAdd ==
  ASSUME NEW records, Countable(records), NEW r, r \notin records, r.quantity \in Int
  PROVE  /\ Countable(records \cup {r})
         /\ Total(records \cup {r}) = Total(records) + r.quantity
<1> DEFINE all == records \cup {r}
           f == [s \in all |-> s.quantity]
<1>1. Countable(all)
  BY FS_AddElement DEF Countable
<1>2. /\ Total(all) = SumFunctionOnSet(f, all) /\ Summable(f, all)
      /\ Total(records) = SumFunctionOnSet(f, records) /\ Summable(f, records)
  BY <1>1, TotalIsSum
<1>3. f[r] = r.quantity /\ r \in all /\ all \ {r} = records
  OBVIOUS
<1> HIDE DEF f, all
<1>4. SumFunctionOnSet(f, all) = f[r] + SumFunctionOnSet(f, records)
  BY <1>2, <1>3, SumRemove
<1>5. SumFunctionOnSet(f, records) \in Int
  BY <1>2, SumType
<1>6. QED
  BY <1>1, <1>2, <1>3, <1>4, <1>5 DEF all

(***************************************************************************)
(* Records may change, as long as they stay apart and keep their quantity. *)
(***************************************************************************)
LEMMA TotalOfChanged ==
  ASSUME NEW records, Countable(records), NEW f,
         \A r \in records : f[r].quantity = r.quantity,
         \A r, s \in records : f[r] = f[s] => r = s
  PROVE  /\ Countable({f[r] : r \in records})
         /\ Total({f[r] : r \in records}) = Total(records)
<1> DEFINE Image(T) == {f[r] : r \in T}
           Bad == {T \in SUBSET records : ~(Countable(Image(T)) /\ Total(Image(T)) = Total(T))}
<1>1. ASSUME NEW T \in SUBSET records PROVE Countable(T)
  BY FS_Subset DEF Countable
<1>2. Bad = {}
  <2> SUFFICES ASSUME Bad # {} PROVE FALSE
    OBVIOUS
  <2>1. PICK T \in Bad : \A R \in Bad : Cardinality(T) <= Cardinality(R)
    <3>1. \A T \in Bad : Sums!IsFiniteSet(T)
      BY <1>1, SameSums DEF Countable
    <3>2. \A T \in Bad : Sums!Cardinality(T) = Cardinality(T)
      BY DEF Sums!Cardinality, Cardinality
    <3> HIDE DEF Bad
    <3>3. QED
      BY <3>1, <3>2, Sums!SmallestSet
  <2>2. T \in SUBSET records
    BY <2>1
  <2>3. T # {}
    <3>1. Image({}) = {} /\ Countable({})
      BY FS_EmptySet DEF Countable
    <3>2. QED
      BY <2>1, <3>1, TotalOfNone
  <2>4. PICK r : r \in T
    BY <2>3
  <2> DEFINE R == T \ {r}
  <2>5. R \in SUBSET records /\ r \notin R /\ T = R \cup {r} /\ r \in records
    BY <2>2, <2>4
  <2>6. R \notin Bad
    <3>1. IsFiniteSet(T)
      BY <1>1, <2>2 DEF Countable
    <3>2. Cardinality(R) = Cardinality(T) - 1 /\ Cardinality(T) \in Nat
      BY <2>4, <3>1, FS_RemoveElement, FS_CardinalityType
    <3> HIDE DEF Bad, R
    <3>3. QED
      BY <2>1, <3>2
  <2>7. Countable(Image(R)) /\ Total(Image(R)) = Total(R) /\ Countable(R)
    BY <1>1, <2>5, <2>6
  <2>8. Image(T) = Image(R) \cup {f[r]} /\ f[r] \notin Image(R)
    BY <2>5
  <2>9. f[r].quantity = r.quantity /\ r.quantity \in Int
    BY <2>5 DEF Countable
  <2>10. ~(Countable(Image(T)) /\ Total(Image(T)) = Total(T))
    BY <2>1
  <2> HIDE DEF Image, R, Bad
  <2>11. Countable(Image(T)) /\ Total(Image(T)) = Total(Image(R)) + r.quantity
    BY <2>7, <2>8, <2>9, TotalAdd
  <2>12. Total(T) = Total(R) + r.quantity
    BY <2>5, <2>7, <2>9, TotalAdd
  <2>13. QED
    BY <2>7, <2>10, <2>11, <2>12
<1>3. records \notin Bad
  BY <1>2
<1>4. QED
  BY <1>3
-----------------------------------------------------------------------------
(* Lists of keys and their pages.                                          *)

\* Every element of a set once.
Lists(list, S) ==
  /\ list \in Seq(S) /\ Len(list) = Cardinality(S)
  /\ \A x \in S : \E i \in 1 .. Len(list) : list[i] = x
  /\ \A i, j \in 1 .. Len(list) : list[i] = list[j] => i = j

LEMMA ListMore ==
  ASSUME NEW S, IsFiniteSet(S), NEW list, Lists(list, S), NEW x, x \notin S
  PROVE  Lists(Append(list, x), S \cup {x})
<1> DEFINE T == S \cup {x}
           more == Append(list, x)
           n == Len(list)
<1>1. /\ list \in Seq(S) /\ n = Cardinality(S) /\ n \in Nat
      /\ \A y \in S : \E i \in 1 .. n : list[i] = y
      /\ \A i, j \in 1 .. n : list[i] = list[j] => i = j
      /\ \A i \in 1 .. n : list[i] \in S
  <2>1. list \in Seq(S)
    BY DEF Lists
  <2>2. n \in Nat /\ \A i \in 1 .. n : list[i] \in S
    BY <2>1
  <2>3. QED
    BY <2>1, <2>2 DEF Lists
<1>2. Cardinality(T) = n + 1
  BY <1>1, FS_AddElement
<1>3. list \in Seq(T) /\ x \in T
  <2>1. S \subseteq T /\ x \in T
    OBVIOUS
  <2> HIDE DEF T
  <2>2. list \in Seq(T)
    <3>1. list \in [1 .. n -> T]
      BY <1>1, <2>1
    <3>2. QED
      BY <1>1, <3>1, Sums!FunctionSequence
  <2>3. QED
    BY <2>1, <2>2
<1> HIDE DEF T
<1>4. /\ more \in Seq(T) /\ Len(more) = n + 1
      /\ more[n + 1] = x /\ \A i \in 1 .. n : more[i] = list[i]
  BY <1>3
<1> HIDE DEF more, n
<1>5. \A y \in T : \E i \in 1 .. n + 1 : more[i] = y
  <2> SUFFICES ASSUME NEW y \in T PROVE \E i \in 1 .. n + 1 : more[i] = y
    OBVIOUS
  <2>1. CASE y = x
    <3>1. n + 1 \in 1 .. n + 1
      BY <1>1
    <3>2. QED
      BY <1>4, <2>1, <3>1
  <2>2. CASE y # x
    <3>1. PICK i \in 1 .. n : list[i] = y
      BY <1>1, <2>2 DEF T
    <3>2. i \in 1 .. n + 1
      BY <1>1
    <3>3. QED
      BY <1>4, <3>1, <3>2
  <2>3. QED
    BY <2>1, <2>2
<1>6. ASSUME NEW i \in 1 .. n + 1, NEW j \in 1 .. n + 1, more[i] = more[j] PROVE i = j
  <2>1. (i \in 1 .. n \/ i = n + 1) /\ (j \in 1 .. n \/ j = n + 1)
    BY <1>1
  <2>2. \A k \in 1 .. n : more[k] # x
    BY <1>1, <1>4
  <2>3. QED
    BY <1>1, <1>4, <1>6, <2>1, <2>2
<1>7. QED
  BY <1>2, <1>4, <1>5, <1>6 DEF Lists, more, T

LEMMA ListedOnce ==
  ASSUME NEW S, IsFiniteSet(S)
  PROVE  Lists(Listed(S), S)
<1> DEFINE A == Seq(S)
           pick == [T \in SUBSET S |-> CHOOSE x \in T : TRUE]
           G == [x \in S |-> [list \in A |-> Append(list, x)]]
           Solves(iter) == iter = [T \in SUBSET S |->
             IF T = {} THEN << >>
             ELSE Append(iter[T \ {CHOOSE x \in T : TRUE}], CHOOSE x \in T : TRUE)]
<1>1. ASSUME NEW T \in SUBSET S, T # {} PROVE pick[T] \in T /\ pick[T] = CHOOSE x \in T : TRUE
  BY <1>1
<1>2. << >> \in A /\ G \in [S -> [A -> A]] /\ \A x \in S : \A list \in A : G[x][list] = Append(list, x)
  OBVIOUS
<1> HIDE DEF A, G, pick
<1>3. Sums!IsFold(S, A, << >>, pick, G)
  BY <1>1, <1>2, SameSums DEF Sums!IsFold
<1>4. PICK it \in [SUBSET S -> A] : Sums!FoldsTo(it, S, << >>, pick, G)
  BY <1>3, Sums!FoldExists
<1>5. \E iter : Solves(iter)
  <2>1. ASSUME NEW T \in SUBSET S
        PROVE  it[T] = IF T = {} THEN << >>
                       ELSE Append(it[T \ {CHOOSE x \in T : TRUE}], CHOOSE x \in T : TRUE)
    <3>1. CASE T = {}
      BY <1>4, <3>1 DEF Sums!FoldsTo
    <3>2. CASE T # {}
      <4>1. it[T] = G[pick[T]][it[T \ {pick[T]}]]
        BY <1>4, <3>2 DEF Sums!FoldsTo
      <4>2. pick[T] \in S /\ it[T \ {pick[T]}] \in A
        BY <1>1, <1>4, <3>2
      <4>3. QED
        BY <1>1, <1>2, <3>2, <4>1, <4>2
    <3>3. QED
      BY <3>1, <3>2
  <2>2. QED
    BY <1>4, <2>1
<1> DEFINE iter == CHOOSE iter : Solves(iter)
<1>6. Solves(iter)
  BY <1>5
<1>7. Listed(S) = iter[S]
  BY DEF Listed, FoldSet, MapThenFoldSet
<1> HIDE DEF iter
<1> DEFINE Bad == {T \in SUBSET S : ~Lists(iter[T], T)}
<1>8. Bad = {}
  <2> SUFFICES ASSUME Bad # {} PROVE FALSE
    OBVIOUS
  <2>1. \A T \in SUBSET S : IsFiniteSet(T)
    BY FS_Subset
  <2>2. PICK T \in Bad : \A R \in Bad : Cardinality(T) <= Cardinality(R)
    <3>1. \A R \in Bad : Sums!IsFiniteSet(R)
      BY <2>1, SameSums
    <3>2. \A R \in Bad : Sums!Cardinality(R) = Cardinality(R)
      BY DEF Sums!Cardinality, Cardinality
    <3> HIDE DEF Bad
    <3>3. QED
      BY <3>1, <3>2, Sums!SmallestSet
  <2>3. CASE T = {}
    <3>1. iter[T] = << >>
      BY <1>6, <2>3
    <3>2. Lists(<< >>, {})
      BY FS_EmptySet DEF Lists
    <3>3. QED
      BY <2>2, <2>3, <3>1, <3>2
  <2>4. CASE T # {}
    <3> DEFINE x == CHOOSE x \in T : TRUE
               R == T \ {x}
    <3>1. x \in T /\ T \in SUBSET S
      BY <2>2, <2>4
    <3>2. iter[T] = Append(iter[R], x)
      BY <1>6, <2>4, <3>1
    <3> HIDE DEF x
    <3>3. R \in SUBSET S /\ x \notin R /\ T = R \cup {x} /\ IsFiniteSet(R) /\ IsFiniteSet(T)
      BY <2>1, <3>1
    <3>4. Cardinality(R) = Cardinality(T) - 1 /\ Cardinality(T) \in Nat
      BY <3>1, <3>3, FS_RemoveElement, FS_CardinalityType
    <3>5. Lists(iter[R], R)
      <4>1. R \notin Bad
        <5> HIDE DEF Bad, R
        <5>1. QED
          BY <2>2, <3>4
      <4>2. QED
        BY <3>3, <4>1
    <3>6. Lists(iter[T], T)
      <4> HIDE DEF R
      <4>1. QED
        BY <3>2, <3>3, <3>5, ListMore
    <3>7. QED
      BY <2>2, <3>6
  <2>5. QED
    BY <2>3, <2>4
<1>9. QED
  BY <1>7, <1>8

LEMMA MinOfTwo ==
  ASSUME NEW a \in Int, NEW b \in Int
  PROVE  Min({a, b}) = IF a <= b THEN a ELSE b
BY DEF Min

\* What matches the fields, and what a page may be.
Matching(keys, fields) == {k \in keys : IsPrefix(TakeUntilUndefined(fields), k)}

PagesOf(found) == [results : SUBSET found, bookmark : found \cup {Undefined}]

\* The page is that which begins with the element number first.
StartsAt(first, keys, fields, limit, bookmark) ==
  LET found == Listed(Matching(keys, fields))
      page  == Page(keys, fields, bookmark, limit)
      n     == Len(found)
  IN  /\ bookmark = Undefined => first = 1
      /\ bookmark # Undefined => first \in 1 .. n /\ found[first] = bookmark
      /\ page \in PagesOf(Matching(keys, fields))
      /\ \A i \in 1 .. n : first <= i /\ i < first + limit => found[i] \in page.results
      /\ IF first + limit <= n THEN page.bookmark = found[first + limit]
                               ELSE page.bookmark = Undefined

LEMMA PageFrom ==
  ASSUME NEW keys, IsFiniteSet(keys), NEW fields, NEW limit \in Nat \ {0},
         NEW bookmark \in Matching(keys, fields) \cup {Undefined}
  PROVE  /\ \E first \in Nat \ {0} : StartsAt(first, keys, fields, limit, bookmark)
         /\ Page(keys, fields, bookmark, limit) \in PagesOf(Matching(keys, fields))
<1> DEFINE F == Matching(keys, fields)
           found == Listed(F)
           n == Len(found)
           page == Page(keys, fields, bookmark, limit)
           first == IF bookmark = Undefined THEN 1 ELSE CHOOSE i \in DOMAIN found : found[i] = bookmark
           next == first + limit
<1>1. Lists(found, F)
  <2>1. IsFiniteSet(F)
    BY FS_Subset DEF Matching
  <2> HIDE DEF F
  <2>2. QED
    BY <2>1, ListedOnce
<1>2. page = [results  |-> {found[i] : i \in first .. Min({next - 1, n})},
              bookmark |-> IF next <= n THEN found[next] ELSE Undefined]
  BY DEF Page, Matching
<1> HIDE DEF F, found, n
<1>3. /\ n \in Nat /\ DOMAIN found = 1 .. n
      /\ \A i \in 1 .. n : found[i] \in F
      /\ \A x \in F : \E i \in 1 .. n : found[i] = x
  <2>1. found \in Seq(F)
    BY <1>1 DEF Lists
  <2>2. QED
    BY <1>1, <2>1 DEF Lists, n
<1>4. /\ first \in Nat \ {0}
      /\ bookmark # Undefined => first \in 1 .. n /\ found[first] = bookmark
  <2>1. CASE bookmark = Undefined
    BY <2>1
  <2>2. CASE bookmark # Undefined
    <3>1. \E i \in DOMAIN found : found[i] = bookmark
      BY <1>3, <2>2 DEF F
    <3>2. first \in DOMAIN found /\ found[first] = bookmark
      BY <2>2, <3>1
    <3>3. QED
      BY <1>3, <2>2, <3>2
  <2>3. QED
    BY <2>1, <2>2
<1>5. bookmark = Undefined => first = 1
  OBVIOUS
<1> HIDE DEF first
<1>6. next \in Nat /\ Min({next - 1, n}) = IF next - 1 <= n THEN next - 1 ELSE n
  BY <1>3, <1>4, MinOfTwo
<1>7. \A i \in first .. Min({next - 1, n}) : i \in 1 .. n
  BY <1>3, <1>4, <1>6
<1>8. page.results \in SUBSET F
  <2> DEFINE last == Min({next - 1, n})
             results == {found[i] : i \in first .. last}
  <2>1. page.results = results
    BY <1>2
  <2> HIDE DEF last
  <2>2. \A i \in first .. last : found[i] \in F
    BY <1>3, <1>7 DEF last
  <2>3. QED
    BY <2>1, <2>2
<1>9. page.bookmark \in F \cup {Undefined}
  <2>1. next \in 1 .. n \/ ~(next <= n)
    BY <1>3, <1>4
  <2>2. QED
    BY <1>2, <1>3, <2>1
<1>10. page \in PagesOf(F)
  BY <1>2, <1>8, <1>9 DEF PagesOf
<1>11. ASSUME NEW i \in 1 .. n, first <= i, i < first + limit PROVE found[i] \in page.results
  <2>1. i \in first .. Min({next - 1, n})
    BY <1>3, <1>4, <1>6, <1>11
  <2>2. QED
    BY <1>2, <2>1
<1>12. IF next <= n THEN page.bookmark = found[next] ELSE page.bookmark = Undefined
  BY <1>2
<1> HIDE DEF page
<1>13. QED
  BY <1>4, <1>5, <1>10, <1>11, <1>12 DEF StartsAt, F, found, n, page

\* The page after a page, if there is one.
NextPage(keys, fields, limit, last) ==
  IF last.bookmark = Undefined THEN [last EXCEPT !.results = {}]
  ELSE Page(keys, fields, last.bookmark, limit)

PageRun(run, keys, fields, limit) ==
  /\ run \in [1 .. Cardinality(keys) + 1 -> PagesOf(Matching(keys, fields))]
  /\ run[1] = Page(keys, fields, Undefined, limit)
  /\ \A i \in 1 .. Cardinality(keys) : run[i + 1] = NextPage(keys, fields, limit, run[i])
  /\ Pages(keys, fields, limit) = {run[i].results : i \in 1 .. Cardinality(keys) + 1}

LEMMA NextPageType ==
  ASSUME NEW keys, IsFiniteSet(keys), NEW fields, NEW limit \in Nat \ {0},
         NEW last \in PagesOf(Matching(keys, fields))
  PROVE  NextPage(keys, fields, limit, last) \in PagesOf(Matching(keys, fields))
<1>1. CASE last.bookmark = Undefined
  BY <1>1 DEF NextPage, PagesOf
<1>2. CASE last.bookmark # Undefined
  <2>1. last.bookmark \in Matching(keys, fields)
    BY <1>2 DEF PagesOf
  <2>2. Page(keys, fields, last.bookmark, limit) \in PagesOf(Matching(keys, fields))
    BY <2>1, PageFrom
  <2>3. QED
    BY <1>2, <2>2 DEF NextPage
<1>3. QED
  BY <1>1, <1>2

LEMMA PagesRun ==
  ASSUME NEW keys, IsFiniteSet(keys), NEW fields, NEW limit \in Nat \ {0}
  PROVE  \E run : PageRun(run, keys, fields, limit)
<1> DEFINE n == Cardinality(keys)
           A == PagesOf(Matching(keys, fields))
           base == Page(keys, fields, Undefined, limit)
           Next1(last) == NextPage(keys, fields, limit, last)
           G == [i \in 1 .. n |-> [last \in A |-> Next1(last)]]
           Solves(pages) == pages = [i \in 1 .. n + 1 |->
             IF i = 1 THEN base
             ELSE IF pages[i - 1].bookmark = Undefined THEN [pages[i - 1] EXCEPT !.results = {}]
                  ELSE Page(keys, fields, pages[i - 1].bookmark, limit)]
<1>1. n \in Nat
  BY FS_CardinalityType
<1>2. base \in A
  BY PageFrom
<1>3. \A last \in A : Next1(last) \in A
  BY NextPageType
<1> HIDE DEF n, A, base, Next1
<1>4. Sums!IsRecursion(n, A, base, G) /\ \A i \in 1 .. n : \A last \in A : G[i][last] = Next1(last)
  BY <1>1, <1>2, <1>3 DEF Sums!IsRecursion
<1> HIDE DEF G
<1>5. PICK f \in [0 .. n -> A] : f[0] = base /\ \A i \in 1 .. n : f[i] = G[i][f[i - 1]]
  BY <1>4, Sums!RecursionExists
<1> DEFINE g == [i \in 1 .. n + 1 |-> f[i - 1]]
<1>6. /\ g \in [1 .. n + 1 -> A] /\ g[1] = base
      /\ \A i \in 1 .. n : g[i + 1] = Next1(g[i])
  <2>1. \A i \in 1 .. n + 1 : i - 1 \in 0 .. n
    BY <1>1
  <2>2. g \in [1 .. n + 1 -> A] /\ g[1] = base
    BY <1>1, <1>5, <2>1
  <2>3. ASSUME NEW i \in 1 .. n PROVE g[i + 1] = Next1(g[i])
    <3>1. /\ i \in 1 .. n + 1 /\ i + 1 \in 1 .. n + 1 /\ (i + 1) - 1 = i /\ i - 1 \in 0 .. n
      BY <1>1
    <3>2. g[i + 1] = f[i] /\ g[i] = f[i - 1] /\ f[i - 1] \in A
      BY <1>5, <3>1
    <3>3. QED
      BY <1>4, <1>5, <3>2
  <2>4. QED
    BY <2>2, <2>3
<1> HIDE DEF g
<1>7. \E pages : Solves(pages)
  <2>1. ASSUME NEW i \in 1 .. n + 1
        PROVE  g[i] = IF i = 1 THEN base
                      ELSE IF g[i - 1].bookmark = Undefined THEN [g[i - 1] EXCEPT !.results = {}]
                           ELSE Page(keys, fields, g[i - 1].bookmark, limit)
    <3>1. CASE i = 1
      BY <1>6, <3>1
    <3>2. CASE i # 1
      <4>1. i - 1 \in 1 .. n /\ (i - 1) + 1 = i
        BY <1>1, <3>2
      <4>2. g[i] = Next1(g[i - 1])
        BY <1>6, <4>1
      <4>3. QED
        BY <3>2, <4>2 DEF Next1, NextPage
    <3>3. QED
      BY <3>1, <3>2
  <2>2. g = [i \in 1 .. n + 1 |-> g[i]]
    BY <1>6
  <2>3. Solves(g)
    BY <2>1, <2>2
  <2>4. QED
    BY <2>3
<1> DEFINE pages == CHOOSE pages : Solves(pages)
<1>8. Solves(pages)
  BY <1>7
<1>9. Pages(keys, fields, limit) = {pages[i].results : i \in DOMAIN pages}
  BY DEF Pages, base, n
<1> HIDE DEF pages
<1>10. DOMAIN pages = 1 .. n + 1 /\ pages[1] = base
  BY <1>1, <1>8
<1>11. ASSUME NEW i \in 1 .. n PROVE pages[i + 1] = Next1(pages[i])
  <2>1. i + 1 \in 1 .. n + 1 /\ i + 1 # 1 /\ (i + 1) - 1 = i
    BY <1>1
  <2>2. pages[i + 1] = IF pages[(i + 1) - 1].bookmark = Undefined
                       THEN [pages[(i + 1) - 1] EXCEPT !.results = {}]
                       ELSE Page(keys, fields, pages[(i + 1) - 1].bookmark, limit)
    BY <1>8, <2>1
  <2>3. QED
    BY <2>1, <2>2 DEF Next1, NextPage
<1> DEFINE P == {i \in 0 .. n : pages[i + 1] \in A}
<1>12. \A i \in 0 .. n : i \in P
  <2>1. 0 \in P
    BY <1>1, <1>2, <1>10
  <2>2. ASSUME NEW i \in 1 .. n, i - 1 \in P PROVE i \in P
    <3>1. (i - 1) + 1 = i /\ i \in 0 .. n
      BY <1>1
    <3>2. pages[i] \in A
      BY <2>2, <3>1
    <3>3. pages[i + 1] \in A
      BY <1>3, <1>11, <3>2
    <3>4. QED
      BY <3>1, <3>3
  <2> HIDE DEF P
  <2>3. QED
    BY <1>1, <2>1, <2>2, Sums!UpTo
<1>13. pages \in [1 .. n + 1 -> A]
  <2>1. ASSUME NEW i \in 1 .. n + 1 PROVE pages[i] \in A
    <3>1. i - 1 \in 0 .. n /\ (i - 1) + 1 = i
      BY <1>1
    <3>2. QED
      BY <1>12, <3>1
  <2>2. pages = [i \in 1 .. n + 1 |-> pages[i]]
    BY <1>8, <1>10
  <2>3. QED
    BY <2>1, <2>2
<1>14. QED
  BY <1>9, <1>10, <1>11, <1>13 DEF PageRun, n, A, base, Next1

LEMMA FetchedWithin ==
  ASSUME NEW keys, IsFiniteSet(keys), NEW queries
  PROVE  \A picked \in FetchedKeys(keys, queries, PageLimits) : picked \subseteq keys
<1> SUFFICES ASSUME NEW picked \in FetchedKeys(keys, queries, PageLimits)
             PROVE  picked \subseteq keys
  OBVIOUS
<1>1. PICK fields \in queries, limit \in PageLimits :
        \E page \in Pages(keys, fields, limit) : picked \subseteq page
  BY DEF FetchedKeys, ChainKeysDtos
<1>2. limit \in Nat \ {0}
  BY FeesAssumption
<1>3. PICK run : PageRun(run, keys, fields, limit)
  BY <1>2, PagesRun
<1>4. PICK i \in 1 .. Cardinality(keys) + 1 : picked \subseteq run[i].results
  BY <1>1, <1>3 DEF PageRun
<1>5. run[i].results \in SUBSET Matching(keys, fields)
  BY <1>3 DEF PageRun, PagesOf
<1>6. QED
  BY <1>4, <1>5 DEF Matching

(***************************************************************************)
(* Whoever follows the bookmarks to the end gets all that matches: a page  *)
(* takes one key at least, so that as many pages as there are keys, and    *)
(* one more, are enough.                                                   *)
(***************************************************************************)
LEMMA PagesCover ==
  ASSUME NEW keys, IsFiniteSet(keys), Undefined \notin keys, NEW fields, NEW limit \in Nat \ {0}
  PROVE  Matching(keys, fields) \subseteq AllPages(keys, fields, limit)
<1> DEFINE n == Cardinality(keys)
           F == Matching(keys, fields)
           found == Listed(F)
           m == Len(found)
<1>1. IsFiniteSet(F) /\ Undefined \notin F
  BY FS_Subset DEF Matching
<1>2. n \in Nat /\ m \in Nat /\ m <= n
  <2>1. Cardinality(F) <= n /\ n \in Nat
    BY FS_Subset, FS_CardinalityType DEF Matching
  <2>2. m = Cardinality(F)
    <3> HIDE DEF F
    <3>1. QED
      BY <1>1, ListedOnce DEF Lists
  <2>3. Cardinality(F) \in Nat
    BY <1>1, FS_CardinalityType
  <2>4. QED
    BY <2>1, <2>2, <2>3
<1>3. /\ \A i \in 1 .. m : found[i] \in F
      /\ \A x \in F : \E i \in 1 .. m : found[i] = x
      /\ \A i, j \in 1 .. m : found[i] = found[j] => i = j
  <2>1. Lists(found, F)
    <3> HIDE DEF F
    <3>1. QED
      BY <1>1, ListedOnce
  <2> HIDE DEF F, found
  <2>2. found \in Seq(F)
    BY <2>1 DEF Lists
  <2>3. QED
    BY <2>1, <2>2 DEF Lists
<1>4. PICK run : PageRun(run, keys, fields, limit)
  BY PagesRun
<1> DEFINE Shown(x, i) == \E j \in 1 .. i : x \in run[j].results
           Until(i, k) == \A j \in 1 .. m : j < k => Shown(found[j], i)
           All(i) == \A j \in 1 .. m : Shown(found[j], i)
           Further(i) == \/ All(i)
                         \/ \E k \in 1 .. m : /\ k > i /\ run[i].bookmark = found[k] /\ Until(i, k)
           P == {i \in 0 .. n : Further(i + 1)}
<1>5. /\ run \in [1 .. n + 1 -> PagesOf(F)]
      /\ run[1] = Page(keys, fields, Undefined, limit)
      /\ \A i \in 1 .. n : run[i + 1] = NextPage(keys, fields, limit, run[i])
      /\ Pages(keys, fields, limit) = {run[i].results : i \in 1 .. n + 1}
  BY <1>4 DEF PageRun
<1> HIDE DEF n, m, found, F
<1>6. ASSUME NEW i \in 1 .. n + 1, NEW first \in Nat \ {0}, first >= i,
             \A k \in 1 .. m : first <= k /\ k < first + limit => found[k] \in run[i].results,
             IF first + limit <= m THEN run[i].bookmark = found[first + limit]
                                   ELSE run[i].bookmark = Undefined,
             \A j \in 1 .. m : j < first => Shown(found[j], i)
      PROVE  Further(i)
  <2>1. i \in 1 .. i
    BY <1>2
  <2>2. \A j \in 1 .. m : j < first + limit => Shown(found[j], i)
    <3> SUFFICES ASSUME NEW j \in 1 .. m, j < first + limit PROVE Shown(found[j], i)
      OBVIOUS
    <3>1. CASE j < first
      BY <1>6, <3>1
    <3>2. CASE ~(j < first)
      <4>1. found[j] \in run[i].results
        BY <1>6, <3>2
      <4>2. QED
        BY <2>1, <4>1
    <3>3. QED
      BY <3>1, <3>2
  <2> HIDE DEF Shown
  <2>3. CASE first + limit <= m
    <3> DEFINE k == first + limit
    <3>1. k \in 1 .. m /\ k > i
      BY <1>2, <1>6, <2>3
    <3>2. run[i].bookmark = found[k] /\ Until(i, k)
      BY <1>6, <2>2, <2>3
    <3> HIDE DEF k, Until
    <3>3. QED
      BY <3>1, <3>2
  <2>4. CASE ~(first + limit <= m)
    <3>1. \A j \in 1 .. m : j < first + limit
      BY <1>2, <2>4
    <3>2. QED
      BY <2>2, <3>1
  <2>5. QED
    BY <2>3, <2>4
<1>7. 0 \in P
  <2>0. PICK first \in Nat \ {0} : StartsAt(first, keys, fields, limit, Undefined)
    BY PageFrom
  <2>1. /\ first = 1
        /\ \A k \in 1 .. m : first <= k /\ k < first + limit => found[k] \in run[1].results
        /\ IF first + limit <= m THEN run[1].bookmark = found[first + limit]
                                 ELSE run[1].bookmark = Undefined
    BY <1>5, <2>0 DEF StartsAt, found, F, m
  <2>2. 1 \in 1 .. n + 1 /\ first >= 1 /\ \A j \in 1 .. m : ~(j < first)
    BY <1>2, <2>1
  <2> HIDE DEF Further
  <2>3. Further(1)
    BY <1>6, <2>1, <2>2
  <2>4. QED
    BY <1>2, <2>3
<1>8. ASSUME NEW i \in 1 .. n, i - 1 \in P PROVE i \in P
  <2>1. i \in 0 .. n /\ i \in 1 .. n + 1 /\ i + 1 \in 1 .. n + 1 /\ (i - 1) + 1 = i
    BY <1>2
  <2>2. Further(i)
    BY <1>8, <2>1
  <2>3. \A x : Shown(x, i) => Shown(x, i + 1)
    <3>1. \A j \in 1 .. i : j \in 1 .. i + 1
      OBVIOUS
    <3>2. QED
      BY <3>1
  <2>4. CASE All(i)
    <3>1. All(i + 1)
      BY <2>3, <2>4
    <3>2. QED
      BY <2>1, <3>1
  <2>5. ASSUME NEW k \in 1 .. m, k > i, run[i].bookmark = found[k], Until(i, k) PROVE i \in P
    <3>1. found[k] \in F /\ found[k] # Undefined
      BY <1>1, <1>3
    <3>2. run[i + 1] = Page(keys, fields, found[k], limit)
      BY <1>5, <2>5, <3>1 DEF NextPage
    <3>3. PICK first \in Nat \ {0} :
            /\ first \in 1 .. m /\ found[first] = found[k]
            /\ \A j \in 1 .. m : first <= j /\ j < first + limit => found[j] \in run[i + 1].results
            /\ IF first + limit <= m THEN run[i + 1].bookmark = found[first + limit]
                                     ELSE run[i + 1].bookmark = Undefined
      <4> DEFINE b == found[k]
      <4>1. b \in F /\ b # Undefined /\ run[i + 1] = Page(keys, fields, b, limit)
        BY <3>1, <3>2
      <4> HIDE DEF b
      <4>2. PICK first \in Nat \ {0} : StartsAt(first, keys, fields, limit, b)
        BY <4>1, PageFrom DEF F
      <4>3. /\ first \in 1 .. m /\ found[first] = b
            /\ \A j \in 1 .. m : first <= j /\ j < first + limit => found[j] \in run[i + 1].results
            /\ IF first + limit <= m THEN run[i + 1].bookmark = found[first + limit]
                                     ELSE run[i + 1].bookmark = Undefined
        BY <4>1, <4>2 DEF StartsAt, found, F, m
      <4>4. QED
        BY <4>3 DEF b
    <3>4. first = k
      BY <1>3, <3>3
    <3>5. first >= i + 1
      BY <1>2, <2>5, <3>4
    <3>6. \A j \in 1 .. m : j < first => Shown(found[j], i + 1)
      <4> HIDE DEF Shown
      <4>1. QED
        BY <2>3, <2>5, <3>4
    <3> HIDE DEF Further, Shown
    <3>7. Further(i + 1)
      BY <1>6, <2>1, <3>3, <3>5, <3>6
    <3>8. QED
      BY <2>1, <3>7
  <2> HIDE DEF P
  <2>6. QED
    BY <2>2, <2>4, <2>5
<1>9. n \in P
  <2> HIDE DEF P
  <2>1. \A i \in 0 .. n : i \in P
    BY <1>2, <1>7, <1>8, Sums!UpTo
  <2>2. QED
    BY <1>2, <2>1
<1>10. All(n + 1)
  <2>1. Further(n + 1)
    BY <1>9
  <2>2. \A k \in 1 .. m : ~(k > n + 1)
    BY <1>2
  <2>3. QED
    BY <2>1, <2>2
<1>11. ASSUME NEW x \in F PROVE x \in AllPages(keys, fields, limit)
  <2>1. PICK j \in 1 .. m : found[j] = x
    BY <1>3
  <2>2. PICK i \in 1 .. n + 1 : x \in run[i].results
    BY <1>10, <2>1
  <2>3. QED
    BY <1>5, <2>2 DEF AllPages
<1>12. QED
  BY <1>11 DEF F

-----------------------------------------------------------------------------
(* Schedules and formulas.                                                 *)

(***************************************************************************)
(* What is assumed of the numbers: that minus infinity is none of them,    *)
(* that the logarithm of a positive number and the powers of an integer    *)
(* are, and that no logarithm of a negative number is asked for.           *)
(***************************************************************************)
Calculable ==
  /\ MinusInfinity \notin Int
  /\ \A n \in Nat \ {0} : Ln(n) \in Int
  /\ \A rate \in Int, n \in Nat : rate ^ n \in Int
  /\ \A code \in Codes : \A d \in Schedule[code] : d.rateType = "Logarithmic" => d.rate >= 0

\* The definition that is billed, and the one whose rate the gas is multiplied by.
LEMMA HighestThreshold ==
  ASSUME NEW schedule \in SUBSET FeeCodeDefinitions, schedule # {}, NEW uses_ \in Nat,
         \A d \in schedule : d.threshold <= uses_
  PROVE  LET highest == CHOOSE d \in schedule : \A e \in schedule : e.threshold <= d.threshold
         IN  highest \in schedule
<1> DEFINE D == {uses_ - d.threshold : d \in schedule}
<1>1. \A d \in schedule : d.threshold \in Nat /\ uses_ - d.threshold \in Nat
  BY DEF FeeCodeDefinitions
<1>2. D \in SUBSET Nat /\ D # {}
  BY <1>1
<1>3. PICK least \in D : \A i \in D : least <= i
  <2> HIDE DEF D
  <2>1. QED
    BY <1>2, Sums!LeastElement
<1>4. PICK d \in schedule : least = uses_ - d.threshold
  BY <1>3
<1>5. \A e \in schedule : e.threshold <= d.threshold
  <2>1. \A e \in schedule : uses_ - e.threshold \in D
    OBVIOUS
  <2> HIDE DEF D
  <2>2. QED
    BY <1>1, <1>3, <1>4, <2>1
<1>6. QED
  BY <1>5

LEMMA FeeType ==
  ASSUME Calculable, NEW code \in Codes, NEW uses_ \in Nat
  PROVE  CalculateFeeAmount(Schedule[code], uses_) \in Int \cup {MinusInfinity}
<1> DEFINE billable == Billable(Schedule[code], uses_)
           d == CHOOSE d \in billable : \A e \in billable : e.threshold <= d.threshold
           n == uses_ - d.threshold
<1>1. CASE billable = {}
  BY <1>1 DEF CalculateFeeAmount
<1>2. CASE billable # {}
  <2>1. billable \in SUBSET FeeCodeDefinitions /\ \A e \in billable : e.threshold <= uses_
    BY FeesAssumption DEF Billable, IsSchedule
  <2>2. d \in billable
    <3> HIDE DEF billable
    <3>1. QED
      BY <1>2, <2>1, HighestThreshold
  <2>3. /\ d.threshold \in Nat /\ d.base \in Nat /\ d.rate \in Int /\ d.threshold <= uses_
        /\ d \in Schedule[code]
    BY <2>1, <2>2 DEF FeeCodeDefinitions, Billable
  <2>4. n \in Nat
    BY <2>3
  <2>5. CalculateFeeAmount(Schedule[code], uses_) = AccelerateFee(d, n)
    BY <1>2 DEF CalculateFeeAmount
  <2> DEFINE base == d.base  rate == d.rate
  <2>6. base \in Nat /\ rate \in Int /\ n * rate \in Int /\ base * n * rate \in Int
    BY <2>3, <2>4
  <2>7. base * rate ^ n \in Int
    <3>1. rate ^ n \in Int
      BY <2>4, <2>6 DEF Calculable
    <3>2. QED
      BY <2>6, <3>1
  <2>8. CASE d.rateType = "Logarithmic"
    <3>1. CASE n * rate = 0
      BY <2>5, <2>8, <3>1 DEF AccelerateFee
    <3>2. CASE n * rate # 0
      <4>1. rate >= 0
        BY <2>3, <2>8 DEF Calculable
      <4>2. n * rate \in Nat
        BY <2>4, <2>6, <4>1
      <4>3. n * rate \in Nat \ {0}
        BY <3>2, <4>2
      <4>4. Ln(n * rate) \in Int
        BY <4>3 DEF Calculable
      <4>5. AccelerateFee(d, n) = base + Ln(n * rate)
        BY <2>8, <3>2 DEF AccelerateFee
      <4>6. base + Ln(n * rate) \in Int
        BY <2>6, <4>4
      <4>7. QED
        BY <2>5, <4>5, <4>6
    <3>3. QED
      BY <3>1, <3>2
  <2>9. CASE d.rateType # "Logarithmic"
    <3>1. base + n * rate \in Int
      BY <2>6
    <3>2. AccelerateFee(d, n) \in {base * n * rate, base * rate ^ n, base + n * rate}
      BY <2>9 DEF AccelerateFee
    <3>3. QED
      BY <2>5, <2>6, <2>7, <3>1, <3>2
  <2>10. QED
    BY <2>8, <2>9
<1>3. QED
  BY <1>1, <1>2

LEMMA PaddingType ==
  ASSUME NEW uses_ \in Nat
  PROVE  /\ Padding(uses_) \in Int
         /\ (\A d \in Schedule[BridgeTokenOut] : d.rateType = "Custom" => d.rate >= 1)
              => Padding(uses_) >= 1
<1> DEFINE custom == {d \in Schedule[BridgeTokenOut] : d.rateType = "Custom" /\ d.threshold <= uses_}
           highest == CHOOSE d \in custom : \A e \in custom : e.threshold <= d.threshold
<1>1. CASE custom = {}
  BY <1>1 DEF Padding
<1>2. CASE custom # {}
  <2>1. custom \in SUBSET FeeCodeDefinitions /\ \A e \in custom : e.threshold <= uses_
    BY FeesAssumption DEF IsSchedule
  <2>2. highest \in custom
    <3> HIDE DEF custom
    <3>1. QED
      BY <1>2, <2>1, HighestThreshold
  <2>3. Padding(uses_) = highest.rate
    BY <1>2 DEF Padding
  <2>4. /\ highest.rate \in Int /\ highest.rateType = "Custom"
        /\ highest \in Schedule[BridgeTokenOut]
    BY <2>1, <2>2 DEF FeeCodeDefinitions
  <2> HIDE DEF highest, custom
  <2>5. QED
    BY <2>3, <2>4
<1>3. QED
  BY <1>1, <1>2

LEMMA PartType ==
  ASSUME NEW q \in Nat, NEW p \in Nat
  PROVE  PartOf(q, p) \in Nat
<1>1. 2 * q * p + 100 \in Nat /\ 200 \in Nat \ {0}
  OBVIOUS
<1>2. PartOf(q, p) = (2 * q * p + 100) \div 200
  BY DEF PartOf
<1> DEFINE a == 2 * q * p + 100
<1> HIDE DEF a
<1>3. a \in Nat => a \div 200 \in Nat
  BY Sums!Division
<1>4. QED
  BY <1>1, <1>2, <1>3 DEF a

(***************************************************************************)
(* What is not refused at the burn transfers natural quantities, and if    *)
(* the formula burns a part, burn and transfers make up the fee.           *)
(***************************************************************************)
QuantitiesOf(transfers) == [i \in DOMAIN transfers |-> transfers[i].quantity]

LEMMA AmountsAddUp ==
  ASSUME NEW code \in Codes, NEW q \in Nat
  PROVE  LET amounts == CalculateAmounts(SplitFormula[code], q)
         IN  /\ amounts.burn \in Int
             /\ \E X : amounts.transfers \in Seq(X)
             /\ amounts.burn >= 0 => amounts.transfers \in Seq([to : Users, quantity : Nat])
             /\ SplitFormula[code].burn # 0 /\ amounts.burn >= 0
                  => amounts.burn + SumFunctionOnSet(QuantitiesOf(amounts.transfers),
                                                     1 .. Len(amounts.transfers)) = q
<1> DEFINE X == [to : Users, percentage : Int]
           formula == SplitFormula[code]
           transfers == formula.transfers
           n == Len(transfers)
           parts == [j \in 1 .. n |-> PartOf(q, transfers[j].percentage)]
           Sum(i) == SumFunctionOnSet(parts, 1 .. i)
           last(i) == formula.burn = 0 /\ i = n
           amount == [i \in 1 .. n |-> IF last(i) THEN q - Sum(i - 1) ELSE parts[i]]
           given == [i \in 1 .. n |-> [to |-> transfers[i].to, quantity |-> amount[i]]]
           burn == q - Sum(IF formula.burn = 0 /\ transfers # << >> THEN n - 1 ELSE n)
           amounts == CalculateAmounts(formula, q)
<1>1. /\ n \in Nat /\ DOMAIN transfers = 1 .. n /\ (transfers # << >> => n # 0)
      /\ \A i \in 1 .. n : transfers[i].to \in Users /\ transfers[i].percentage \in 0 .. 100
  <2>1. transfers \in Seq(X)
    BY FeesAssumption
  <2>2. n \in Nat /\ DOMAIN transfers = 1 .. n /\ \A i \in 1 .. n : transfers[i].to \in Users
    <3> HIDE DEF transfers, X
    <3>1. n \in Nat /\ DOMAIN transfers = 1 .. n
      BY <2>1
    <3>2. ASSUME NEW i \in DOMAIN transfers PROVE transfers[i] \in X
      BY <2>1
    <3>3. \A i \in DOMAIN transfers : transfers[i].to \in Users
      BY <3>2 DEF X
    <3>4. QED
      BY <3>1, <3>3
  <2>3. \A i \in DOMAIN transfers : transfers[i].percentage \in 0 .. 100
    BY FeesAssumption DEF Definable, IsSplitFormula, IsTransferPercentage
  <2>4. transfers # << >> => n # 0
    <3> HIDE DEF transfers, X
    <3>1. QED
      BY <2>1
  <2> HIDE DEF transfers, n
  <2>5. QED
    BY <2>2, <2>3, <2>4
<1>2. \A i \in 1 .. n : parts[i] \in Nat
  <2> HIDE DEF n, transfers
  <2>1. ASSUME NEW i \in 1 .. n PROVE parts[i] \in Nat
    <3> DEFINE p == transfers[i].percentage
    <3>1. p \in 0 .. 100
      BY <1>1
    <3> HIDE DEF p
    <3>2. p \in Nat
      BY <3>1
    <3>3. PartOf(q, p) \in Nat
      BY <3>2, PartType
    <3>4. QED
      BY <3>3 DEF p
  <2>2. QED
    BY <2>1
<1> HIDE DEF n
<1>3. ASSUME NEW i \in 0 .. n
      PROVE  /\ Summable(parts, 1 .. i) /\ Sum(i) \in Int
             /\ SumFunction([j \in 1 .. (i + 1) - 1 |-> PartOf(q, transfers[j].percentage)]) = Sum(i)
  <2>1. i \in Nat /\ \A j \in 1 .. i : j \in 1 .. n
    BY <1>1
  <2>2. Summable(parts, 1 .. i)
    <3>1. IsFiniteSet(1 .. i)
      BY <2>1, FS_Interval
    <3> HIDE DEF parts
    <3>2. \A j \in 1 .. i : parts[j] \in Int
      BY <1>2, <2>1
    <3>3. QED
      BY <3>1, <3>2 DEF Summable
  <2> DEFINE f == [j \in 1 .. i |-> PartOf(q, transfers[j].percentage)]
  <2>3. \A j \in 1 .. i : parts[j] = f[j]
    BY <2>1
  <2>4. (i + 1) - 1 = i /\ DOMAIN f = 1 .. i
    BY <2>1
  <2>5. SumFunction(f) = SumFunctionOnSet(f, 1 .. i)
    BY <2>4 DEF SumFunction
  <2> HIDE DEF f, parts
  <2>6. Sum(i) \in Int /\ Sum(i) = SumFunctionOnSet(f, 1 .. i)
    BY <2>2, <2>3, SumType, SumAgrees
  <2>7. QED
    BY <2>2, <2>4, <2>5, <2>6 DEF f
<1>4. ASSUME NEW i \in 1 .. n
      PROVE  SumFunction([j \in 1 .. i - 1 |-> PartOf(q, transfers[j].percentage)]) = Sum(i - 1)
  <2>1. i - 1 \in 0 .. n /\ ((i - 1) + 1) - 1 = i - 1
    BY <1>1
  <2>2. SumFunction([j \in 1 .. ((i - 1) + 1) - 1 |-> PartOf(q, transfers[j].percentage)]) = Sum(i - 1)
    BY <1>3, <2>1
  <2>3. QED
    BY <2>1, <2>2
<1>5. amounts.transfers = given
  <2>1. amounts.transfers = [i \in DOMAIN transfers |->
          [to |-> transfers[i].to,
           quantity |-> IF last(i)
                        THEN q - SumFunction([j \in 1 .. i - 1 |-> PartOf(q, transfers[j].percentage)])
                        ELSE PartOf(q, transfers[i].percentage)]]
    BY DEF CalculateAmounts, n
  <2>2. QED
    BY <1>1, <1>4, <2>1
<1>6. amounts.burn = burn
  <2> DEFINE m == IF formula.burn = 0 /\ transfers # << >> THEN n ELSE n + 1
  <2>1. amounts.burn = q - SumFunction([j \in 1 .. m - 1 |-> PartOf(q, transfers[j].percentage)])
    BY DEF CalculateAmounts, n
  <2>2. transfers # << >> => n >= 1
    BY <1>1 DEF n
  <2>3. CASE formula.burn = 0 /\ transfers # << >>
    <3>1. m = n /\ n \in 1 .. n
      BY <1>1, <2>2, <2>3
    <3>2. QED
      BY <1>4, <2>1, <2>3, <3>1
  <2>4. CASE ~(formula.burn = 0 /\ transfers # << >>)
    <3>1. m = n + 1 /\ n \in 0 .. n
      BY <1>1, <2>4
    <3>2. QED
      BY <1>3, <2>1, <2>4, <3>1
  <2>5. QED
    BY <2>3, <2>4
<1> HIDE DEF parts
<1>7. burn \in Int
  <2>1. n \in 0 .. n /\ (transfers # << >> => n - 1 \in 0 .. n)
    BY <1>1 DEF n
  <2>2. Sum(n) \in Int /\ (transfers # << >> => Sum(n - 1) \in Int)
    BY <1>3, <2>1
  <2> HIDE DEF Sum
  <2>3. QED
    BY <2>2
<1>8. ASSUME burn >= 0 PROVE given \in Seq([to : Users, quantity : Nat])
  <2>1. ASSUME NEW i \in 1 .. n PROVE amount[i] \in Nat
    <3>1. CASE last(i)
      <4>1. amount[i] = burn
        <5>1. transfers # << >>
          BY <1>1 DEF n
        <5>2. QED
          BY <3>1, <5>1
      <4> HIDE DEF burn, amount
      <4>2. QED
        BY <1>7, <1>8, <4>1
    <3>2. CASE ~last(i)
      BY <1>2, <3>2
    <3>3. QED
      BY <3>1, <3>2
  <2> HIDE DEF amount
  <2>2. given \in [1 .. n -> [to : Users, quantity : Nat]]
    BY <1>1, <2>1
  <2>3. QED
    BY <1>1, <2>2, Sums!FunctionSequence
<1>9. ASSUME formula.burn # 0, burn >= 0
      PROVE  burn + SumFunctionOnSet(QuantitiesOf(given), 1 .. Len(given)) = q
  <2>1. Len(given) = n /\ DOMAIN given = 1 .. n
    BY <1>1
  <2>2. burn = q - Sum(n)
    BY <1>9
  <2>3. Summable(parts, 1 .. n) /\ Sum(n) \in Int
    <3>1. n \in 0 .. n
      BY <1>1
    <3> HIDE DEF Sum
    <3>2. QED
      BY <1>3, <3>1
  <2>4. \A i \in 1 .. n : parts[i] = QuantitiesOf(given)[i]
    BY <1>9, <2>1 DEF QuantitiesOf
  <2> DEFINE quantities == QuantitiesOf(given)
  <2> HIDE DEF quantities, given
  <2>5. SumFunctionOnSet(parts, 1 .. n) = SumFunctionOnSet(quantities, 1 .. n)
    BY <2>3, <2>4, SumAgrees DEF quantities
  <2> HIDE DEF burn
  <2>6. QED
    BY <2>1, <2>2, <2>3, <2>5 DEF quantities
<1>10. given \in Seq({given[i] : i \in 1 .. n})
  <2>1. given \in [1 .. n -> {given[i] : i \in 1 .. n}]
    OBVIOUS
  <2> HIDE DEF given
  <2>2. QED
    BY <1>1, <2>1, Sums!FunctionSequence
<1>11. QED
  BY <1>5, <1>6, <1>7, <1>8, <1>9, <1>10
-----------------------------------------------------------------------------
(* What a gate works on, and what a call of it does.                       *)

Balances == [Users -> Nat]

\* Of finitely many users: those who were credited.
PendingUsers == {S \in SUBSET Users : IsFiniteSet(S)}

PendingBalances == UNION {[S -> Nat] : S \in PendingUsers}

ThresholdUses == UNION {[S -> [uses : Nat, fees : Nat]] : S \in SUBSET (Codes \X Users)}

Statuses == {"Open", "Settled"}

GateStates == [ok      : {TRUE},
               balance : Balances,
               pending : PendingBalances,
               uses    : ThresholdUses,
               channel : SUBSET ChannelReceiptsOf(1 .. txs + 1),
               user    : SUBSET ReceiptsOf(1 .. txs + 1)]

LEMMA PutType ==
  ASSUME NEW D, NEW T, NEW f \in UNION {[S -> T] : S \in D}, NEW k, \A S \in D : S \cup {k} \in D,
         NEW v \in T
  PROVE  /\ Put(f, k, v) \in UNION {[S -> T] : S \in D}
         /\ DOMAIN Put(f, k, v) = DOMAIN f \cup {k}
         /\ Put(f, k, v)[k] = v
         /\ \A j \in DOMAIN f : j # k => Put(f, k, v)[j] = f[j]
<1>1. PICK S \in D : f \in [S -> T]
  OBVIOUS
<1>2. Put(f, k, v) \in [S \cup {k} -> T]
  BY <1>1 DEF Put
<1>3. S \cup {k} \in D
  OBVIOUS
<1>4. QED
  BY <1>1, <1>2, <1>3 DEF Put

LEMMA PendingType ==
  ASSUME NEW f \in PendingBalances, NEW u \in DOMAIN f
  PROVE  u \in Users /\ f[u] \in Nat
BY DEF PendingBalances, PendingUsers

LEMMA UsesType ==
  ASSUME NEW f \in ThresholdUses, NEW code \in Codes, NEW user \in Users
  PROVE  /\ DOMAIN f \subseteq Codes \X Users
         /\ \A k \in DOMAIN f : f[k] \in [uses : Nat, fees : Nat]
         /\ FetchFeeThresholdUses(f, code, user) \in [uses : Nat, fees : Nat]
<1>1. PICK S \in SUBSET (Codes \X Users) : f \in [S -> [uses : Nat, fees : Nat]]
  BY DEF ThresholdUses
<1>2. \A k \in DOMAIN f : f[k] \in [uses : Nat, fees : Nat]
  BY <1>1
<1>3. DOMAIN f \subseteq Codes \X Users
  BY <1>1
<1>4. FetchFeeThresholdUses(f, code, user) \in [uses : Nat, fees : Nat]
  <2>1. [uses |-> 0, fees |-> 0] \in [uses : Nat, fees : Nat]
    OBVIOUS
  <2>2. CASE <<code, user>> \in DOMAIN f
    BY <1>2, <2>2 DEF FetchFeeThresholdUses
  <2>3. CASE <<code, user>> \notin DOMAIN f
    BY <2>1, <2>3 DEF FetchFeeThresholdUses
  <2>4. QED
    BY <2>2, <2>3
<1>5. QED
  BY <1>2, <1>3, <1>4

ChannelReceipt(payer, code, fee, status) ==
  [code |-> code, user |-> payer, tx |-> txs + 1, quantity |-> fee, status |-> status]

UserReceipt(payer, fee, status) ==
  [user |-> payer, tx |-> txs + 1, quantity |-> fee, status |-> status]

Receipted(s, t, payer, code, fee) ==
  \E status \in Statuses :
    /\ t.channel = PutChannelReceipt(s.channel, ChannelReceipt(payer, code, fee, status))
    /\ t.user = PutUserReceipt(s.user, UserReceipt(payer, fee, status))

LEMMA ReceiptsWritten ==
  ASSUME txs \in Nat, NEW s \in GateStates, NEW payer \in Users, NEW code \in Codes,
         NEW fee \in Nat, NEW status \in Statuses
  PROVE  LET t == WriteReceipts(s, payer, code, fee, status)
         IN  /\ t \in GateStates /\ Receipted(s, t, payer, code, fee)
             /\ t.balance = s.balance /\ t.pending = s.pending /\ t.uses = s.uses
<1> DEFINE c == ChannelReceipt(payer, code, fee, status)
           u == UserReceipt(payer, fee, status)
           channel == PutChannelReceipt(s.channel, c)
           user == PutUserReceipt(s.user, u)
<1>1. txs + 1 \in 1 .. txs + 1
  OBVIOUS
<1>2. c \in ChannelReceiptsOf(1 .. txs + 1) /\ u \in ReceiptsOf(1 .. txs + 1)
  BY <1>1 DEF ChannelReceipt, UserReceipt, ChannelReceiptsOf, ReceiptsOf, Statuses
<1> DEFINE C == ChannelReceiptsOf(1 .. txs + 1)
           U == ReceiptsOf(1 .. txs + 1)
<1>3. WriteReceipts(s, payer, code, fee, status) = [s EXCEPT !.channel = channel, !.user = user]
  BY DEF WriteReceipts, ChannelReceipt, UserReceipt, GateStates
<1> HIDE DEF c, u
<1>4. channel \in SUBSET C /\ user \in SUBSET U
  <2>1. s.channel \in SUBSET C /\ s.user \in SUBSET U
    BY DEF GateStates
  <2> HIDE DEF C, U
  <2>2. c \in C /\ u \in U
    BY <1>2 DEF C, U
  <2>3. QED
    BY <2>1, <2>2 DEF PutChannelReceipt, PutUserReceipt
<1> DEFINE t == [s EXCEPT !.channel = channel, !.user = user]
<1> HIDE DEF channel, user, C, U
<1>5. t \in GateStates /\ t.channel = channel /\ t.user = user
  BY <1>4 DEF GateStates, C, U
<1>6. t.balance = s.balance /\ t.pending = s.pending /\ t.uses = s.uses
  BY DEF GateStates
<1>7. Receipted(s, t, payer, code, fee)
  BY <1>5 DEF Receipted, channel, user, c, u
<1>8. QED
  BY <1>3, <1>5, <1>6, <1>7

(***************************************************************************)
(* The transfers of a split, one after the other: unless one is refused,   *)
(* the payer gives the quantities away, and nothing but balances changes.  *)
(***************************************************************************)
Transfers(s, payer, transfers) ==
  FoldLeft(LAMBDA acc, t : Transfer(acc, payer, t.to, t.quantity), s, transfers)

\* What differs in nothing but its balances.
Rebalanced(s, t) ==
  /\ t \in GateStates
  /\ t.pending = s.pending /\ t.uses = s.uses /\ t.channel = s.channel /\ t.user = s.user

LEMMA NotRefused == \A s \in GateStates : s.ok /\ s # Refused
<1>1. \A s \in GateStates : s.ok = TRUE
  BY DEF GateStates
<1>2. Refused.ok = FALSE
  BY DEF Refused
<1>3. QED
  BY <1>1, <1>2

LEMMA BalanceType ==
  ASSUME NEW s \in GateStates, NEW u \in Users
  PROVE  s.balance[u] \in Nat
BY DEF GateStates, Balances

LEMMA BurnOutcome ==
  ASSUME NEW s \in GateStates, NEW payer \in Users, NEW q \in Int
  PROVE  LET t == Burn(s, payer, q)
         IN  \/ t = Refused
             \/ /\ q >= 0 /\ Rebalanced(s, t)
                /\ t.balance[payer] = s.balance[payer] - q
<1> DEFINE b == s.balance[payer]
<1>1. b \in Nat /\ s.ok
  BY BalanceType, NotRefused
<1>2. CASE q < 0 \/ b < q
  BY <1>1, <1>2 DEF Burn
<1>3. CASE ~(q < 0) /\ ~(b < q)
  <2>1. Burn(s, payer, q) = [s EXCEPT !.balance[payer] = @ - q]
    BY <1>1, <1>3 DEF Burn
  <2>2. b - q \in Nat /\ q >= 0
    <3> HIDE DEF b
    <3>1. QED
      BY <1>1, <1>3
  <2> DEFINE balance_ == [s.balance EXCEPT ![payer] = b - q]
             t == [s EXCEPT !.balance = balance_]
  <2>3. balance_ \in Balances /\ balance_[payer] = b - q
    BY <2>2 DEF GateStates, Balances
  <2>4. [s EXCEPT !.balance[payer] = @ - q] = t
    OBVIOUS
  <2> HIDE DEF balance_
  <2>5. Rebalanced(s, t) /\ t.balance = balance_
    BY <2>3 DEF Rebalanced, GateStates
  <2>6. QED
    BY <2>1, <2>2, <2>3, <2>4, <2>5
<1>4. QED
  BY <1>2, <1>3

LEMMA TransferOutcome ==
  ASSUME NEW s \in GateStates, NEW payer \in Users, NEW to \in Users, NEW q \in Nat
  PROVE  LET t == Transfer(s, payer, to, q)
         IN  \/ t = Refused
             \/ /\ Rebalanced(s, t)
                /\ t.balance[payer] = s.balance[payer] - q
<1> DEFINE b == s.balance[payer]
           c == s.balance[to]
<1>1. b \in Nat /\ c \in Nat /\ s.ok
  BY BalanceType, NotRefused
<1>2. CASE payer = to \/ b < q
  BY <1>1, <1>2 DEF Transfer
<1>3. CASE payer # to /\ ~(b < q)
  <2>1. Transfer(s, payer, to, q) = [s EXCEPT !.balance[payer] = @ - q, !.balance[to] = @ + q]
    BY <1>1, <1>3 DEF Transfer
  <2>2. b - q \in Nat /\ c + q \in Nat
    <3> HIDE DEF b, c
    <3>1. QED
      BY <1>1, <1>3
  <2> DEFINE balance_ == [s.balance EXCEPT ![payer] = b - q, ![to] = @ + q]
             t == [s EXCEPT !.balance = balance_]
  <2>3. balance_ \in Balances /\ balance_[payer] = b - q
    BY <1>3, <2>2 DEF GateStates, Balances
  <2>4. [s EXCEPT !.balance[payer] = @ - q, !.balance[to] = @ + q] = t
    BY DEF GateStates
  <2> HIDE DEF balance_
  <2>5. Rebalanced(s, t) /\ t.balance = balance_
    BY <2>3 DEF Rebalanced, GateStates
  <2>6. QED
    BY <2>1, <2>3, <2>4, <2>5
<1>4. QED
  BY <1>2, <1>3

LEMMA SameMax == \A T : Sums!Max(T) = Max(T)
BY DEF Sums!Max, Max

\* Transfers do not leave A, and run[i] is what the first i of them make of base.
TransferWithin(A, X, payer) ==
  \A x \in X : \A acc \in A : Transfer(acc, payer, x.to, x.quantity) \in A

TransferRun(run, A, base, payer, transfers) ==
  /\ run \in [0 .. Len(transfers) -> A] /\ run[0] = base
  /\ \A i \in 1 .. Len(transfers) :
       run[i] = Transfer(run[i - 1], payer, transfers[i].to, transfers[i].quantity)
  /\ run[Len(transfers)] = Transfers(base, payer, transfers)

LEMMA TransfersRun ==
  ASSUME NEW payer, NEW X, NEW A, NEW transfers \in Seq(X), NEW base \in A,
         TransferWithin(A, X, payer)
  PROVE  \E run : TransferRun(run, A, base, payer, transfers)
<1> DEFINE Turn(x, acc) == Transfer(acc, payer, x.to, x.quantity)
           G == [x \in X |-> [acc \in A |-> Turn(x, acc)]]
           Solves(iter) == iter = [T \in SUBSET DOMAIN transfers |->
                                     IF T = {} THEN base ELSE Turn(transfers[Max(T)], iter[T \ {Max(T)}])]
<1>1. \A x \in X : \A acc \in A : Turn(x, acc) \in A
  BY DEF TransferWithin
<1> HIDE DEF Turn
<1>2. G \in [X -> [A -> A]] /\ \A x \in X : \A acc \in A : G[x][acc] = Turn(x, acc)
  BY <1>1
<1> HIDE DEF G
<1>3. Sums!Foldable(transfers, X, A, base, G)
  BY <1>2 DEF Sums!Foldable
<1>4. /\ DOMAIN transfers = 1 .. Len(transfers) /\ Len(transfers) \in Nat
      /\ \A i \in 1 .. Len(transfers) : transfers[i] \in X
  OBVIOUS
<1>5. ASSUME NEW T \in SUBSET DOMAIN transfers, T # {} PROVE transfers[Max(T)] \in X /\ Sums!Max(T) = Max(T)
  BY <1>4, <1>5, Sums!MaxOfIndices, SameMax
<1>6. PICK it \in [SUBSET DOMAIN transfers -> A] : Sums!Accumulates(it, transfers, base, A, G)
  BY <1>3, Sums!AccumulatorsExist
<1>7. \E iter : Solves(iter)
  <2>1. ASSUME NEW T \in SUBSET DOMAIN transfers
        PROVE  it[T] = IF T = {} THEN base ELSE Turn(transfers[Max(T)], it[T \ {Max(T)}])
    <3>1. it[T] = IF T = {} THEN base ELSE G[transfers[Max(T)]][it[T \ {Max(T)}]]
      BY <1>5, <1>6 DEF Sums!Accumulates
    <3>2. it[T \ {Max(T)}] \in A
      BY <1>6
    <3>3. QED
      BY <1>2, <1>5, <3>1, <3>2
  <2>2. Solves(it)
    BY <1>6, <2>1
  <2>3. QED
    BY <2>2
<1> DEFINE iter == CHOOSE iter : Solves(iter)
<1>8. Solves(iter)
  BY <1>7
<1>9. Transfers(base, payer, transfers) = iter[DOMAIN transfers]
  BY DEF Transfers, FoldLeft, MapThenFoldSet, Turn
<1> HIDE DEF iter
<1>10. Sums!AccumulatesWithin(iter, transfers, base, A, G)
  <2>1. iter[{}] = base
    BY <1>8
  <2>2. ASSUME NEW T \in SUBSET DOMAIN transfers, T # {}, iter[T \ {Max(T)}] \in A
        PROVE  iter[T] = G[transfers[Max(T)]][iter[T \ {Max(T)}]]
    <3>1. iter[T] = Turn(transfers[Max(T)], iter[T \ {Max(T)}])
      BY <1>8, <2>2
    <3>2. QED
      BY <1>2, <1>5, <2>2, <3>1
  <2>3. QED
    BY <1>5, <2>1, <2>2 DEF Sums!AccumulatesWithin
<1>11. PICK run : Sums!IsRun(run, transfers, base, A, G) /\ run[Len(transfers)] = iter[DOMAIN transfers]
  BY <1>3, <1>10, Sums!AccumulatorsRun
<1>12. run \in [0 .. Len(transfers) -> A] /\ run[0] = base
  BY <1>11 DEF Sums!IsRun
<1>13. ASSUME NEW i \in 1 .. Len(transfers) PROVE run[i] = Turn(transfers[i], run[i - 1])
  <2>1. run[i] = G[transfers[i]][run[i - 1]]
    BY <1>11 DEF Sums!IsRun
  <2>2. run[i - 1] \in A
    <3>1. i - 1 \in 0 .. Len(transfers)
      BY <1>4
    <3>2. QED
      BY <1>12, <3>1
  <2>3. QED
    BY <1>2, <1>4, <2>1, <2>2
<1>14. QED
  BY <1>9, <1>11, <1>12, <1>13 DEF Turn, TransferRun

\* The sum of the first i elements, one by one.
LEMMA SumUpTo ==
  ASSUME NEW n \in Nat, NEW f, \A i \in 1 .. n : f[i] \in Int
  PROVE  /\ SumFunctionOnSet(f, 1 .. 0) = 0
         /\ \A i \in 0 .. n : SumFunctionOnSet(f, 1 .. i) \in Int
         /\ \A i \in 1 .. n : SumFunctionOnSet(f, 1 .. i) = SumFunctionOnSet(f, 1 .. i - 1) + f[i]
<1>1. SumFunctionOnSet(f, 1 .. 0) = 0
  <2>1. 1 .. 0 = {}
    OBVIOUS
  <2>2. QED
    BY <2>1, SumEmpty
<1>2. ASSUME NEW i \in 0 .. n PROVE Summable(f, 1 .. i)
  <2>1. i \in Nat /\ \A j \in 1 .. i : j \in 1 .. n
    OBVIOUS
  <2>2. IsFiniteSet(1 .. i)
    BY <2>1, FS_Interval
  <2>3. QED
    BY <2>1, <2>2 DEF Summable
<1>3. ASSUME NEW i \in 0 .. n PROVE SumFunctionOnSet(f, 1 .. i) \in Int
  BY <1>2, SumType
<1>4. ASSUME NEW i \in 1 .. n
      PROVE  SumFunctionOnSet(f, 1 .. i) = SumFunctionOnSet(f, 1 .. i - 1) + f[i]
  <2>1. i \in 0 .. n /\ i - 1 \in 0 .. n /\ i \in 1 .. i /\ (1 .. i) \ {i} = 1 .. i - 1
    OBVIOUS
  <2>2. SumFunctionOnSet(f, 1 .. i) = f[i] + SumFunctionOnSet(f, 1 .. i - 1)
    <3>1. Summable(f, 1 .. i)
      BY <1>2, <2>1
    <3>2. SumFunctionOnSet(f, 1 .. i) = f[i] + SumFunctionOnSet(f, (1 .. i) \ {i})
      BY <2>1, <3>1, SumRemove
    <3>3. QED
      BY <2>1, <3>2
  <2>3. SumFunctionOnSet(f, 1 .. i - 1) \in Int /\ f[i] \in Int
    BY <1>3, <2>1
  <2>4. QED
    BY <2>2, <2>3
<1>5. QED
  BY <1>1, <1>3, <1>4

LEMMA RefusedIsFinal ==
  ASSUME NEW payer, NEW X, NEW transfers \in Seq(X)
  PROVE  Transfers(Refused, payer, transfers) = Refused
<1> DEFINE A == {Refused}
           base == Refused
<1>1. base \in A /\ TransferWithin(A, X, payer)
  BY DEF TransferWithin, Transfer, Refused
<1>2. Len(transfers) \in Nat
  OBVIOUS
<1> HIDE DEF A, base
<1>3. PICK run : TransferRun(run, A, base, payer, transfers)
  BY <1>1, TransfersRun
<1>4. run[Len(transfers)] \in A
  BY <1>2, <1>3 DEF TransferRun
<1>5. QED
  BY <1>3, <1>4 DEF A, base, TransferRun

LEMMA TransfersOutcome ==
  ASSUME NEW s \in GateStates, NEW payer \in Users,
         NEW transfers \in Seq([to : Users, quantity : Nat])
  PROVE  LET t == Transfers(s, payer, transfers)
         IN  \/ t = Refused
             \/ /\ Rebalanced(s, t)
                /\ t.balance[payer] = s.balance[payer]
                     - SumFunctionOnSet(QuantitiesOf(transfers), 1 .. Len(transfers))
<1> DEFINE X == [to : Users, quantity : Nat]
           A == GateStates \cup {Refused}
           n == Len(transfers)
           f == QuantitiesOf(transfers)
           Sum(i) == SumFunctionOnSet(f, 1 .. i)
<1>1. TransferWithin(A, X, payer)
  <2> SUFFICES ASSUME NEW x \in X, NEW acc \in A PROVE Transfer(acc, payer, x.to, x.quantity) \in A
    BY DEF TransferWithin
  <2>1. CASE acc = Refused
    BY <2>1 DEF Transfer, Refused
  <2>2. CASE acc \in GateStates
    <3>1. x.to \in Users /\ x.quantity \in Nat
      OBVIOUS
    <3>2. QED
      BY <2>2, <3>1, TransferOutcome DEF Rebalanced
  <2>3. QED
    BY <2>1, <2>2
<1>0. transfers \in Seq(X)
  OBVIOUS
<1> HIDE DEF X
<1>2. /\ n \in Nat /\ DOMAIN transfers = 1 .. n /\ transfers \in Seq(X)
      /\ \A i \in 1 .. n : transfers[i] \in X
  BY <1>0
<1> HIDE DEF n
<1>3. ASSUME NEW i \in 1 .. n
      PROVE  transfers[i].to \in Users /\ transfers[i].quantity \in Nat /\ f[i] = transfers[i].quantity
  BY <1>2 DEF X, QuantitiesOf
<1>run. PICK run : TransferRun(run, A, s, payer, transfers)
  <2>1. s \in A
    OBVIOUS
  <2> HIDE DEF A
  <2>2. QED
    BY <1>1, <1>2, <2>1, TransfersRun
<1>4. /\ run \in [0 .. n -> A] /\ run[0] = s
      /\ \A i \in 1 .. n : run[i] = Transfer(run[i - 1], payer, transfers[i].to, transfers[i].quantity)
      /\ run[n] = Transfers(s, payer, transfers)
  BY <1>run DEF TransferRun, n
<1>5. /\ Sum(0) = 0 /\ \A i \in 0 .. n : Sum(i) \in Int
      /\ \A i \in 1 .. n : Sum(i) = Sum(i - 1) + f[i]
  <2>1. \A i \in 1 .. n : f[i] \in Int
    BY <1>3
  <2> HIDE DEF f
  <2>2. QED
    BY <1>2, <2>1, SumUpTo
<1> HIDE DEF Sum, f
<1> DEFINE Paid(t, i) == /\ Rebalanced(s, t)
                         /\ t.balance[payer] = s.balance[payer] - Sum(i)
           P == {i \in 0 .. n : run[i] = Refused \/ Paid(run[i], i)}
<1>6. 0 \in P
  BY <1>2, <1>4, <1>5, BalanceType DEF Rebalanced
<1>7. ASSUME NEW i \in 1 .. n, i - 1 \in P PROVE i \in P
  <2> DEFINE b == run[i - 1]
             t == run[i]
             q == transfers[i].quantity
  <2>1. i \in 0 .. n /\ i - 1 \in 0 .. n
    BY <1>2
  <2>2. t = Transfer(b, payer, transfers[i].to, q)
    BY <1>4
  <2>3. CASE b = Refused
    BY <2>1, <2>2, <2>3 DEF Transfer, Refused
  <2>4. CASE Paid(b, i - 1)
    <3>1. b \in GateStates
      BY <2>4 DEF Rebalanced
    <3>2. transfers[i].to \in Users /\ q \in Nat
      BY <1>3
    <3> HIDE DEF b, t, q
    <3>3. CASE t = Refused
      BY <2>1, <3>3 DEF t
    <3>4. CASE Rebalanced(b, t) /\ t.balance[payer] = b.balance[payer] - q
      <4>1. Rebalanced(s, t)
        BY <2>4, <3>4 DEF Rebalanced
      <4>2. b.balance[payer] = s.balance[payer] - Sum(i - 1)
        BY <2>4
      <4>3. Sum(i) = Sum(i - 1) + q /\ Sum(i - 1) \in Int
        BY <1>3, <1>5, <2>1 DEF q
      <4>4. s.balance[payer] \in Nat
        BY BalanceType
      <4>5. t.balance[payer] = s.balance[payer] - Sum(i)
        BY <3>2, <3>4, <4>2, <4>3, <4>4
      <4>6. QED
        BY <2>1, <4>1, <4>5 DEF t
    <3>5. QED
      BY <2>2, <3>1, <3>2, <3>3, <3>4, TransferOutcome
  <2>5. QED
    BY <1>7, <2>3, <2>4
<1>8. n \in P
  <2> HIDE DEF P
  <2>1. \A i \in 0 .. n : i \in P
    BY <1>2, <1>6, <1>7, Sums!UpTo
  <2>2. QED
    BY <1>2, <2>1
<1>9. QED
  BY <1>4, <1>8 DEF n, Sum, f

\* The burn and the transfers of a fee.
LEMMA SplitOutcome ==
  ASSUME NEW s \in GateStates, NEW payer \in Users, NEW code \in Codes, NEW q \in Nat
  PROVE  LET amounts == CalculateAmounts(SplitFormula[code], q)
             t       == Transfers(Burn(s, payer, amounts.burn), payer, amounts.transfers)
         IN  \/ t = Refused
             \/ /\ Rebalanced(s, t)
                /\ SplitFormula[code].burn # 0 => t.balance[payer] = s.balance[payer] - q
<1> DEFINE amounts == CalculateAmounts(SplitFormula[code], q)
           burn == amounts.burn
           transfers == amounts.transfers
           sum == SumFunctionOnSet(QuantitiesOf(transfers), 1 .. Len(transfers))
           burnt == Burn(s, payer, burn)
           t == Transfers(burnt, payer, transfers)
           Outcome == \/ t = Refused
                      \/ /\ Rebalanced(s, t)
                         /\ SplitFormula[code].burn # 0 => t.balance[payer] = s.balance[payer] - q
<1>1. /\ burn \in Int /\ \E X : transfers \in Seq(X)
      /\ burn >= 0 => transfers \in Seq([to : Users, quantity : Nat])
      /\ SplitFormula[code].burn # 0 /\ burn >= 0 => burn + sum = q
  BY AmountsAddUp
<1> HIDE DEF amounts
<1>2. ASSUME burnt = Refused PROVE Outcome
  <2>1. t = Refused
    BY <1>1, <1>2, RefusedIsFinal
  <2>2. QED
    BY <2>1
<1>3. ASSUME burn >= 0, Rebalanced(s, burnt), burnt.balance[payer] = s.balance[payer] - burn
      PROVE  Outcome
  <2>1. burnt \in GateStates
    BY <1>3 DEF Rebalanced
  <2>2. \/ t = Refused
        \/ Rebalanced(burnt, t) /\ t.balance[payer] = burnt.balance[payer] - sum
    <3> HIDE DEF burnt, transfers
    <3>1. QED
      BY <1>1, <1>3, <2>1, TransfersOutcome
  <2>3. sum \in Int
    <3>1. transfers \in Seq([to : Users, quantity : Nat])
      BY <1>1, <1>3
    <3> DEFINE X == [to : Users, quantity : Nat]
    <3> HIDE DEF X, transfers
    <3>2. transfers \in Seq(X)
      BY <3>1 DEF X
    <3>3. /\ Len(transfers) \in Nat /\ DOMAIN transfers = 1 .. Len(transfers)
          /\ \A i \in 1 .. Len(transfers) : transfers[i] \in X
      BY <3>2
    <3>4. \A i \in 1 .. Len(transfers) : QuantitiesOf(transfers)[i] \in Int
      BY <3>3 DEF QuantitiesOf, X
    <3>5. Len(transfers) \in 0 .. Len(transfers)
      BY <3>3
    <3>6. QED
      BY <3>3, <3>4, <3>5, SumUpTo
  <2>4. CASE Rebalanced(burnt, t) /\ t.balance[payer] = burnt.balance[payer] - sum
    <3>1. Rebalanced(s, t)
      BY <1>3, <2>4 DEF Rebalanced
    <3>2. s.balance[payer] \in Nat
      BY BalanceType
    <3>3. ASSUME SplitFormula[code].burn # 0 PROVE t.balance[payer] = s.balance[payer] - q
      <4> HIDE DEF burnt, t, sum, burn
      <4>1. burn + sum = q
        BY <1>1, <1>3, <3>3
      <4>2. QED
        BY <1>1, <1>3, <2>3, <2>4, <3>2, <4>1
    <3>4. QED
      BY <3>1, <3>3
  <2>5. QED
    BY <2>2, <2>4
<1>4. \/ burnt = Refused
      \/ burn >= 0 /\ Rebalanced(s, burnt) /\ burnt.balance[payer] = s.balance[payer] - burn
  <2> HIDE DEF burn
  <2>1. QED
    BY <1>1, BurnOutcome
<1>5. Outcome
  BY <1>2, <1>3, <1>4
<1>6. QED
  BY <1>5 DEF amounts

-----------------------------------------------------------------------------
(* A charge, the uses that are written, a call of a gate, and the calls of *)
(* the gates of a method.                                                  *)

\* What s becomes if the payer is charged a fee.
Charged(s, t, payer, code, fee) ==
  /\ t \in GateStates /\ t.uses = s.uses
  /\ IF fee <= 0 THEN t.balance = s.balance /\ t.pending = s.pending
                      /\ t.channel = s.channel /\ t.user = s.user
     ELSE /\ Receipted(s, t, payer, code, fee)
          /\ IF code \in CrossChannel
             THEN /\ payer \in DOMAIN s.pending /\ t.balance = s.balance
                  /\ t.pending = [s.pending EXCEPT ![payer] = @ - fee]
             ELSE /\ t.pending = s.pending
                  /\ SplitFormula[code].burn # 0 => t.balance[payer] = s.balance[payer] - fee

LEMMA PaidFromPending ==
  ASSUME txs \in Nat, NEW s \in GateStates, NEW payer \in Users, NEW code \in CrossChannel,
         NEW fee \in Nat \ {0}
  PROVE  LET t == PayFeeFromCrossChannelAuthorization(s, payer, code, fee)
         IN  t = Refused \/ Charged(s, t, payer, code, fee)
<1> DEFINE p == s.pending[payer]
           w == [s EXCEPT !.pending[payer] = @ - fee]
           t == PayFeeFromCrossChannelAuthorization(s, payer, code, fee)
<1>1. CASE payer \notin DOMAIN s.pending \/ fee > p
  BY <1>1 DEF PayFeeFromCrossChannelAuthorization
<1>2. CASE payer \in DOMAIN s.pending /\ ~(fee > p)
  <2>1. t = WriteReceipts(w, payer, code, fee, "Open")
    BY <1>2 DEF PayFeeFromCrossChannelAuthorization
  <2>2. s.pending \in PendingBalances
    BY DEF GateStates
  <2>3. p \in Nat
    BY <1>2, <2>2, PendingType
  <2>4. p - fee \in Nat
    <3> HIDE DEF p
    <3>1. QED
      BY <1>2, <2>3
  <2> DEFINE pending_ == [s.pending EXCEPT ![payer] = p - fee]
             v == [s EXCEPT !.pending = pending_]
  <2>5. pending_ \in PendingBalances
    BY <2>2, <2>4 DEF PendingBalances
  <2>6. w = v
    OBVIOUS
  <2>7. pending_ = [s.pending EXCEPT ![payer] = @ - fee]
    OBVIOUS
  <2> HIDE DEF pending_
  <2>8. /\ v \in GateStates /\ v.pending = pending_
        /\ v.balance = s.balance /\ v.uses = s.uses /\ v.channel = s.channel /\ v.user = s.user
    BY <2>5 DEF GateStates
  <2> HIDE DEF v, t, w
  <2>9. /\ t \in GateStates /\ Receipted(v, t, payer, code, fee)
        /\ t.balance = v.balance /\ t.pending = v.pending /\ t.uses = v.uses
    <3>1. code \in Codes /\ "Open" \in Statuses
      BY FeesAssumption DEF Statuses
    <3>2. QED
      BY <2>1, <2>6, <2>8, <3>1, ReceiptsWritten
  <2>10. Receipted(s, t, payer, code, fee)
    BY <2>8, <2>9 DEF Receipted
  <2>11. ~(fee <= 0)
    OBVIOUS
  <2>12. QED
    BY <1>2, <2>7, <2>8, <2>9, <2>10, <2>11 DEF Charged, t
<1>3. QED
  BY <1>1, <1>2

LEMMA PaidFromBalance ==
  ASSUME txs \in Nat, NEW s \in GateStates, NEW payer \in Users, NEW code \in Codes \ CrossChannel,
         NEW fee \in Nat \ {0}
  PROVE  LET t == PayFeeImmediatelyFromBalance(s, payer, code, fee)
         IN  t = Refused \/ Charged(s, t, payer, code, fee)
<1> DEFINE amounts == CalculateAmounts(SplitFormula[code], fee)
           w == Transfers(Burn(s, payer, amounts.burn), payer, amounts.transfers)
           t == PayFeeImmediatelyFromBalance(s, payer, code, fee)
<1>1. t = IF w.ok THEN WriteReceipts(w, payer, code, fee, "Settled") ELSE Refused
  BY DEF PayFeeImmediatelyFromBalance, Transfers
<1>2. \/ w = Refused
      \/ /\ Rebalanced(s, w)
         /\ SplitFormula[code].burn # 0 => w.balance[payer] = s.balance[payer] - fee
  BY SplitOutcome
<1> HIDE DEF w
<1>3. CASE w = Refused
  BY <1>1, <1>3 DEF Refused
<1>4. CASE w # Refused
  <2>1. w \in GateStates /\ w.pending = s.pending /\ w.uses = s.uses
        /\ w.channel = s.channel /\ w.user = s.user
    BY <1>2, <1>4 DEF Rebalanced
  <2>2. t = WriteReceipts(w, payer, code, fee, "Settled")
    BY <1>1, <2>1, NotRefused
  <2> HIDE DEF t
  <2>3. /\ t \in GateStates /\ Receipted(w, t, payer, code, fee)
        /\ t.balance = w.balance /\ t.pending = w.pending /\ t.uses = w.uses
    <3>1. "Settled" \in Statuses
      BY DEF Statuses
    <3>2. QED
      BY <2>1, <2>2, <3>1, ReceiptsWritten
  <2>4. Receipted(s, t, payer, code, fee)
    BY <2>1, <2>3 DEF Receipted
  <2>5. ~(fee <= 0)
    OBVIOUS
  <2>6. QED
    BY <1>2, <1>4, <2>1, <2>3, <2>4, <2>5 DEF Charged, t
<1>5. QED
  BY <1>3, <1>4

LEMMA ChargeOutcome ==
  ASSUME txs \in Nat, NEW s \in GateStates, NEW payer \in Users, NEW code \in Codes, NEW fee \in Int
  PROVE  LET t == Charge(s, payer, code, fee)
         IN  t = Refused \/ Charged(s, t, payer, code, fee)
<1> DEFINE t == Charge(s, payer, code, fee)
<1>1. s.ok
  BY NotRefused
<1>2. CASE fee <= 0
  BY <1>1, <1>2 DEF Charge, Charged
<1>3. CASE ~(fee <= 0)
  <2>1. fee \in Nat \ {0}
    BY <1>3
  <2>2. CASE code \in CrossChannel
    <3>1. t = PayFeeFromCrossChannelAuthorization(s, payer, code, fee)
      BY <1>1, <1>3, <2>2 DEF Charge
    <3>2. QED
      BY <2>1, <2>2, <3>1, PaidFromPending
  <2>3. CASE code \notin CrossChannel
    <3>1. t = PayFeeImmediatelyFromBalance(s, payer, code, fee)
      BY <1>1, <1>3, <2>3 DEF Charge
    <3>2. QED
      BY <2>1, <2>3, <3>1, PaidFromBalance
  <2>4. QED
    BY <2>2, <2>3
<1>4. QED
  BY <1>2, <1>3

\* What s becomes when one more use is written, the fee of which can be recorded.
UsageWritten(s, t, active, code) ==
  LET fee  == UsageFee(s, active, code)
      fees == FetchFeeThresholdUses(s.uses, code, active).fees
  IN  /\ t \in GateStates
      /\ t.balance = s.balance /\ t.pending = s.pending
      /\ t.channel = s.channel /\ t.user = s.user
      /\ fee \in Int /\ fees + fee >= 0
      /\ t.uses = Put(s.uses, <<code, active>>, [uses |-> NextUse(s, active, code),
                                                 fees |-> fees + fee])

LEMMA UsageOutcome ==
  ASSUME Calculable, NEW s \in GateStates, NEW active \in Users, NEW code \in Codes
  PROVE  LET t == WriteUsage(s, active, code)
         IN  t = Refused \/ UsageWritten(s, t, active, code)
<1> DEFINE fee == UsageFee(s, active, code)
           stored == FetchFeeThresholdUses(s.uses, code, active)
           fees == stored.fees
           next == NextUse(s, active, code)
           put == Put(s.uses, <<code, active>>, [uses |-> next, fees |-> fees + fee])
           t == WriteUsage(s, active, code)
<1>1. s.uses \in ThresholdUses
  BY DEF GateStates
<1>2. stored \in [uses : Nat, fees : Nat]
  BY <1>1, UsesType
<1>3. next = stored.uses + 1 /\ stored.uses \in Nat /\ fees \in Nat
  BY <1>2 DEF NextUse
<1>4. fee \in Int \cup {MinusInfinity}
  <2>1. next \in Nat
    <3> HIDE DEF next
    <3>1. QED
      BY <1>3
  <2>2. fee = CalculateFeeAmount(Schedule[code], next)
    BY DEF UsageFee
  <2> HIDE DEF next, fee
  <2>3. QED
    BY <2>1, <2>2, FeeType
<1>5. CASE ~Recordable(fees, fee)
  BY <1>5 DEF WriteUsage
<1>6. CASE Recordable(fees, fee)
  <2>1. t = [s EXCEPT !.uses = put]
    BY <1>6 DEF WriteUsage, GateStates
  <2>2. fee \in Int /\ fees + fee >= 0
    BY <1>4, <1>6 DEF Recordable
  <2>3. put \in ThresholdUses
    <3> DEFINE D == SUBSET (Codes \X Users)
               T == [uses : Nat, fees : Nat]
               v == [uses |-> next, fees |-> fees + fee]
               k == <<code, active>>
    <3>1. v \in T
      <4> HIDE DEF fee, fees, next
      <4>1. QED
        BY <1>3, <2>2
    <3>2. (\A S \in D : S \cup {k} \in D) /\ s.uses \in UNION {[S -> T] : S \in D}
      BY <1>1 DEF ThresholdUses
    <3> HIDE DEF D, T, v, k
    <3>3. Put(s.uses, k, v) \in UNION {[S -> T] : S \in D}
      BY <3>1, <3>2, PutType
    <3>4. QED
      BY <3>3 DEF ThresholdUses, D, T, v, k
  <2> HIDE DEF put, t
  <2>4. /\ t \in GateStates /\ t.uses = put
        /\ t.balance = s.balance /\ t.pending = s.pending /\ t.channel = s.channel /\ t.user = s.user
    BY <2>1, <2>3 DEF GateStates
  <2>5. QED
    BY <2>2, <2>4 DEF UsageWritten, put, t
<1>7. QED
  BY <1>5, <1>6

\* One call of a gate, for what is charged with the use: the fee for it, and the gas.
GateCalled(s, t, caller, active, code) ==
  \/ t = s
  \/ \E w \in GateStates, fee \in Int :
       UsageWritten(s, w, active, code) /\ Charged(w, t, caller, code, fee)

LEMMA GateOutcome ==
  ASSUME Calculable, txs \in Nat, NEW s \in GateStates, NEW caller \in Users, NEW active \in Users,
         NEW code \in Codes
  PROVE  LET t == GalaFeeGate(s, caller, active, code)
         IN  t = Refused \/ (t \in GateStates /\ GateCalled(s, t, caller, active, code))
<1> DEFINE fee == UsageFee(s, active, code)
           w == WriteUsage(s, active, code)
           t == GalaFeeGate(s, caller, active, code)
<1>1. t = IF UserExemptFromFees(active, code) THEN s ELSE Charge(w, caller, code, fee)
  BY NotRefused DEF GalaFeeGate
<1>2. CASE UserExemptFromFees(active, code)
  BY <1>1, <1>2 DEF GateCalled
<1>3. CASE ~UserExemptFromFees(active, code)
  <2>1. t = Charge(w, caller, code, fee)
    BY <1>1, <1>3
  <2>2. CASE w = Refused
    BY <2>1, <2>2 DEF Charge, Refused
  <2>3. CASE UsageWritten(s, w, active, code)
    <3>1. w \in GateStates /\ fee \in Int
      BY <2>3 DEF UsageWritten
    <3> HIDE DEF w, fee, t
    <3>2. t = Refused \/ Charged(w, t, caller, code, fee)
      BY <2>1, <3>1, ChargeOutcome
    <3>3. Charged(w, t, caller, code, fee) => t \in GateStates
      BY DEF Charged
    <3>4. QED
      BY <2>3, <3>1, <3>2, <3>3 DEF GateCalled, t
  <2>4. QED
    BY <2>2, <2>3, UsageOutcome
<1>4. QED
  BY <1>2, <1>3

Gated(s, caller, active, gate) ==
  FoldLeft(LAMBDA acc, code : GalaFeeGate(acc, caller, active, code), s, gate)

GateWithin(A, X, caller, active) ==
  \A x \in X : \A acc \in A : GalaFeeGate(acc, caller, active, x) \in A

GateRun(run, A, base, caller, active, gate) ==
  /\ run \in [0 .. Len(gate) -> A] /\ run[0] = base
  /\ \A i \in 1 .. Len(gate) : run[i] = GalaFeeGate(run[i - 1], caller, active, gate[i])
  /\ run[Len(gate)] = Gated(base, caller, active, gate)


LEMMA GatesRun ==
  ASSUME NEW caller, NEW active, NEW X, NEW A, NEW gate \in Seq(X), NEW base \in A,
         GateWithin(A, X, caller, active)
  PROVE  \E run : GateRun(run, A, base, caller, active, gate)
<1> DEFINE Turn(x, acc) == GalaFeeGate(acc, caller, active, x)
           G == [x \in X |-> [acc \in A |-> Turn(x, acc)]]
           Solves(iter) == iter = [T \in SUBSET DOMAIN gate |->
                                     IF T = {} THEN base ELSE Turn(gate[Max(T)], iter[T \ {Max(T)}])]
<1>1. \A x \in X : \A acc \in A : Turn(x, acc) \in A
  BY DEF GateWithin
<1> HIDE DEF Turn
<1>2. G \in [X -> [A -> A]] /\ \A x \in X : \A acc \in A : G[x][acc] = Turn(x, acc)
  BY <1>1
<1> HIDE DEF G
<1>3. Sums!Foldable(gate, X, A, base, G)
  BY <1>2 DEF Sums!Foldable
<1>4. /\ DOMAIN gate = 1 .. Len(gate) /\ Len(gate) \in Nat
      /\ \A i \in 1 .. Len(gate) : gate[i] \in X
  OBVIOUS
<1>5. ASSUME NEW T \in SUBSET DOMAIN gate, T # {} PROVE gate[Max(T)] \in X /\ Sums!Max(T) = Max(T)
  BY <1>4, <1>5, Sums!MaxOfIndices, SameMax
<1>6. PICK it \in [SUBSET DOMAIN gate -> A] : Sums!Accumulates(it, gate, base, A, G)
  BY <1>3, Sums!AccumulatorsExist
<1>7. \E iter : Solves(iter)
  <2>1. ASSUME NEW T \in SUBSET DOMAIN gate
        PROVE  it[T] = IF T = {} THEN base ELSE Turn(gate[Max(T)], it[T \ {Max(T)}])
    <3>1. it[T] = IF T = {} THEN base ELSE G[gate[Max(T)]][it[T \ {Max(T)}]]
      BY <1>5, <1>6 DEF Sums!Accumulates
    <3>2. it[T \ {Max(T)}] \in A
      BY <1>6
    <3>3. QED
      BY <1>2, <1>5, <3>1, <3>2
  <2>2. Solves(it)
    BY <1>6, <2>1
  <2>3. QED
    BY <2>2
<1> DEFINE iter == CHOOSE iter : Solves(iter)
<1>8. Solves(iter)
  BY <1>7
<1>9. Gated(base, caller, active, gate) = iter[DOMAIN gate]
  BY DEF Gated, FoldLeft, MapThenFoldSet, Turn
<1> HIDE DEF iter
<1>10. Sums!AccumulatesWithin(iter, gate, base, A, G)
  <2>1. iter[{}] = base
    BY <1>8
  <2>2. ASSUME NEW T \in SUBSET DOMAIN gate, T # {}, iter[T \ {Max(T)}] \in A
        PROVE  iter[T] = G[gate[Max(T)]][iter[T \ {Max(T)}]]
    <3>1. iter[T] = Turn(gate[Max(T)], iter[T \ {Max(T)}])
      BY <1>8, <2>2
    <3>2. QED
      BY <1>2, <1>5, <2>2, <3>1
  <2>3. QED
    BY <1>5, <2>1, <2>2 DEF Sums!AccumulatesWithin
<1>11. PICK run : Sums!IsRun(run, gate, base, A, G) /\ run[Len(gate)] = iter[DOMAIN gate]
  BY <1>3, <1>10, Sums!AccumulatorsRun
<1>12. run \in [0 .. Len(gate) -> A] /\ run[0] = base
  BY <1>11 DEF Sums!IsRun
<1>13. ASSUME NEW i \in 1 .. Len(gate) PROVE run[i] = Turn(gate[i], run[i - 1])
  <2>1. run[i] = G[gate[i]][run[i - 1]]
    BY <1>11 DEF Sums!IsRun
  <2>2. run[i - 1] \in A
    <3>1. i - 1 \in 0 .. Len(gate)
      BY <1>4
    <3>2. QED
      BY <1>12, <3>1
  <2>3. QED
    BY <1>2, <1>4, <2>1, <2>2
<1>14. QED
  BY <1>9, <1>11, <1>12, <1>13 DEF Turn, GateRun

\* What the calls make of the state of a transaction, if none of them refuses it.
Calls(run, caller, active, gate) ==
  /\ run \in [0 .. Len(gate) -> GateStates] /\ run[0] = BeforeGate
  /\ \A i \in 1 .. Len(gate) : GateCalled(run[i - 1], run[i], caller, active, gate[i])

LEMMA FeeGateCalls ==
  ASSUME Calculable, txs \in Nat, BeforeGate \in GateStates,
         NEW caller \in Users, NEW active \in Users, NEW gate \in Seq(Codes),
         FeeGate(caller, active, gate)
  PROVE  \E run : Calls(run, caller, active, gate) /\ AfterGate(run[Len(gate)])
<1> DEFINE A == GateStates \cup {Refused}
           n == Len(gate)
           after == Gated(BeforeGate, caller, active, gate)
<1>1. n \in Nat /\ \A i \in 1 .. n : gate[i] \in Codes
  OBVIOUS
<1>2. AfterGate(after)
  BY DEF FeeGate, Gated
<1>3. \A acc \in A : acc = Refused \/ acc \in GateStates
  OBVIOUS
<1>4. \A code : GalaFeeGate(Refused, caller, active, code) = Refused
  BY DEF GalaFeeGate, Refused
<1>5. BeforeGate \in A /\ GateWithin(A, Codes, caller, active)
  <2>1. ASSUME NEW code \in Codes, NEW acc \in A PROVE GalaFeeGate(acc, caller, active, code) \in A
    <3>1. CASE acc = Refused
      BY <1>4, <3>1
    <3>2. CASE acc \in GateStates
      BY <3>2, GateOutcome
    <3>3. QED
      BY <3>1, <3>2
  <2>2. QED
    BY <2>1 DEF GateWithin
<1> HIDE DEF A
<1>6. PICK run : GateRun(run, A, BeforeGate, caller, active, gate)
  BY <1>5, GatesRun
<1>7. /\ run \in [0 .. n -> A] /\ run[0] = BeforeGate /\ run[n] = after
      /\ \A i \in 1 .. n : run[i] = GalaFeeGate(run[i - 1], caller, active, gate[i])
  BY <1>6 DEF GateRun
<1> HIDE DEF n, after
<1> DEFINE P == {i \in 0 .. n : run[n - i] # Refused}
<1>8. 0 \in P
  <2>1. after.ok
    BY <1>2 DEF AfterGate
  <2>2. after # Refused
    BY <2>1 DEF Refused
  <2>3. n - 0 = n /\ 0 \in 0 .. n
    BY <1>1
  <2>4. QED
    BY <1>7, <2>2, <2>3
<1>9. ASSUME NEW i \in 1 .. n, i - 1 \in P PROVE i \in P
  <2> DEFINE j == n - (i - 1)
  <2>1. j \in 1 .. n /\ j - 1 = n - i /\ i \in 0 .. n
    BY <1>1
  <2>2. run[j] # Refused
    BY <1>9
  <2> HIDE DEF j
  <2>3. run[j - 1] # Refused
    BY <1>4, <1>7, <2>1, <2>2
  <2>4. QED
    BY <2>1, <2>3
<1>10. \A i \in 0 .. n : i \in P
  <2> HIDE DEF P
  <2>1. QED
    BY <1>1, <1>8, <1>9, Sums!UpTo
<1>11. ASSUME NEW i \in 0 .. n PROVE run[i] \in GateStates
  <2>1. n - i \in 0 .. n /\ n - (n - i) = i
    BY <1>1
  <2>2. run[i] # Refused
    BY <1>10, <2>1
  <2>3. QED
    BY <1>3, <1>7, <2>2
<1>12. run \in [0 .. n -> GateStates]
  BY <1>7, <1>11
<1>13. ASSUME NEW i \in 1 .. n PROVE GateCalled(run[i - 1], run[i], caller, active, gate[i])
  <2>1. i \in 0 .. n /\ i - 1 \in 0 .. n
    BY <1>1
  <2> DEFINE s == run[i - 1]  t == run[i]  code == gate[i]
  <2>2. s \in GateStates /\ t \in GateStates /\ code \in Codes /\ t = GalaFeeGate(s, caller, active, code)
    BY <1>1, <1>7, <1>11, <2>1
  <2> HIDE DEF s, t, code
  <2>3. GateCalled(s, t, caller, active, code)
    BY <2>2, GateOutcome, NotRefused
  <2>4. QED
    BY <2>3 DEF s, t, code
<1>14. QED
  BY <1>2, <1>7, <1>12, <1>13 DEF Calls, n

LEMMA BridgeOutCalls ==
  ASSUME Calculable, txs \in Nat, BeforeGate \in GateStates,
         NEW caller \in Users, NEW a \in BridgeAssertions, NEW now, BridgeOut(caller, a, now)
  PROVE  \E w \in GateStates, t \in GateStates :
           /\ UsageWritten(BeforeGate, w, caller, BridgeTokenOut)
           /\ GasFee(BeforeGate, caller, a) \in Int
           /\ Charged(w, t, caller, BridgeTokenOut, GasFee(BeforeGate, caller, a))
           /\ AfterGate(t)
<1> DEFINE s == BeforeGate
           code == BridgeTokenOut
           w == WriteUsage(s, caller, code)
           fee == UsageFee(s, caller, code)
           padding == Padding(NextUse(s, caller, code))
           gas == GasFee(s, caller, a)
           t == Charge(w, caller, code, gas)
<1>1. AfterGate(t) /\ t.ok
  BY DEF BridgeOut, AfterGate
<1>2. w # Refused
  <2>1. w = Refused => t = Refused
    BY DEF Charge, Refused
  <2>2. ~Refused.ok
    BY DEF Refused
  <2> HIDE DEF w, t
  <2>3. QED
    BY <1>1, <2>1, <2>2
<1>3. code \in Codes
  BY FeesAssumption
<1>4. UsageWritten(s, w, caller, code) /\ w \in GateStates /\ fee \in Int
  <2>1. UsageWritten(s, w, caller, code)
    <3> HIDE DEF s, code
    <3>1. s \in GateStates
      BY DEF s
    <3>2. QED
      BY <1>2, <1>3, <3>1, UsageOutcome
  <2>2. QED
    BY <2>1 DEF UsageWritten
<1>5. gas \in Int
  <2>1. a.gas \in Nat
    BY OracleAssumption DEF OracleBridgeFeeAssertionDtos
  <2>2. padding \in Int
    <3>1. s.uses \in ThresholdUses
      BY DEF GateStates
    <3>2. FetchFeeThresholdUses(s.uses, code, caller) \in [uses : Nat, fees : Nat]
      BY <1>3, <3>1, UsesType
    <3>3. NextUse(s, caller, code) \in Nat
      BY <3>2 DEF NextUse
    <3> HIDE DEF s, code
    <3>4. QED
      BY <3>3, PaddingType
  <2>3. gas = fee + a.gas * padding
    BY DEF GasFee
  <2> HIDE DEF fee, padding, gas
  <2>4. QED
    BY <1>4, <2>1, <2>2, <2>3
<1>6. Charged(w, t, caller, code, gas) /\ t \in GateStates
  <2> HIDE DEF w, gas
  <2>1. t = Refused \/ Charged(w, t, caller, code, gas)
    BY <1>3, <1>4, <1>5, ChargeOutcome
  <2>2. t # Refused
    BY <1>1 DEF Refused
  <2>3. QED
    BY <2>1, <2>2 DEF Charged
<1> HIDE DEF w, gas, t
<1>7. QED
  BY <1>1, <1>4, <1>5, <1>6 DEF gas

(***************************************************************************)
(* The transactions that go through gates: those of the methods, and the   *)
(* requests to bridge out, whose only gate is that of their code.          *)
(***************************************************************************)
Bridging == <<BridgeTokenOut>>

GateSequences == Gates \cup {Bridging}

GatedTransaction(run, caller, active, gate) ==
  Calls(run, caller, active, gate) /\ AfterGate(run[Len(gate)])

IsGated == \E caller, active \in Users, gate \in GateSequences : \E run :
             GatedTransaction(run, caller, active, gate)

LEMMA GateSequencesType == \A gate \in GateSequences : gate \in Seq(Codes)
<1>1. BridgeTokenOut \in Codes /\ Gates \subseteq Seq(Codes)
  BY FeesAssumption
<1>2. Bridging \in Seq(Codes)
  BY <1>1 DEF Bridging
<1>3. QED
  BY <1>1, <1>2 DEF GateSequences

LEMMA TransactionsAreGated ==
  ASSUME Calculable, txs \in Nat, BeforeGate \in GateStates
  PROVE  /\ \A caller, active \in Users, gate \in GateSequences :
              FeeGate(caller, active, gate) => IsGated
         /\ \A caller \in Users, a \in BridgeAssertions, now \in Times :
              RequestTokenBridgeOut(caller, a, now) => IsGated
<1>1. ASSUME NEW caller \in Users, NEW active \in Users, NEW gate \in GateSequences,
             FeeGate(caller, active, gate)
      PROVE  IsGated
  <2>1. gate \in Seq(Codes)
    BY GateSequencesType
  <2>2. \E run : GatedTransaction(run, caller, active, gate)
    BY <1>1, <2>1, FeeGateCalls DEF GatedTransaction
  <2>3. QED
    BY <2>2 DEF IsGated
<1>2. ASSUME NEW caller \in Users, NEW a \in BridgeAssertions, NEW now \in Times,
             BridgeOut(caller, a, now)
      PROVE  IsGated
  <2>1. PICK w \in GateStates, t \in GateStates :
          /\ UsageWritten(BeforeGate, w, caller, BridgeTokenOut)
          /\ GasFee(BeforeGate, caller, a) \in Int
          /\ Charged(w, t, caller, BridgeTokenOut, GasFee(BeforeGate, caller, a))
          /\ AfterGate(t)
    BY <1>2, BridgeOutCalls
  <2> DEFINE s == BeforeGate
             run == [i \in 0 .. 1 |-> IF i = 0 THEN s ELSE t]
  <2>2. GateCalled(s, t, caller, caller, BridgeTokenOut)
    <3> HIDE DEF s
    <3>1. QED
      BY <2>1 DEF GateCalled, s
  <2> HIDE DEF s
  <2>3. run \in [0 .. 1 -> GateStates] /\ run[0] = s /\ run[1] = t
    BY DEF s
  <2>4. Len(Bridging) = 1 /\ Bridging[1] = BridgeTokenOut
    BY DEF Bridging
  <2> HIDE DEF run
  <2>5. \A i \in 1 .. 1 : GateCalled(run[i - 1], run[i], caller, caller, Bridging[i])
    BY <2>2, <2>3, <2>4
  <2>6. GatedTransaction(run, caller, caller, Bridging)
    BY <2>1, <2>3, <2>4, <2>5 DEF GatedTransaction, Calls, s
  <2>7. QED
    BY <2>6 DEF IsGated, GateSequences
<1>3. Bridging \in GateSequences
  BY DEF GateSequences
<1>4. QED
  BY <1>1, <1>2, <1>3 DEF RequestTokenBridgeOut, Bridging

-----------------------------------------------------------------------------
(* The types of the variables.                                             *)

Authorizations(tx) == [authority : Users, tx : tx, quantity : Authorized]

AmountsTyped ==
  /\ balance \in Balances /\ pending \in PendingBalances /\ uses \in ThresholdUses
  /\ exemptions \in [Users -> Limits \cup {{}}]

AuthorizationsTyped == authorizations \subseteq Authorizations(1 .. txs) /\ credited \subseteq authorizations

ReceiptsTyped ==
  /\ userReceipts \subseteq ReceiptsOf(1 .. txs)
  /\ creditReceipts \subseteq ReceiptsOf(1 .. txs)
  /\ channelReceipts \subseteq ChannelReceiptsOf(1 .. txs)

Counted == txs \in 0 .. MaxTx

Typed == AmountsTyped /\ AuthorizationsTyped /\ ReceiptsTyped /\ Counted /\ OracleTypeOK

LEMMA TypedIsTypeOK ==
  ASSUME Typed
  PROVE  TypeOK /\ txs \in Nat
<1>1. Counted /\ OracleTypeOK /\ txs \in Nat
  BY FeesAssumption DEF Typed, Counted
<1>2. balance \in [Users -> Nat] /\ exemptions \in [Users -> Limits \cup {{}}]
  BY DEF Typed, AmountsTyped, Balances
<1>3. DOMAIN pending \subseteq Users /\ \A u \in DOMAIN pending : pending[u] \in Nat
  BY PendingType DEF Typed, AmountsTyped
<1>4. DOMAIN uses \subseteq Codes \X Users /\ \A k \in DOMAIN uses : uses[k] \in [uses : Nat, fees : Nat]
  BY DEF Typed, AmountsTyped, ThresholdUses
<1>5. /\ authorizations \subseteq [authority : Users, tx : 1 .. txs, quantity : Authorized]
      /\ credited \subseteq authorizations
  BY DEF Typed, AuthorizationsTyped, Authorizations
<1>6. /\ userReceipts \cup creditReceipts \subseteq ReceiptsOf(1 .. txs)
      /\ channelReceipts \subseteq ChannelReceiptsOf(1 .. txs)
  BY DEF Typed, ReceiptsTyped
<1>7. QED
  BY <1>1, <1>2, <1>3, <1>4, <1>5, <1>6 DEF TypeOK, Counted

\* Of more transactions there may be more.
LEMMA MoreTransactions ==
  ASSUME txs \in Nat, txs' \in {txs, txs + 1}
  PROVE  /\ ReceiptsOf(1 .. txs) \subseteq ReceiptsOf(1 .. txs')
         /\ ChannelReceiptsOf(1 .. txs) \subseteq ChannelReceiptsOf(1 .. txs')
         /\ Authorizations(1 .. txs) \subseteq Authorizations(1 .. txs')
<1>1. 1 .. txs \subseteq 1 .. txs'
  OBVIOUS
<1> DEFINE few == 1 .. txs  many == 1 .. txs'
<1> HIDE DEF few, many
<1>2. few \subseteq many
  BY <1>1 DEF few, many
<1>3. ReceiptsOf(few) \subseteq ReceiptsOf(many)
  BY <1>2 DEF ReceiptsOf
<1>4. ChannelReceiptsOf(few) \subseteq ChannelReceiptsOf(many)
  BY <1>2 DEF ChannelReceiptsOf
<1>5. Authorizations(few) \subseteq Authorizations(many)
  BY <1>2 DEF Authorizations
<1>6. QED
  BY <1>3, <1>4, <1>5 DEF few, many

LEMMA BeforeGateType ==
  ASSUME Typed
  PROVE  BeforeGate \in GateStates /\ txs \in Nat
<1>1. txs \in Nat /\ AmountsTyped /\ ReceiptsTyped
  BY TypedIsTypeOK DEF Typed
<1> DEFINE few == 1 .. txs  many == 1 .. txs + 1
<1>2. few \subseteq many
  BY <1>1
<1> HIDE DEF few, many
<1>3. ReceiptsOf(few) \subseteq ReceiptsOf(many) /\ ChannelReceiptsOf(few) \subseteq ChannelReceiptsOf(many)
  BY <1>2 DEF ReceiptsOf, ChannelReceiptsOf
<1>4. channelReceipts \subseteq ChannelReceiptsOf(many) /\ userReceipts \subseteq ReceiptsOf(many)
  BY <1>1, <1>3 DEF ReceiptsTyped, few
<1>5. QED
  BY <1>1, <1>4 DEF BeforeGate, GateStates, AmountsTyped, many

\* What a step leaves as it is keeps its type, however many transactions there are then.
LEMMA StaysTyped ==
  ASSUME Typed, txs' \in {txs, txs + 1}
  PROVE  /\ UNCHANGED <<authorizations, credited>> => AuthorizationsTyped'
         /\ UNCHANGED userReceipts => userReceipts' \subseteq ReceiptsOf(1 .. txs')
         /\ UNCHANGED creditReceipts => creditReceipts' \subseteq ReceiptsOf(1 .. txs')
         /\ UNCHANGED channelReceipts => channelReceipts' \subseteq ChannelReceiptsOf(1 .. txs')
         /\ UNCHANGED oracleVars => OracleTypeOK'
<1>1. txs \in Nat
  BY TypedIsTypeOK
<1>2. AuthorizationsTyped /\ ReceiptsTyped /\ OracleTypeOK
  BY DEF Typed
<1>3. UNCHANGED <<authorizations, credited>> => AuthorizationsTyped'
  BY <1>1, <1>2, MoreTransactions DEF AuthorizationsTyped
<1>4. /\ UNCHANGED userReceipts => userReceipts' \subseteq ReceiptsOf(1 .. txs')
      /\ UNCHANGED creditReceipts => creditReceipts' \subseteq ReceiptsOf(1 .. txs')
      /\ UNCHANGED channelReceipts => channelReceipts' \subseteq ChannelReceiptsOf(1 .. txs')
  BY <1>1, <1>2, MoreTransactions DEF ReceiptsTyped
<1>5. UNCHANGED oracleVars => OracleTypeOK'
  BY <1>2 DEF OracleTypeOK, oracleVars
<1>6. QED
  BY <1>3, <1>4, <1>5

LEMMA NextTxType ==
  ASSUME Typed
  PROVE  /\ NextTx => Counted' /\ txs' = txs + 1
         /\ UNCHANGED txs => Counted'
<1>1. txs \in Nat /\ Counted
  BY TypedIsTypeOK DEF Typed
<1>2. QED
  BY <1>1, FeesAssumption DEF NextTx, Counted

LEMMA GatedTyped ==
  ASSUME Typed, IsGated, OracleTypeOK'
  PROVE  Typed'
<1>0. PICK caller \in Users, active \in Users, gate \in GateSequences :
        \E run : GatedTransaction(run, caller, active, gate)
  BY DEF IsGated
<1>1. PICK run : GatedTransaction(run, caller, active, gate)
  BY <1>0
<1> DEFINE t == run[Len(gate)]
<1>2. t \in GateStates
  <2>1. gate \in Seq(Codes)
    BY GateSequencesType
  <2>2. Len(gate) \in 0 .. Len(gate)
    BY <2>1
  <2>3. QED
    BY <1>1, <2>2 DEF GatedTransaction, Calls
<1>3. AfterGate(t)
  BY <1>1 DEF GatedTransaction
<1> HIDE DEF t
<1>4. NextTx /\ txs' = txs + 1 /\ Counted'
  BY <1>3, NextTxType DEF AfterGate
<1>5. AuthorizationsTyped' /\ creditReceipts' \subseteq ReceiptsOf(1 .. txs')
  BY <1>3, <1>4, StaysTyped DEF AfterGate
<1>6. /\ channelReceipts' \subseteq ChannelReceiptsOf(1 .. txs')
      /\ userReceipts' \subseteq ReceiptsOf(1 .. txs')
  BY <1>2, <1>3, <1>4 DEF AfterGate, GateStates
<1>7. AmountsTyped'
  BY <1>2, <1>3 DEF AfterGate, GateStates, AmountsTyped, Typed
<1>8. QED
  BY <1>4, <1>5, <1>6, <1>7 DEF Typed, ReceiptsTyped

LEMMA SettledType ==
  ASSUME NEW tx, NEW r
  PROVE  /\ r \in ReceiptsOf(tx) =>
              /\ Settled(r) \in ReceiptsOf(tx) /\ Settled(r).user = r.user /\ Settled(r).tx = r.tx
              /\ Settled(r).quantity = r.quantity /\ Settled(r).status = "Settled"
         /\ r \in ChannelReceiptsOf(tx) =>
              /\ Settled(r) \in ChannelReceiptsOf(tx) /\ Settled(r).user = r.user
              /\ Settled(r).tx = r.tx /\ Settled(r).code = r.code
              /\ Settled(r).quantity = r.quantity /\ Settled(r).status = "Settled"
BY DEF Settled, ReceiptsOf, ChannelReceiptsOf

\* What is fetched is among what there is to fetch.
LEMMA TypedNext ==
  ASSUME Calculable, Typed, Next
  PROVE  Typed'
<1>1. /\ AmountsTyped /\ AuthorizationsTyped /\ ReceiptsTyped /\ Counted /\ OracleTypeOK
      /\ txs \in Nat
  BY TypedIsTypeOK DEF Typed
<1>2. ASSUME NEW dto \in FeeAuthorizationDtos, AuthorizeFee(dto.authority, dto.quantity),
             UNCHANGED oracleVars
      PROVE  Typed'
  <2> DEFINE u == dto.authority  q == dto.quantity
             a == [authority |-> u, tx |-> txs', quantity |-> q]
  <2>1. u \in Users /\ q \in Authorized /\ q \in Nat
    BY FeesAssumption DEF FeeAuthorizationDtos
  <2>2. NextTx /\ balance[u] >= q /\ balance' = [balance EXCEPT ![u] = @ - q]
        /\ authorizations' = authorizations \cup {a}
        /\ UNCHANGED <<credited, pending, uses, exemptions, channelReceipts, userReceipts, creditReceipts>>
    BY <1>2 DEF AuthorizeFee
  <2>3. Counted' /\ txs' = txs + 1
    BY <2>2, NextTxType
  <2>4. ReceiptsTyped' /\ OracleTypeOK'
    BY <1>2, <2>2, <2>3, StaysTyped DEF ReceiptsTyped
  <2>5. AuthorizationsTyped'
    <3>1. txs' \in 1 .. txs'
      BY <1>1, <2>3
    <3>2. a \in Authorizations(1 .. txs')
      BY <2>1, <3>1 DEF Authorizations
    <3>3. authorizations \subseteq Authorizations(1 .. txs') /\ credited \subseteq authorizations
      BY <1>1, <2>3, MoreTransactions DEF AuthorizationsTyped
    <3> HIDE DEF a
    <3>4. QED
      BY <2>2, <3>2, <3>3 DEF AuthorizationsTyped
  <2>6. AmountsTyped'
    <3> DEFINE b == balance[u]
    <3>1. b \in Nat
      BY <1>1, <2>1 DEF AmountsTyped, Balances
    <3>2. b - q \in Nat
      <4> HIDE DEF b, q
      <4>1. b >= q
        BY <2>2 DEF b
      <4>2. QED
        BY <2>1, <3>1, <4>1
    <3>3. balance' = [balance EXCEPT ![u] = b - q]
      BY <2>2
    <3> HIDE DEF b, q, u
    <3>4. balance' \in Balances
      BY <1>1, <3>2, <3>3 DEF AmountsTyped, Balances
    <3>5. QED
      BY <1>1, <2>2, <3>4 DEF AmountsTyped
  <2>7. QED
    BY <2>3, <2>4, <2>5, <2>6 DEF Typed
<1>3. ASSUME NEW u \in Users, NEW limit \in Limits \cup {{}},
             exemptions' = [exemptions EXCEPT ![u] = limit],
             UNCHANGED <<balance, authorizations, credited, pending, uses, channelReceipts,
                         userReceipts, creditReceipts, txs, oracleVars>>
      PROVE  Typed'
  <2>1. AmountsTyped'
    BY <1>1, <1>3 DEF AmountsTyped
  <2>2. QED
    BY <1>1, <1>3, <2>1 DEF Typed, AuthorizationsTyped, ReceiptsTyped, Counted, OracleTypeOK, oracleVars
<1>4. ASSUME NEW a \in authorizations, CreditFeeBalance(a), UNCHANGED oracleVars
      PROVE  Typed'
  <2>1. /\ credited' = credited \cup {a}
        /\ pending' = Put(pending, a.authority, Pending(a.authority) + a.quantity)
        /\ UNCHANGED <<balance, authorizations, uses, exemptions, channelReceipts, userReceipts,
                       creditReceipts, txs>>
    BY <1>4 DEF CreditFeeBalance
  <2> DEFINE u == a.authority  v == Pending(u) + a.quantity
  <2>2. u \in Users /\ a.quantity \in Nat
    BY <1>1, FeesAssumption DEF AuthorizationsTyped, Authorizations
  <2>3. Pending(u) \in Nat
    BY <1>1, PendingType DEF Pending, AmountsTyped
  <2>4. v \in Nat
    BY <2>2, <2>3
  <2> HIDE DEF u, v
  <2>5. pending' \in PendingBalances
    <3>1. pending \in UNION {[S -> Nat] : S \in PendingUsers}
      BY <1>1 DEF AmountsTyped, PendingBalances
    <3>2. \A S \in PendingUsers : S \cup {u} \in PendingUsers
      BY <2>2, FS_AddElement DEF PendingUsers
    <3>3. Put(pending, u, v) \in UNION {[S -> Nat] : S \in PendingUsers}
      BY <2>4, <3>1, <3>2, PutType
    <3>4. QED
      BY <2>1, <3>3 DEF PendingBalances, u, v
  <2>6. AmountsTyped' /\ AuthorizationsTyped'
    BY <1>1, <1>4, <2>1, <2>5 DEF AmountsTyped, AuthorizationsTyped
  <2>7. QED
    BY <1>1, <1>4, <2>1, <2>6 DEF Typed, ReceiptsTyped, Counted, OracleTypeOK, oracleVars
<1>5. ASSUME NEW keys, ResetFeeThresholdUses(keys), UNCHANGED oracleVars
      PROVE  Typed'
  <2>1. /\ uses' = [k \in DOMAIN uses |-> IF k \in keys THEN [uses |-> 0, fees |-> 0] ELSE uses[k]]
        /\ UNCHANGED <<balance, authorizations, credited, pending, exemptions, channelReceipts,
                       userReceipts, creditReceipts, txs>>
    BY <1>5 DEF ResetFeeThresholdUses
  <2>2. PICK S \in SUBSET (Codes \X Users) : uses \in [S -> [uses : Nat, fees : Nat]]
    BY <1>1 DEF AmountsTyped, ThresholdUses
  <2>3. uses' \in [S -> [uses : Nat, fees : Nat]]
    <3> DEFINE T == [uses : Nat, fees : Nat]
               zero == [uses |-> 0, fees |-> 0]
    <3>1. zero \in T
      OBVIOUS
    <3> HIDE DEF T, zero
    <3>2. uses \in [S -> T] /\ uses' = [k \in DOMAIN uses |-> IF k \in keys THEN zero ELSE uses[k]]
      BY <2>1, <2>2 DEF T, zero
    <3>3. uses' \in [S -> T]
      BY <3>1, <3>2
    <3>4. QED
      BY <3>3 DEF T
  <2>4. AmountsTyped'
    BY <1>1, <2>1, <2>3 DEF AmountsTyped, ThresholdUses
  <2>5. QED
    BY <1>1, <1>5, <2>1, <2>4 DEF Typed, AuthorizationsTyped, ReceiptsTyped, Counted, OracleTypeOK, oracleVars
<1>6. ASSUME NEW keys \in PendingBalanceKeys, SettleFeeBalances(keys), UNCHANGED oracleVars
      PROVE  Typed'
  <2> DEFINE held == {<<u>> : u \in DOMAIN pending}
             settled == {s.receipt : s \in SettleFeeBalancesResponse(keys)} \ {Undefined}
  <2>1. NextTx /\ creditReceipts' = creditReceipts \cup settled
        /\ UNCHANGED <<balance, authorizations, credited, pending, uses, exemptions, channelReceipts,
                       userReceipts>>
    BY <1>6 DEF SettleFeeBalances
  <2>2. txs' = txs + 1 /\ Counted'
    BY <2>1, NextTxType
  <2>3. keys \subseteq held
    <3>1. IsFiniteSet(held)
      <4>1. IsFiniteSet(DOMAIN pending)
        BY <1>1 DEF AmountsTyped, PendingBalances, PendingUsers
      <4> DEFINE f == [u \in DOMAIN pending |-> <<u>>]
      <4>2. f \in Surjection(DOMAIN pending, held)
        BY DEF Surjection
      <4> HIDE DEF f, held
      <4>3. QED
        BY <4>1, <4>2, FS_Surjection
    <3> HIDE DEF held
    <3>2. QED
      BY <3>1, FetchedWithin DEF PendingBalanceKeys, held
  <2>4. settled \subseteq ReceiptsOf(1 .. txs')
    <3> SUFFICES ASSUME NEW k \in keys, FeeBalanceSettlement(k[1]).receipt # Undefined
                 PROVE  FeeBalanceSettlement(k[1]).receipt \in ReceiptsOf(1 .. txs')
      BY DEF SettleFeeBalancesResponse
    <3> DEFINE u == k[1]  q == pending[u]
               r == [user |-> u, tx |-> txs', quantity |-> q, status |-> "Open"]
    <3>1. u \in DOMAIN pending
      BY <2>3
    <3>2. u \in Users /\ q \in Nat
      BY <1>1, <3>1, PendingType DEF AmountsTyped
    <3>3. FeeBalanceSettlement(u).receipt = r
      BY DEF FeeBalanceSettlement
    <3>4. txs' \in 1 .. txs'
      BY <1>1, <2>2
    <3> HIDE DEF u, q
    <3>5. r \in ReceiptsOf(1 .. txs')
      BY <3>2, <3>4 DEF ReceiptsOf
    <3>6. QED
      BY <3>3, <3>5 DEF u
  <2> HIDE DEF settled
  <2>5. ReceiptsTyped'
    <3>1. creditReceipts \subseteq ReceiptsOf(1 .. txs')
      BY <1>1, <2>2, MoreTransactions DEF ReceiptsTyped
    <3>2. QED
      BY <2>1, <2>2, <2>4, <3>1, StaysTyped DEF ReceiptsTyped
  <2>6. AuthorizationsTyped' /\ OracleTypeOK' /\ AmountsTyped'
    BY <1>1, <1>6, <2>1, <2>2, StaysTyped DEF AmountsTyped
  <2>7. QED
    BY <2>2, <2>5, <2>6 DEF Typed
<1>7. ASSUME NEW keys, SettleFeeCreditReceipts(keys), UNCHANGED oracleVars
      PROVE  Typed'
  <2> DEFINE rs == {r \in creditReceipts : CreditKey(r) \in keys}
             settled == {Settled(r) : r \in rs}
  <2>1. creditReceipts' = (creditReceipts \ rs) \cup settled
        /\ UNCHANGED <<balance, authorizations, credited, pending, uses, exemptions, channelReceipts,
                       userReceipts, txs>>
    BY <1>7 DEF SettleFeeCreditReceipts
  <2>2. settled \subseteq ReceiptsOf(1 .. txs)
    BY <1>1, SettledType DEF ReceiptsTyped
  <2> HIDE DEF settled, rs
  <2>3. ReceiptsTyped'
    BY <1>1, <2>1, <2>2 DEF ReceiptsTyped
  <2>4. QED
    BY <1>1, <1>7, <2>1, <2>3 DEF Typed, AmountsTyped, AuthorizationsTyped, Counted, OracleTypeOK, oracleVars
<1>8. ASSUME NEW keys, SettleFeePaymentReceipts(keys), UNCHANGED oracleVars
      PROVE  Typed'
  <2> DEFINE rs == {r \in channelReceipts : ChannelKey(r) \in keys}
             mine == {r \in userReceipts : UserKey(r) \in {UserKey(s) : s \in rs}}
             settled == {Settled(r) : r \in rs}
             also == {Settled(r) : r \in mine}
  <2>1. /\ channelReceipts' = (channelReceipts \ rs) \cup settled
        /\ userReceipts' = (userReceipts \ mine) \cup also
        /\ UNCHANGED <<balance, authorizations, credited, pending, uses, exemptions,
                       creditReceipts, txs>>
    BY <1>8 DEF SettleFeePaymentReceipts
  <2>2. settled \subseteq ChannelReceiptsOf(1 .. txs) /\ also \subseteq ReceiptsOf(1 .. txs)
    BY <1>1, SettledType DEF ReceiptsTyped
  <2> HIDE DEF settled, also, rs, mine
  <2>3. ReceiptsTyped'
    BY <1>1, <2>1, <2>2 DEF ReceiptsTyped
  <2>4. QED
    BY <1>1, <1>8, <2>1, <2>3 DEF Typed, AmountsTyped, AuthorizationsTyped, Counted, OracleTypeOK, oracleVars
<1>9. ASSUME NextOracle, UNCHANGED feeVars
      PROVE  Typed'
  <2>1. UNCHANGED <<balance, authorizations, credited, pending, uses, exemptions,
                    channelReceipts, userReceipts, creditReceipts>>
    BY <1>9 DEF feeVars
  <2>2. Counted' /\ txs' \in {txs, txs + 1}
    BY <1>9, NextTxType DEF NextOracle
  <2>3. AmountsTyped' /\ AuthorizationsTyped' /\ ReceiptsTyped'
    BY <1>1, <2>1, <2>2, StaysTyped DEF AmountsTyped, ReceiptsTyped
  <2>4. txs' \in Nat
    BY <1>1, <2>2
  <2>5. OracleTypeOK'
    <3>1. ASSUME NEW by \in Users, NEW dto \in OracleDefinitionDtos, SaveOracleDefinition(by, dto.authorities)
          PROVE  OracleTypeOK'
      <4>1. dto.authorities \in SUBSET Users
        BY OracleAssumption DEF OracleDefinitionDtos
      <4>2. QED
        BY <1>1, <3>1, <4>1 DEF SaveOracleDefinition, OracleTypeOK
    <3>2. ASSUME NEW by \in Users, DeleteOracleDefinition(by) PROVE OracleTypeOK'
      BY <1>1, <3>2 DEF DeleteOracleDefinition, OracleTypeOK
    <3>3. ASSUME NEW dto \in OraclePriceAssertionDtos, SaveOraclePriceAssertion(dto.identity, txs')
          PROVE  OracleTypeOK'
      <4>1. [identity |-> dto.identity, tx |-> txs'] \in OraclePriceAssertions
        BY <2>4 DEF OraclePriceAssertionDtos, OraclePriceAssertions
      <4>2. QED
        BY <1>1, <3>3, <4>1 DEF SaveOraclePriceAssertion, OracleTypeOK
    <3>4. ASSUME NEW assertions, DeleteOraclePriceAssertions(assertions) PROVE OracleTypeOK'
      BY <1>1, <3>4 DEF DeleteOraclePriceAssertions, OracleTypeOK
    <3>5. QED
      BY <1>9, <3>1, <3>2, <3>3, <3>4 DEF NextOracle
  <2>6. QED
    BY <2>2, <2>3, <2>5 DEF Typed
<1>10. ASSUME NEW caller \in Users, NEW active \in Users, NEW gate \in Gates,
              FeeGate(caller, active, gate)
       PROVE  Typed'
  <2>1. IsGated
    BY <1>10, BeforeGateType, TransactionsAreGated DEF GateSequences
  <2>2. OracleTypeOK'
    BY <1>1, <1>10 DEF FeeGate, OracleTypeOK, oracleVars
  <2>3. QED
    BY <2>1, <2>2, GatedTyped
<1>11. ASSUME NEW caller \in Users, NEW a \in BridgeAssertions, NEW now \in Times,
              RequestTokenBridgeOut(caller, a, now)
       PROVE  Typed'
  <2>1. IsGated
    BY <1>11, BeforeGateType, TransactionsAreGated
  <2>2. OracleTypeOK'
    <3>1. CASE FeeGate(caller, caller, <<BridgeTokenOut>>)
      BY <1>1, <3>1 DEF FeeGate, OracleTypeOK, oracleVars
    <3>2. CASE BridgeOut(caller, a, now)
      <4>1. txs' \in Nat
        BY <1>1, <3>2 DEF BridgeOut, AfterGate, NextTx
      <4>2. [signingIdentity |-> a.signingIdentity, tx |-> txs', gas |-> a.gas] \in OracleBridgeFeeAssertions
        BY <4>1, OracleAssumption DEF OracleBridgeFeeAssertionDtos, OracleBridgeFeeAssertions
      <4>3. QED
        BY <1>1, <3>2, <4>2 DEF BridgeOut, PutBridgeFee, OracleTypeOK
    <3>3. QED
      BY <1>11, <3>1, <3>2 DEF RequestTokenBridgeOut
  <2>3. QED
    BY <2>1, <2>2, GatedTyped
<1>12. CASE NextFees /\ UNCHANGED oracleVars
  <2>1. \A dto \in FeeExemptionDtos : AuthorizeExemptionForUser(dto.user, dto.limitTo) => Typed'
    BY <1>3, <1>12 DEF FeeExemptionDtos, AuthorizeExemptionForUser
  <2>2. \A u \in Users : RevokeExemptionForUser(u) => Typed'
    BY <1>3, <1>12 DEF RevokeExemptionForUser
  <2>3. QED
    BY <1>2, <1>4, <1>5, <1>6, <1>7, <1>8, <1>12, <2>1, <2>2 DEF NextFees, FeeVerificationDtos
<1>13. CASE NextOracle /\ UNCHANGED feeVars
  BY <1>9, <1>13
<1>14. QED
  BY <1>10, <1>11, <1>12, <1>13 DEF Next

LEMMA TypedInit ==
  ASSUME Init
  PROVE  Typed
<1>1. 0 \in 0 .. MaxTx /\ InitialBalance \in Nat
  BY FeesAssumption
<1>2. AmountsTyped
  <2>1. balance \in Balances /\ exemptions \in [Users -> Limits \cup {{}}]
    BY <1>1 DEF Init, Balances
  <2>2. << >> \in [{} -> Nat] /\ << >> \in [{} -> [uses : Nat, fees : Nat]]
    OBVIOUS
  <2>3. {} \in PendingUsers /\ {} \in SUBSET (Codes \X Users)
    BY FS_EmptySet DEF PendingUsers
  <2>4. QED
    BY <2>1, <2>2, <2>3 DEF Init, AmountsTyped, PendingBalances, ThresholdUses
<1>3. AuthorizationsTyped /\ ReceiptsTyped /\ Counted /\ OracleTypeOK
  BY <1>1 DEF Init, AuthorizationsTyped, ReceiptsTyped, Counted, OracleTypeOK, InitOracle
<1>4. QED
  BY <1>2, <1>3 DEF Typed

LEMMA TypedUnchanged ==
  ASSUME Typed, UNCHANGED vars
  PROVE  Typed'
BY DEF Typed, AmountsTyped, AuthorizationsTyped, ReceiptsTyped, Counted, OracleTypeOK, vars, oracleVars

LEMMA TypedAlways ==
  ASSUME Calculable
  PROVE  Spec => []Typed
<1>1. Init => Typed
  BY TypedInit
<1>2. Typed /\ [Next]_vars => Typed'
  BY TypedNext, TypedUnchanged
<1>3. QED
  BY <1>1, <1>2, PTL DEF Spec

(***************************************************************************)
(* The types of the variables, if the numbers can be calculated with: that *)
(* a balance is never negative is what the gates have to see to.           *)
(***************************************************************************)
THEOREM TypeCorrect ==
  ASSUME Calculable
  PROVE  Spec => []TypeOK
<1>1. Typed => TypeOK
  BY TypedIsTypeOK
<1>2. QED
  BY <1>1, TypedAlways, PTL

-----------------------------------------------------------------------------
(* Receipts: what calls of gates and settlements do to them.               *)

\* Apart from those of one transaction, a code and a user, there are no two.
Apart(channel) ==
  /\ IsFiniteSet(channel)
  /\ \A r, t \in channel : r.code = t.code /\ r.user = t.user /\ r.tx = t.tx => r = t

\* A call that has charged a fee.
Paid(s, t, caller, code, fee) ==
  /\ Receipted(s, t, caller, code, fee)
  /\ IF code \in CrossChannel
     THEN /\ caller \in DOMAIN s.pending /\ t.balance = s.balance
          /\ t.pending = [s.pending EXCEPT ![caller] = @ - fee]
     ELSE /\ t.pending = s.pending
          /\ SplitFormula[code].burn # 0 => t.balance[caller] = s.balance[caller] - fee

LEMMA CallPays ==
  ASSUME NEW s \in GateStates, NEW t \in GateStates, NEW caller, NEW active, NEW code,
         GateCalled(s, t, caller, active, code)
  PROVE  \/ /\ t.channel = s.channel /\ t.user = s.user
            /\ t.pending = s.pending /\ t.balance = s.balance
         \/ \E fee \in Nat \ {0} : Paid(s, t, caller, code, fee)
<1>1. CASE t = s
  BY <1>1
<1>2. ASSUME NEW w \in GateStates, NEW fee \in Int,
             UsageWritten(s, w, active, code), Charged(w, t, caller, code, fee)
      PROVE  \/ /\ t.channel = s.channel /\ t.user = s.user
                /\ t.pending = s.pending /\ t.balance = s.balance
             \/ \E q \in Nat \ {0} : Paid(s, t, caller, code, q)
  <2>1. w.channel = s.channel /\ w.user = s.user /\ w.pending = s.pending /\ w.balance = s.balance
    BY <1>2 DEF UsageWritten
  <2>2. CASE fee <= 0
    BY <1>2, <2>1, <2>2 DEF Charged
  <2>3. CASE ~(fee <= 0)
    <3>1. fee \in Nat \ {0}
      BY <2>3
    <3>2. Receipted(s, t, caller, code, fee)
      BY <1>2, <2>1, <2>3 DEF Charged, Receipted
    <3>3. Paid(s, t, caller, code, fee)
      BY <1>2, <2>1, <2>3, <3>2 DEF Charged, Paid
    <3>4. QED
      BY <3>1, <3>3
  <2>4. QED
    BY <2>2, <2>3
<1>3. QED
  BY <1>1, <1>2 DEF GateCalled

\* The receipt that is put, and what is there besides.
LEMMA ReceiptPut ==
  ASSUME txs \in Nat, NEW s \in GateStates, NEW t \in GateStates, NEW caller, NEW code,
         NEW fee \in Nat \ {0}, Receipted(s, t, caller, code, fee)
  PROVE  \E c \in t.channel :
           /\ c.code = code /\ c.user = caller /\ c.tx = txs + 1 /\ c.quantity = fee
           /\ t.channel = {r \in s.channel : ~(r.code = code /\ r.user = caller /\ r.tx = txs + 1)} \cup {c}
           /\ t.user = {r \in s.user : ~(r.user = caller /\ r.tx = txs + 1)}
                         \cup {[user |-> c.user, tx |-> c.tx, quantity |-> c.quantity, status |-> c.status]}
<1>1. PICK status \in Statuses :
        /\ t.channel = PutChannelReceipt(s.channel, ChannelReceipt(caller, code, fee, status))
        /\ t.user = PutUserReceipt(s.user, UserReceipt(caller, fee, status))
  BY DEF Receipted
<1> DEFINE c == ChannelReceipt(caller, code, fee, status)
<1>2. c.code = code /\ c.user = caller /\ c.tx = txs + 1 /\ c.quantity = fee /\ c.status = status
  BY DEF ChannelReceipt
<1>3. UserReceipt(caller, fee, status)
        = [user |-> c.user, tx |-> c.tx, quantity |-> c.quantity, status |-> c.status]
  BY <1>2 DEF UserReceipt
<1> HIDE DEF c
<1>4. \A r : ChannelKey(r) = ChannelKey(c) <=> r.code = code /\ r.user = caller /\ r.tx = txs + 1
  BY <1>2 DEF ChannelKey
<1>5. t.channel = {r \in s.channel : ~(r.code = code /\ r.user = caller /\ r.tx = txs + 1)} \cup {c}
  <2>1. t.channel = {r \in s.channel : ChannelKey(r) # ChannelKey(c)} \cup {c}
    BY <1>1 DEF PutChannelReceipt, c
  <2>2. QED
    BY <1>4, <2>1
<1> DEFINE u == [user |-> c.user, tx |-> c.tx, quantity |-> c.quantity, status |-> c.status]
<1>6. u.user = caller /\ u.tx = txs + 1
  BY <1>2
<1>7. t.user = PutUserReceipt(s.user, u)
  BY <1>1, <1>3
<1> HIDE DEF u
<1>8. \A r : UserKey(r) = UserKey(u) <=> r.user = caller /\ r.tx = txs + 1
  BY <1>6 DEF UserKey
<1>9. t.user = {r \in s.user : ~(r.user = caller /\ r.tx = txs + 1)} \cup {u}
  BY <1>7, <1>8 DEF PutUserReceipt
<1>10. QED
  BY <1>2, <1>5, <1>9 DEF u

LEMMA ApartPut ==
  ASSUME NEW channel, Apart(channel), NEW c
  PROVE  Apart({r \in channel : ~(r.code = c.code /\ r.user = c.user /\ r.tx = c.tx)} \cup {c})
<1> DEFINE kept == {r \in channel : ~(r.code = c.code /\ r.user = c.user /\ r.tx = c.tx)}
<1>1. IsFiniteSet(kept)
  <2>1. kept \subseteq channel
    OBVIOUS
  <2> HIDE DEF kept
  <2>2. QED
    BY <2>1, FS_Subset DEF Apart
<1>2. IsFiniteSet(kept \cup {c})
  <2> HIDE DEF kept
  <2>1. QED
    BY <1>1, FS_AddElement
<1>3. QED
  BY <1>2 DEF Apart

\* What there is of this transaction is of the gates that were called.
Recent(channel, gate, i) ==
  \A r \in channel : r.tx = txs + 1 => \E j \in 1 .. i : r.code = gate[j]

LEMMA RunReceipts ==
  ASSUME Typed, NEW run, NEW caller \in Users, NEW active \in Users, NEW gate \in Seq(Codes),
         Calls(run, caller, active, gate), Apart(channelReceipts)
  PROVE  \A i \in 0 .. Len(gate) : Apart(run[i].channel) /\ Recent(run[i].channel, gate, i)
<1> DEFINE n == Len(gate)
           P == {i \in 0 .. n : Apart(run[i].channel) /\ Recent(run[i].channel, gate, i)}
<1>1. txs \in Nat /\ n \in Nat
  BY TypedIsTypeOK
<1>2. /\ run \in [0 .. n -> GateStates] /\ run[0] = BeforeGate
      /\ \A i \in 1 .. n : GateCalled(run[i - 1], run[i], caller, active, gate[i])
  BY DEF Calls
<1> HIDE DEF n
<1>3. 0 \in P
  <2>1. run[0].channel = channelReceipts
    BY <1>2 DEF BeforeGate
  <2>2. \A r \in channelReceipts : r.tx # txs + 1
    BY <1>1 DEF Typed, ReceiptsTyped, ChannelReceiptsOf
  <2>3. QED
    BY <1>1, <2>1, <2>2 DEF Recent
<1>4. ASSUME NEW i \in 1 .. n, i - 1 \in P PROVE i \in P
  <2> DEFINE s == run[i - 1]  t == run[i]  code == gate[i]
  <2>1. /\ i \in 0 .. n /\ i - 1 \in 0 .. n /\ i \in 1 .. i
        /\ \A j \in 1 .. i - 1 : j \in 1 .. i
    BY <1>1
  <2>2. s \in GateStates /\ t \in GateStates /\ GateCalled(s, t, caller, active, code)
    BY <1>2, <2>1
  <2>3. Apart(s.channel) /\ Recent(s.channel, gate, i - 1)
    BY <1>4
  <2> HIDE DEF s, t
  <2>4. CASE t.channel = s.channel
    <3>1. Recent(t.channel, gate, i)
      BY <2>1, <2>3, <2>4 DEF Recent
    <3>2. QED
      BY <2>1, <2>3, <2>4, <3>1 DEF t
  <2>5. ASSUME NEW fee \in Nat \ {0}, Receipted(s, t, caller, code, fee) PROVE i \in P
    <3>1. PICK c \in t.channel :
            /\ c.code = code /\ c.user = caller /\ c.tx = txs + 1
            /\ t.channel = {r \in s.channel : ~(r.code = code /\ r.user = caller /\ r.tx = txs + 1)} \cup {c}
      <4> HIDE DEF code
      <4>1. QED
        BY <1>1, <2>2, <2>5, ReceiptPut
    <3>2. t.channel = {r \in s.channel : ~(r.code = c.code /\ r.user = c.user /\ r.tx = c.tx)} \cup {c}
      BY <3>1
    <3>3. Apart(t.channel)
      BY <2>3, <3>2, ApartPut
    <3>4. Recent(t.channel, gate, i)
      BY <2>1, <2>3, <3>1 DEF Recent
    <3>5. QED
      BY <2>1, <3>3, <3>4 DEF t
  <2> HIDE DEF P
  <2>6. QED
    BY <2>2, <2>4, <2>5, CallPays DEF Paid
<1>5. QED
  <2> HIDE DEF P
  <2>1. \A i \in 0 .. n : i \in P
    BY <1>1, <1>3, <1>4, Sums!UpTo
  <2>2. QED
    BY <2>1 DEF P, n

\* A gate of each code that a transaction goes through is called once in it.
OncePerCode ==
  \A gate \in Gates : \A i, j \in 1 .. Len(gate) : gate[i] = gate[j] => i = j

LEMMA OnceInSequences ==
  ASSUME OncePerCode, NEW gate \in GateSequences
  PROVE  \A i, j \in 1 .. Len(gate) : gate[i] = gate[j] => i = j
<1>1. CASE gate \in Gates
  BY <1>1 DEF OncePerCode
<1>2. CASE gate = Bridging
  BY <1>2 DEF Bridging
<1>3. QED
  BY <1>1, <1>2 DEF GateSequences

\* The next receipt of a transaction is then of a code that has none yet.
AddsReceipt(s, t, caller, code, fee) ==
  \E c : /\ c.code = code /\ c.user = caller /\ c.tx = txs + 1 /\ c.quantity = fee
         /\ c \notin s.channel /\ t.channel = s.channel \cup {c}

LEMMA NewReceipt ==
  ASSUME OncePerCode, txs \in Nat, NEW caller, NEW gate \in GateSequences, NEW i \in 1 .. Len(gate),
         NEW s \in GateStates, NEW t \in GateStates, NEW fee \in Nat \ {0},
         Receipted(s, t, caller, gate[i], fee), Recent(s.channel, gate, i - 1)
  PROVE  AddsReceipt(s, t, caller, gate[i], fee)
<1>1. gate \in Seq(Codes)
  BY GateSequencesType
<1>2. \A r \in s.channel : ~(r.code = gate[i] /\ r.tx = txs + 1)
  <2> SUFFICES ASSUME NEW r \in s.channel, r.code = gate[i], r.tx = txs + 1 PROVE FALSE
    OBVIOUS
  <2>1. PICK j \in 1 .. i - 1 : r.code = gate[j]
    BY DEF Recent
  <2>2. j \in 1 .. Len(gate) /\ j # i
    BY <1>1
  <2>3. QED
    BY <2>1, <2>2, OnceInSequences
<1> DEFINE code == gate[i]
<1> HIDE DEF code
<1>3. PICK c \in t.channel :
        /\ c.code = code /\ c.user = caller /\ c.tx = txs + 1 /\ c.quantity = fee
        /\ t.channel = {r \in s.channel : ~(r.code = code /\ r.user = caller /\ r.tx = txs + 1)} \cup {c}
  BY ReceiptPut DEF code
<1>4. QED
  BY <1>2, <1>3 DEF code, AddsReceipt

\* Receipts that are settled are as many as before, and say what they said.
SettledIn(channel, rs) == [r \in channel |-> IF r \in rs THEN Settled(r) ELSE r]

LEMMA SettlementKeeps ==
  ASSUME NEW tx, NEW channel \in SUBSET ChannelReceiptsOf(tx), Apart(channel),
         NEW rs \in SUBSET channel
  PROVE  LET new == (channel \ rs) \cup {Settled(r) : r \in rs}
             f   == SettledIn(channel, rs)
         IN  /\ new = {f[r] : r \in channel} /\ Apart(new)
             /\ \A r \in channel : /\ f[r].code = r.code /\ f[r].user = r.user /\ f[r].tx = r.tx
                                   /\ f[r].quantity = r.quantity
             /\ \A r, t \in channel : f[r] = f[t] => r = t
<1> DEFINE new == (channel \ rs) \cup {Settled(r) : r \in rs}
           f   == SettledIn(channel, rs)
<1>1. ASSUME NEW r \in channel
      PROVE  f[r].code = r.code /\ f[r].user = r.user /\ f[r].tx = r.tx /\ f[r].quantity = r.quantity
  BY SettledType DEF SettledIn
<1>2. new = {f[r] : r \in channel}
  BY DEF SettledIn
<1>3. DOMAIN f = channel
  BY DEF SettledIn
<1> HIDE DEF f, new
<1>4. \A r, t \in channel : f[r] = f[t] => r = t
  BY <1>1 DEF Apart
<1>5. IsFiniteSet(new)
  <2>1. f \in Surjection(channel, new)
    <3>1. f = [r \in channel |-> f[r]]
      BY <1>3 DEF f, SettledIn
    <3>2. \A r \in channel : f[r] \in new
      BY <1>2
    <3>3. f \in [channel -> new]
      BY <3>1, <3>2
    <3>4. QED
      BY <1>2, <3>3 DEF Surjection
  <2>2. QED
    BY <2>1, FS_Surjection DEF Apart
<1>6. Apart(new)
  BY <1>1, <1>2, <1>5 DEF Apart
<1>7. QED
  BY <1>1, <1>2, <1>4, <1>6 DEF f, new

-----------------------------------------------------------------------------
(* What was credited is pending, or was paid.                              *)

PendingOf(p, u) == IF u \in DOMAIN p THEN p[u] ELSE 0

PaidIn(channel, u) == {r \in channel : r.user = u /\ r.code \in CrossChannel}

CreditsOf(credits, u) == {a \in credits : a.authority = u}

AccountedIn(p, channel, credits) ==
  \A u \in Users : PendingOf(p, u) + Total(PaidIn(channel, u)) = Total(CreditsOf(credits, u))

LEMMA PaidCountable ==
  ASSUME NEW tx, NEW channel \in SUBSET ChannelReceiptsOf(tx), Apart(channel), NEW u
  PROVE  Countable(PaidIn(channel, u)) /\ Total(PaidIn(channel, u)) \in Int
<1>1. IsFiniteSet(PaidIn(channel, u))
  BY FS_Subset DEF PaidIn, Apart
<1>2. \A r \in PaidIn(channel, u) : r.quantity \in Int
  BY DEF PaidIn, ChannelReceiptsOf
<1>3. QED
  BY <1>1, <1>2, TotalType DEF Countable

LEMMA CallAccounts ==
  ASSUME OncePerCode, txs \in Nat, NEW caller \in Users, NEW active \in Users,
         NEW gate \in GateSequences, NEW i \in 1 .. Len(gate),
         NEW s \in GateStates, NEW t \in GateStates, GateCalled(s, t, caller, active, gate[i]),
         Apart(s.channel), Recent(s.channel, gate, i - 1),
         NEW credits, AccountedIn(s.pending, s.channel, credits)
  PROVE  AccountedIn(t.pending, t.channel, credits)
<1>1. CASE t.channel = s.channel /\ t.pending = s.pending
  BY <1>1
<1>2. ASSUME NEW fee \in Nat \ {0}, Paid(s, t, caller, gate[i], fee)
      PROVE  AccountedIn(t.pending, t.channel, credits)
  <2>1. Receipted(s, t, caller, gate[i], fee)
    BY <1>2 DEF Paid
  <2>2. PICK c : /\ c.code = gate[i] /\ c.user = caller /\ c.tx = txs + 1 /\ c.quantity = fee
                 /\ c \notin s.channel /\ t.channel = s.channel \cup {c}
    <3>1. AddsReceipt(s, t, caller, gate[i], fee)
      BY <2>1, NewReceipt
    <3>2. QED
      BY <3>1 DEF AddsReceipt
  <2> SUFFICES ASSUME NEW u \in Users
               PROVE  PendingOf(t.pending, u) + Total(PaidIn(t.channel, u)) = Total(CreditsOf(credits, u))
    BY DEF AccountedIn
  <2> DEFINE before == PaidIn(s.channel, u)
             after  == PaidIn(t.channel, u)
             p == PendingOf(s.pending, u)
             q == PendingOf(t.pending, u)
             credit == Total(CreditsOf(credits, u))
  <2>3. Countable(before) /\ Total(before) \in Int
    <3>1. s.channel \in SUBSET ChannelReceiptsOf(1 .. txs + 1)
      BY DEF GateStates
    <3>2. QED
      BY <3>1, PaidCountable
  <2>4. p + Total(before) = credit
    BY DEF AccountedIn
  <2>5. p \in Nat
    BY PendingType DEF PendingOf, GateStates
  <2>6. CASE gate[i] \in CrossChannel /\ u = caller
    <3>1. after = before \cup {c} /\ c \notin before
      BY <2>2, <2>6 DEF PaidIn
    <3> HIDE DEF before, after, p, q
    <3>2. Total(after) = Total(before) + fee
      BY <2>2, <2>3, <3>1, TotalAdd
    <3>3. q = p - fee
      <4>1. /\ caller \in DOMAIN s.pending
            /\ t.pending = [s.pending EXCEPT ![caller] = s.pending[caller] - fee]
        BY <1>2, <2>6 DEF Paid
      <4>2. DOMAIN t.pending = DOMAIN s.pending /\ t.pending[caller] = s.pending[caller] - fee
        BY <4>1
      <4>3. QED
        BY <2>6, <4>1, <4>2 DEF p, q, PendingOf
    <3>4. QED
      BY <2>3, <2>4, <2>5, <3>2, <3>3 DEF after, q
  <2>7. CASE ~(gate[i] \in CrossChannel /\ u = caller)
    <3>1. after = before
      BY <2>2, <2>7 DEF PaidIn
    <3>2. q = p
      <4>1. CASE gate[i] \notin CrossChannel
        BY <1>2, <4>1 DEF Paid
      <4>2. CASE gate[i] \in CrossChannel
        <5>1. t.pending = [s.pending EXCEPT ![caller] = s.pending[caller] - fee] /\ u # caller
          BY <1>2, <2>7, <4>2 DEF Paid
        <5>2. DOMAIN t.pending = DOMAIN s.pending
          BY <5>1
        <5>3. u \in DOMAIN s.pending => t.pending[u] = s.pending[u]
          BY <5>1
        <5>4. QED
          BY <5>2, <5>3 DEF PendingOf
      <4>3. QED
        BY <4>1, <4>2
    <3>3. QED
      BY <2>4, <3>1, <3>2
  <2>8. QED
    BY <2>6, <2>7
<1>3. QED
  BY <1>1, <1>2, CallPays

Accounts ==
  /\ Apart(channelReceipts) /\ IsFiniteSet(credited)
  /\ AccountedIn(pending, channelReceipts, credited)

LEMMA AccountsIsAccounted ==
  ASSUME Accounts
  PROVE  CreditIsAccounted
BY DEF Accounts, AccountedIn, CreditIsAccounted, PendingOf, Pending, PaidIn, PaidReceipts, CreditsOf

LEMMA GatedAccounts ==
  ASSUME OncePerCode, Typed, Accounts, IsGated
  PROVE  Accounts'
<1>1. PICK caller \in Users, active \in Users, gate \in GateSequences :
        \E run : GatedTransaction(run, caller, active, gate)
  BY DEF IsGated
<1>2. PICK run : GatedTransaction(run, caller, active, gate)
  BY <1>1
<1> DEFINE n == Len(gate)
           t == run[n]
           P == {i \in 0 .. n : AccountedIn(run[i].pending, run[i].channel, credited)}
<1>3. gate \in Seq(Codes) /\ txs \in Nat
  BY GateSequencesType, TypedIsTypeOK
<1>4. n \in Nat
  BY <1>3
<1>5. AfterGate(t) /\ Calls(run, caller, active, gate)
  BY <1>2 DEF GatedTransaction
<1>6. /\ run \in [0 .. n -> GateStates] /\ run[0] = BeforeGate
      /\ \A i \in 1 .. n : GateCalled(run[i - 1], run[i], caller, active, gate[i])
  BY <1>5 DEF Calls
<1>7. \A i \in 0 .. n : Apart(run[i].channel) /\ Recent(run[i].channel, gate, i)
  BY <1>3, <1>5, RunReceipts DEF Accounts
<1> HIDE DEF n
<1>8. 0 \in P
  BY <1>4, <1>6 DEF Accounts, BeforeGate
<1>9. ASSUME NEW i \in 1 .. n, i - 1 \in P PROVE i \in P
  <2> DEFINE s == run[i - 1]  w == run[i]
  <2>1. i \in 0 .. n /\ i - 1 \in 0 .. n
    BY <1>4
  <2>2. /\ s \in GateStates /\ w \in GateStates /\ GateCalled(s, w, caller, active, gate[i])
        /\ Apart(s.channel) /\ Recent(s.channel, gate, i - 1)
        /\ AccountedIn(s.pending, s.channel, credited)
    BY <1>6, <1>7, <1>9, <2>1
  <2> HIDE DEF s, w
  <2>3. AccountedIn(w.pending, w.channel, credited)
    BY <1>3, <2>2, CallAccounts DEF n
  <2>4. QED
    BY <2>1, <2>3 DEF w
<1>10. n \in P
  <2> HIDE DEF P
  <2>1. \A i \in 0 .. n : i \in P
    BY <1>4, <1>8, <1>9, Sums!UpTo
  <2>2. QED
    BY <1>4, <2>1
<1>11. pending' = t.pending /\ channelReceipts' = t.channel /\ credited' = credited
  BY <1>5 DEF AfterGate
<1>12. Apart(t.channel) /\ AccountedIn(t.pending, t.channel, credited)
  BY <1>4, <1>7, <1>10
<1> HIDE DEF t
<1>13. QED
  BY <1>11, <1>12 DEF Accounts

LEMMA AccountsNext ==
  ASSUME Calculable, OncePerCode, Typed, Accounts, Next
  PROVE  Accounts'
<1>1. CASE UNCHANGED <<pending, channelReceipts, credited>>
  BY <1>1 DEF Accounts
<1>2. ASSUME NEW a \in authorizations, CreditFeeBalance(a) PROVE Accounts'
  <2> DEFINE u == a.authority  q == a.quantity
  <2>1. /\ a \notin credited /\ credited' = credited \cup {a}
        /\ pending' = Put(pending, u, PendingOf(pending, u) + q)
        /\ UNCHANGED channelReceipts
    BY <1>2 DEF CreditFeeBalance, PendingOf, Pending
  <2>2. \A b \in credited : b.quantity \in Nat /\ q \in Nat /\ u \in Users
    BY FeesAssumption DEF Typed, AuthorizationsTyped, Authorizations
  <2>3. q \in Nat /\ u \in Users
    BY FeesAssumption DEF Typed, AuthorizationsTyped, Authorizations
  <2>4. Apart(channelReceipts') /\ IsFiniteSet(credited')
    BY <2>1, FS_AddElement DEF Accounts
  <2>5. ASSUME NEW v \in Users
        PROVE  PendingOf(pending', v) + Total(PaidIn(channelReceipts', v)) = Total(CreditsOf(credited', v))
    <3> DEFINE paid == Total(PaidIn(channelReceipts, v))
               before == CreditsOf(credited, v)
               p == PendingOf(pending, v)
    <3>1. paid \in Int
      BY PaidCountable DEF Accounts, Typed, ReceiptsTyped
    <3>2. p \in Nat
      BY PendingType DEF PendingOf, Typed, AmountsTyped
    <3>3. p + paid = Total(before)
      BY DEF Accounts, AccountedIn
    <3>4. Countable(before)
      <4>1. IsFiniteSet(before)
        BY FS_Subset DEF CreditsOf, Accounts
      <4>2. QED
        BY <2>2, <4>1 DEF Countable, CreditsOf
    <3>5. CASE v = u
      <4>1. CreditsOf(credited', v) = before \cup {a} /\ a \notin before
        BY <2>1, <3>5 DEF CreditsOf
      <4>2. PendingOf(pending', v) = p + q
        <5>1. PendingOf(pending', v) = Put(pending, u, p + q)[u]
          BY <2>1, <3>5 DEF PendingOf, Put
        <5>2. Put(pending, u, p + q)[u] = p + q
          BY DEF Put
        <5>3. QED
          BY <5>1, <5>2
      <4> HIDE DEF before, p, paid, q
      <4>3. Total(before \cup {a}) = Total(before) + q
        BY <2>3, <3>4, <4>1, TotalAdd DEF q
      <4>4. p + q + paid = Total(before) + q
        BY <2>3, <3>1, <3>2, <3>3
      <4>5. QED
        BY <2>1, <4>1, <4>2, <4>3, <4>4 DEF paid
    <3>6. CASE v # u
      <4>1. CreditsOf(credited', v) = before
        BY <2>1, <3>6 DEF CreditsOf
      <4>2. PendingOf(pending', v) = p
        BY <2>1, <3>6 DEF PendingOf, Put
      <4>3. QED
        BY <2>1, <3>3, <4>1, <4>2
    <3>7. QED
      BY <3>5, <3>6
  <2>6. QED
    BY <2>4, <2>5 DEF Accounts, AccountedIn
<1>3. ASSUME NEW keys, SettleFeePaymentReceipts(keys) PROVE Accounts'
  <2> DEFINE rs == {r \in channelReceipts : ChannelKey(r) \in keys}
             new == (channelReceipts \ rs) \cup {Settled(r) : r \in rs}
             f == SettledIn(channelReceipts, rs)
  <2>1. channelReceipts' = new /\ pending' = pending /\ credited' = credited
    BY <1>3 DEF SettleFeePaymentReceipts
  <2>2. channelReceipts \in SUBSET ChannelReceiptsOf(1 .. txs) /\ rs \in SUBSET channelReceipts
    BY DEF Typed, ReceiptsTyped
  <2>3. /\ new = {f[r] : r \in channelReceipts} /\ Apart(new)
        /\ \A r \in channelReceipts : /\ f[r].code = r.code /\ f[r].user = r.user /\ f[r].tx = r.tx
                                      /\ f[r].quantity = r.quantity
        /\ \A r, t \in channelReceipts : f[r] = f[t] => r = t
    <3> HIDE DEF rs
    <3>1. QED
      BY <2>2, SettlementKeeps DEF Accounts
  <2> HIDE DEF new, f, rs
  <2>4. ASSUME NEW u \in Users PROVE Total(PaidIn(new, u)) = Total(PaidIn(channelReceipts, u))
    <3> DEFINE paid == PaidIn(channelReceipts, u)
    <3>1. Countable(paid)
      BY <2>2, PaidCountable DEF Accounts
    <3>2. PaidIn(new, u) = {f[r] : r \in paid}
      BY <2>3 DEF PaidIn
    <3>3. /\ \A r \in paid : f[r].quantity = r.quantity
          /\ \A r, t \in paid : f[r] = f[t] => r = t
      BY <2>3 DEF PaidIn
    <3> HIDE DEF paid
    <3>4. Total({f[r] : r \in paid}) = Total(paid)
      BY <3>1, <3>3, TotalOfChanged
    <3>5. QED
      BY <3>2, <3>4 DEF paid
  <2>5. AccountedIn(pending, new, credited)
    BY <2>4 DEF Accounts, AccountedIn
  <2>6. QED
    BY <2>1, <2>3, <2>5 DEF Accounts
<1>4. CASE \E caller, active \in Users, gate \in Gates : FeeGate(caller, active, gate)
  <2>1. IsGated
    BY <1>4, BeforeGateType, TransactionsAreGated DEF GateSequences
  <2>2. QED
    BY <2>1, GatedAccounts
<1>5. CASE \E caller \in Users, a \in BridgeAssertions, now \in Times : RequestTokenBridgeOut(caller, a, now)
  <2>1. IsGated
    BY <1>5, BeforeGateType, TransactionsAreGated
  <2>2. QED
    BY <2>1, GatedAccounts
<1>6. CASE NextFees
  <2>1. CASE \E dto \in FeeVerificationDtos : CreditFeeBalance(dto)
    BY <1>2, <2>1 DEF FeeVerificationDtos
  <2>2. CASE \E keys \in ChannelReceiptKeys : SettleFeePaymentReceipts(keys)
    BY <1>3, <2>2
  <2>3. QED
    BY <1>1, <1>6, <2>1, <2>2
       DEF NextFees, AuthorizeFee, AuthorizeExemptionForUser, RevokeExemptionForUser,
           ResetFeeThresholdUses, SettleFeeBalances, SettleFeeCreditReceipts
<1>7. CASE UNCHANGED feeVars
  BY <1>1, <1>7 DEF feeVars
<1>8. QED
  BY <1>4, <1>5, <1>6, <1>7 DEF Next

LEMMA AccountsInit ==
  ASSUME Init
  PROVE  Accounts
<1>1. Apart({}) /\ IsFiniteSet({})
  BY FS_EmptySet DEF Apart
<1>2. \A u : PaidIn({}, u) = {} /\ CreditsOf({}, u) = {} /\ PendingOf(<< >>, u) = 0
  BY DEF PaidIn, CreditsOf, PendingOf
<1>3. AccountedIn(<< >>, {}, {})
  BY <1>2, TotalOfNone DEF AccountedIn
<1>4. QED
  BY <1>1, <1>3 DEF Init, Accounts

LEMMA AccountsUnchanged ==
  ASSUME Accounts, UNCHANGED vars
  PROVE  Accounts'
BY DEF Accounts, vars

LEMMA AccountsAlways ==
  ASSUME Calculable, OncePerCode
  PROVE  Spec => []Accounts
<1>1. Init => Accounts
  BY AccountsInit
<1>2. Typed /\ Accounts /\ [Next]_vars => Accounts'
  BY AccountsNext, AccountsUnchanged
<1>3. QED
  BY <1>1, <1>2, TypedAlways, PTL DEF Spec

(***************************************************************************)
(* What a user was credited is pending or was paid, whatever else was      *)
(* done with the receipts: if no transaction goes twice through the gate   *)
(* of a code, whose second receipt would take the place of the first.      *)
(***************************************************************************)
THEOREM CreditAccounted ==
  ASSUME Calculable, OncePerCode
  PROVE  Spec => []CreditIsAccounted
<1>1. Accounts => CreditIsAccounted
  BY AccountsIsAccounted
<1>2. QED
  BY <1>1, AccountsAlways, PTL

-----------------------------------------------------------------------------
(* The fees of the recorded uses are those of the schedule.                *)

FeesOf(code) == [n \in Nat |-> CalculateFeeAmount(Schedule[code], n)]

\* Whose uses these are does not matter.
OnSchedule(stored) ==
  \A k \in DOMAIN stored :
    /\ \A n \in 1 .. stored[k].uses : FeesOf(k[1])[n] \in Int
    /\ stored[k].fees = SumFunctionOnSet(FeesOf(k[1]), 1 .. stored[k].uses)

LEMMA NoUseNoFee ==
  ASSUME NEW f
  PROVE  SumFunctionOnSet(f, 1 .. 0) = 0
<1>1. \A i \in 1 .. 0 : f[i] \in Int
  OBVIOUS
<1>2. QED
  BY <1>1, SumUpTo

LEMMA OneMoreUse ==
  ASSUME NEW code \in Codes, NEW n \in Nat, NEW fees,
         \A i \in 1 .. n : FeesOf(code)[i] \in Int,
         fees = SumFunctionOnSet(FeesOf(code), 1 .. n),
         CalculateFeeAmount(Schedule[code], n + 1) \in Int
  PROVE  /\ \A i \in 1 .. n + 1 : FeesOf(code)[i] \in Int
         /\ fees + CalculateFeeAmount(Schedule[code], n + 1)
              = SumFunctionOnSet(FeesOf(code), 1 .. n + 1)
<1> DEFINE f == FeesOf(code)
<1>1. f[n + 1] = CalculateFeeAmount(Schedule[code], n + 1)
  BY DEF FeesOf
<1> HIDE DEF f
<1>2. \A i \in 1 .. n + 1 : f[i] \in Int
  <2>1. \A i \in 1 .. n + 1 : i = n + 1 \/ i \in 1 .. n
    OBVIOUS
  <2>2. QED
    BY <1>1, <2>1 DEF f
<1>3. SumFunctionOnSet(f, 1 .. n + 1) = SumFunctionOnSet(f, 1 .. (n + 1) - 1) + f[n + 1]
  <2>1. n + 1 \in Nat /\ n + 1 \in 1 .. n + 1
    OBVIOUS
  <2>2. QED
    BY <1>2, <2>1, SumUpTo
<1>4. (n + 1) - 1 = n
  OBVIOUS
<1>5. QED
  BY <1>1, <1>2, <1>3, <1>4 DEF f

LEMMA UseOnSchedule ==
  ASSUME NEW s \in GateStates, NEW w \in GateStates, NEW active \in Users, NEW code \in Codes,
         UsageWritten(s, w, active, code), OnSchedule(s.uses)
  PROVE  OnSchedule(w.uses)
<1> DEFINE k == <<code, active>>
           old == FetchFeeThresholdUses(s.uses, code, active)
           fee == CalculateFeeAmount(Schedule[code], old.uses + 1)
           new == [uses |-> old.uses + 1, fees |-> old.fees + fee]
<1>1. old \in [uses : Nat, fees : Nat]
  <2>1. s.uses \in ThresholdUses
    BY DEF GateStates
  <2>2. QED
    BY <2>1, UsesType
<1>2. w.uses = Put(s.uses, k, new) /\ fee \in Int
  BY DEF UsageWritten, UsageFee, NextUse
<1>3. /\ \A i \in 1 .. old.uses : FeesOf(code)[i] \in Int
      /\ old.fees = SumFunctionOnSet(FeesOf(code), 1 .. old.uses)
  <2>1. CASE k \in DOMAIN s.uses
    <3>1. old = s.uses[k] /\ k[1] = code
      BY <2>1 DEF FetchFeeThresholdUses
    <3> HIDE DEF k, old
    <3>2. QED
      BY <2>1, <3>1 DEF OnSchedule
  <2>2. CASE k \notin DOMAIN s.uses
    <3>1. old = [uses |-> 0, fees |-> 0]
      BY <2>2 DEF FetchFeeThresholdUses
    <3>2. old.uses = 0 /\ old.fees = 0
      BY <3>1
    <3> HIDE DEF old
    <3>3. QED
      BY <3>2, NoUseNoFee
  <2>3. QED
    BY <2>1, <2>2
<1> HIDE DEF old
<1>4. old.uses \in Nat
  BY <1>1
<1>5. /\ \A i \in 1 .. old.uses + 1 : FeesOf(code)[i] \in Int
      /\ old.fees + fee = SumFunctionOnSet(FeesOf(code), 1 .. old.uses + 1)
  BY <1>2, <1>3, <1>4, OneMoreUse
<1>6. new.uses = old.uses + 1 /\ new.fees = old.fees + fee
  OBVIOUS
<1>7. k[1] = code
  OBVIOUS
<1> HIDE DEF new, k, fee
<1>8. DOMAIN w.uses = DOMAIN s.uses \cup {k} /\ w.uses[k] = new
      /\ \A j \in DOMAIN s.uses : j # k => w.uses[j] = s.uses[j]
  BY <1>2 DEF Put
<1>9. ASSUME NEW j \in DOMAIN w.uses
      PROVE  /\ \A n \in 1 .. w.uses[j].uses : FeesOf(j[1])[n] \in Int
             /\ w.uses[j].fees = SumFunctionOnSet(FeesOf(j[1]), 1 .. w.uses[j].uses)
  <2>1. CASE j = k
    BY <1>5, <1>6, <1>7, <1>8, <2>1
  <2>2. CASE j # k
    BY <1>8, <2>2 DEF OnSchedule
  <2>3. QED
    BY <2>1, <2>2
<1>10. QED
  BY <1>9 DEF OnSchedule

\* A transaction that went through gates leaves the uses of the last of its states.
LEMMA GatedOnSchedule ==
  ASSUME Typed, IsGated, OnSchedule(uses)
  PROVE  OnSchedule(uses')
<1>1. PICK caller \in Users, active \in Users, gate \in GateSequences :
        \E run : GatedTransaction(run, caller, active, gate)
  BY DEF IsGated
<1>2. PICK run : GatedTransaction(run, caller, active, gate)
  BY <1>1
<1> DEFINE n == Len(gate)
           P == {i \in 0 .. n : OnSchedule(run[i].uses)}
<1>3. gate \in Seq(Codes)
  BY GateSequencesType
<1>4. n \in Nat
  BY <1>3
<1>5. AfterGate(run[n]) /\ Calls(run, caller, active, gate)
  BY <1>2 DEF GatedTransaction
<1>6. /\ run \in [0 .. n -> GateStates] /\ run[0] = BeforeGate
      /\ \A i \in 1 .. n : gate[i] \in Codes /\ GateCalled(run[i - 1], run[i], caller, active, gate[i])
  BY <1>3, <1>5 DEF Calls
<1> HIDE DEF n
<1>7. 0 \in P
  BY <1>4, <1>6 DEF BeforeGate
<1>8. ASSUME NEW i \in 1 .. n, i - 1 \in P PROVE i \in P
  <2> DEFINE s == run[i - 1]  t == run[i]
  <2>1. i \in 0 .. n /\ i - 1 \in 0 .. n
    BY <1>4
  <2>2. /\ s \in GateStates /\ t \in GateStates /\ gate[i] \in Codes
        /\ GateCalled(s, t, caller, active, gate[i]) /\ OnSchedule(s.uses)
    BY <1>6, <1>8, <2>1
  <2> HIDE DEF s, t
  <2>3. OnSchedule(t.uses)
    <3>1. CASE t = s
      BY <2>2, <3>1
    <3>2. ASSUME NEW w \in GateStates, NEW fee \in Int, UsageWritten(s, w, active, gate[i]),
                 Charged(w, t, caller, gate[i], fee)
          PROVE  OnSchedule(t.uses)
      <4>1. OnSchedule(w.uses)
        BY <2>2, <3>2, UseOnSchedule
      <4>2. t.uses = w.uses
        BY <3>2 DEF Charged
      <4>3. QED
        BY <4>1, <4>2
    <3>3. QED
      BY <2>2, <3>1, <3>2 DEF GateCalled
  <2>4. QED
    BY <2>1, <2>3 DEF t
<1>9. n \in P
  <2> HIDE DEF P
  <2>1. \A i \in 0 .. n : i \in P
    BY <1>4, <1>7, <1>8, Sums!UpTo
  <2>2. QED
    BY <1>4, <2>1
<1>10. uses' = run[n].uses
  BY <1>5 DEF AfterGate
<1>11. QED
  BY <1>9, <1>10

LEMMA ScheduleNext ==
  ASSUME Calculable, Typed, OnSchedule(uses), Next
  PROVE  OnSchedule(uses')
<1>1. CASE UNCHANGED uses
  BY <1>1
<1>2. ASSUME NEW keys, ResetFeeThresholdUses(keys) PROVE OnSchedule(uses')
  <2>1. uses' = [k \in DOMAIN uses |-> IF k \in keys THEN [uses |-> 0, fees |-> 0] ELSE uses[k]]
    BY <1>2 DEF ResetFeeThresholdUses
  <2>2. ASSUME NEW k \in DOMAIN uses'
        PROVE  /\ \A n \in 1 .. uses'[k].uses : FeesOf(k[1])[n] \in Int
               /\ uses'[k].fees = SumFunctionOnSet(FeesOf(k[1]), 1 .. uses'[k].uses)
    <3>1. CASE k \in keys
      <4>1. uses'[k].uses = 0 /\ uses'[k].fees = 0
        BY <2>1, <2>2, <3>1
      <4>2. QED
        BY <4>1, NoUseNoFee
    <3>2. CASE k \notin keys
      <4>1. uses'[k] = uses[k] /\ k \in DOMAIN uses
        BY <2>1, <2>2, <3>2
      <4>2. QED
        BY <4>1 DEF OnSchedule
    <3>3. QED
      BY <3>1, <3>2
  <2>3. QED
    BY <2>2 DEF OnSchedule
<1>3. CASE \E caller, active \in Users, gate \in Gates : FeeGate(caller, active, gate)
  <2>1. IsGated
    BY <1>3, BeforeGateType, TransactionsAreGated DEF GateSequences
  <2>2. QED
    BY <2>1, GatedOnSchedule
<1>4. CASE \E caller \in Users, a \in BridgeAssertions, now \in Times : RequestTokenBridgeOut(caller, a, now)
  <2>1. IsGated
    BY <1>4, BeforeGateType, TransactionsAreGated
  <2>2. QED
    BY <2>1, GatedOnSchedule
<1>5. CASE NextFees
  <2>1. CASE \E keys \in ThresholdUsesKeys : ResetFeeThresholdUses(keys)
    BY <1>2, <2>1
  <2>2. QED
    BY <1>1, <1>5, <2>1
       DEF NextFees, AuthorizeFee, AuthorizeExemptionForUser, RevokeExemptionForUser,
           CreditFeeBalance, SettleFeeBalances, SettleFeeCreditReceipts, SettleFeePaymentReceipts
<1>6. CASE UNCHANGED feeVars
  BY <1>1, <1>6 DEF feeVars
<1>7. QED
  BY <1>3, <1>4, <1>5, <1>6 DEF Next

\* The pages of a query without any field are all the definitions.
LEMMA ScheduleIsFetched ==
  ASSUME IsFiniteSet(DefinitionKeys), Undefined \notin DefinitionKeys,
         NEW code \in Codes, NEW limit \in PageLimits
  PROVE  FetchedSchedule[code][limit] = Schedule[code]
<1> DEFINE keys == UNION {AllPages(DefinitionKeys, FetchFeeSchedule(q), limit) :
                            q \in FetchFeeScheduleDtos({code})}
           q == [feeCode |-> Undefined, threshold |-> Undefined]
           fields == <<Undefined, Undefined>>
<1>1. q \in FetchFeeScheduleDtos({code}) /\ FetchFeeSchedule(q) = fields
  BY DEF FetchFeeScheduleDtos, FetchFeeSchedule, Optional
<1>2. TakeUntilUndefined(fields) = << >>
  <2> DEFINE N == {n \in 0 .. Len(fields) : \A i \in 1 .. n : fields[i] # Undefined}
  <2>1. N = {0}
    <3>1. Len(fields) = 2 /\ fields[1] = Undefined
      OBVIOUS
    <3> HIDE DEF fields
    <3>2. QED
      BY <3>1
  <2>2. Max({0}) = 0
    BY DEF Max
  <2>3. SubSeq(fields, 1, 0) = << >>
    OBVIOUS
  <2>4. QED
    BY <2>1, <2>2, <2>3 DEF TakeUntilUndefined
<1>3. AllPages(DefinitionKeys, fields, limit) \subseteq keys
  BY <1>1
<1>4. Matching(DefinitionKeys, fields) \subseteq AllPages(DefinitionKeys, fields, limit)
  <2>1. limit \in Nat \ {0}
    BY FeesAssumption
  <2> HIDE DEF fields
  <2>2. QED
    BY <2>1, PagesCover
<1>5. ASSUME NEW d \in Schedule[code] PROVE <<code, d.threshold>> \in Matching(DefinitionKeys, fields)
  <2>1. <<code, d.threshold>> \in DefinitionKeys
    BY DEF DefinitionKeys
  <2>2. IsPrefix(<< >>, <<code, d.threshold>>)
    BY DEF IsPrefix
  <2>3. QED
    BY <1>2, <2>1, <2>2 DEF Matching
<1> HIDE DEF keys, fields
<1>6. \A d \in Schedule[code] : <<code, d.threshold>> \in keys
  BY <1>3, <1>4, <1>5
<1>7. FetchedSchedule[code][limit] = {d \in Schedule[code] : <<code, d.threshold>> \in keys}
  <2> DEFINE Fetched(c, l) ==
               {d \in Schedule[c] :
                  <<c, d.threshold>> \in UNION {AllPages(DefinitionKeys, FetchFeeSchedule(r), l) :
                                                  r \in FetchFeeScheduleDtos({c})}}
  <2>1. FetchedSchedule = [c \in Codes |-> [l \in PageLimits |-> Fetched(c, l)]]
    BY DEF FetchedSchedule
  <2>2. Fetched(code, limit) = {d \in Schedule[code] : <<code, d.threshold>> \in keys}
    BY DEF keys
  <2> HIDE DEF Fetched
  <2>3. QED
    BY <2>1, <2>2
<1>8. QED
  BY <1>6, <1>7

LEMMA OnScheduleIsReported ==
  ASSUME IsFiniteSet(DefinitionKeys), Undefined \notin DefinitionKeys, Typed, OnSchedule(uses)
  PROVE  FeesFollowSchedule
<1> SUFFICES ASSUME NEW code \in Codes, NEW user \in Users, NEW limit \in PageLimits
             PROVE  LET fetched == FetchFeeThresholdUses(uses, code, user)
                        Fee(n)  == CalculateFeeAmount(FetchedSchedule[code][limit], n)
                    IN  fetched.fees = SumFunction([n \in 1 .. fetched.uses |-> Fee(n)])
  BY DEF FeesFollowSchedule
<1> DEFINE fetched == FetchFeeThresholdUses(uses, code, user)
           n == fetched.uses
           f == FeesOf(code)
           g == [i \in 1 .. n |-> CalculateFeeAmount(FetchedSchedule[code][limit], i)]
<1>1. n \in Nat
  <2>1. fetched \in [uses : Nat, fees : Nat]
    BY UsesType DEF Typed, AmountsTyped
  <2> HIDE DEF fetched
  <2>2. QED
    BY <2>1
<1>2. (\A i \in 1 .. n : f[i] \in Int) /\ fetched.fees = SumFunctionOnSet(f, 1 .. n)
  <2> DEFINE k == <<code, user>>
  <2>1. CASE k \in DOMAIN uses
    <3>1. fetched = uses[k] /\ k[1] = code
      BY <2>1 DEF FetchFeeThresholdUses
    <3> HIDE DEF k, fetched
    <3>2. QED
      BY <2>1, <3>1 DEF OnSchedule
  <2>2. CASE k \notin DOMAIN uses
    <3>1. fetched = [uses |-> 0, fees |-> 0]
      BY <2>2 DEF FetchFeeThresholdUses
    <3>2. fetched.uses = 0 /\ fetched.fees = 0
      BY <3>1
    <3> HIDE DEF fetched, f
    <3>3. QED
      BY <3>2, NoUseNoFee
  <2>3. QED
    BY <2>1, <2>2
<1> HIDE DEF n
<1>3. \A i \in 1 .. n : g[i] = f[i]
  <2>1. FetchedSchedule[code][limit] = Schedule[code]
    BY ScheduleIsFetched
  <2> DEFINE Fee(i) == CalculateFeeAmount(Schedule[code], i)
  <2>2. f = [i \in Nat |-> Fee(i)] /\ g = [i \in 1 .. n |-> Fee(i)]
    BY <2>1 DEF FeesOf
  <2> HIDE DEF Fee, f, g
  <2>3. QED
    BY <1>1, <2>2
<1>4. DOMAIN g = 1 .. n
  OBVIOUS
<1> HIDE DEF f, g
<1>5. Summable(f, 1 .. n)
  BY <1>1, <1>2, FS_Interval DEF Summable
<1>6. SumFunctionOnSet(f, 1 .. n) = SumFunctionOnSet(g, 1 .. n)
  BY <1>3, <1>5, SumAgrees
<1>7. SumFunction(g) = SumFunctionOnSet(g, 1 .. n)
  BY <1>4 DEF SumFunction
<1>8. QED
  BY <1>2, <1>6, <1>7 DEF n, g

(***************************************************************************)
(* The fees that are reported of any user are those that the fetched       *)
(* schedule asks for the uses that are reported, in pages of any size:     *)
(* there are finitely many definitions, and none is the bookmark of the    *)
(* end.                                                                    *)
(***************************************************************************)
THEOREM FeesAsScheduled ==
  ASSUME Calculable, IsFiniteSet(DefinitionKeys), Undefined \notin DefinitionKeys
  PROVE  Spec => []FeesFollowSchedule
<1>1. Init => OnSchedule(uses)
  BY DEF Init, OnSchedule
<1>2. Typed /\ OnSchedule(uses) /\ [Next]_vars => OnSchedule(uses)'
  <2>1. UNCHANGED vars /\ OnSchedule(uses) => OnSchedule(uses)'
    BY DEF vars, OnSchedule
  <2>2. QED
    BY <2>1, ScheduleNext
<1>3. Typed /\ OnSchedule(uses) => FeesFollowSchedule
  BY OnScheduleIsReported
<1>4. QED
  BY <1>1, <1>2, <1>3, TypedAlways, PTL DEF Spec

-----------------------------------------------------------------------------
(* Receipts of earlier transactions stay, and those of bridge requests say *)
(* that the gas was paid.                                                  *)

LEMMA ReceiptsStay ==
  ASSUME Typed, IsGated
  PROVE  channelReceipts \subseteq channelReceipts' /\ txs' = txs + 1
<1>1. PICK caller \in Users, active \in Users, gate \in GateSequences :
        \E run : GatedTransaction(run, caller, active, gate)
  BY DEF IsGated
<1>2. PICK run : GatedTransaction(run, caller, active, gate)
  BY <1>1
<1> DEFINE n == Len(gate)
           P == {i \in 0 .. n : channelReceipts \subseteq run[i].channel}
<1>3. gate \in Seq(Codes) /\ txs \in Nat
  BY GateSequencesType, TypedIsTypeOK
<1>4. n \in Nat
  BY <1>3
<1>5. AfterGate(run[n]) /\ Calls(run, caller, active, gate)
  BY <1>2 DEF GatedTransaction
<1>6. /\ run \in [0 .. n -> GateStates] /\ run[0] = BeforeGate
      /\ \A i \in 1 .. n : GateCalled(run[i - 1], run[i], caller, active, gate[i])
  BY <1>5 DEF Calls
<1> HIDE DEF n
<1>7. 0 \in P
  BY <1>4, <1>6 DEF BeforeGate
<1>8. ASSUME NEW i \in 1 .. n, i - 1 \in P PROVE i \in P
  <2> DEFINE s == run[i - 1]  t == run[i]
  <2>1. i \in 0 .. n /\ i - 1 \in 0 .. n
    BY <1>4
  <2>2. /\ s \in GateStates /\ t \in GateStates /\ GateCalled(s, t, caller, active, gate[i])
        /\ channelReceipts \subseteq s.channel
    BY <1>6, <1>8, <2>1
  <2> HIDE DEF s, t
  <2>3. channelReceipts \subseteq t.channel
    <3>1. CASE t.channel = s.channel
      BY <2>2, <3>1
    <3>2. ASSUME NEW fee \in Nat \ {0}, Receipted(s, t, caller, gate[i], fee)
          PROVE  channelReceipts \subseteq t.channel
      <4> DEFINE code == gate[i]
      <4> HIDE DEF code
      <4>1. PICK c \in t.channel :
              /\ c.code = code /\ c.user = caller /\ c.tx = txs + 1 /\ c.quantity = fee
              /\ t.channel = {r \in s.channel : ~(r.code = code /\ r.user = caller /\ r.tx = txs + 1)} \cup {c}
        BY <1>3, <2>2, <3>2, ReceiptPut DEF code
      <4>2. \A r \in channelReceipts : r.tx # txs + 1
        BY <1>3 DEF Typed, ReceiptsTyped, ChannelReceiptsOf
      <4>3. QED
        BY <2>2, <4>1, <4>2
    <3>3. QED
      BY <2>2, <3>1, <3>2, CallPays DEF Paid
  <2>4. QED
    BY <2>1, <2>3 DEF t
<1>9. n \in P
  <2> HIDE DEF P
  <2>1. \A i \in 0 .. n : i \in P
    BY <1>4, <1>7, <1>8, Sums!UpTo
  <2>2. QED
    BY <1>4, <2>1
<1>10. QED
  BY <1>5, <1>9 DEF AfterGate, NextTx

\* The fee for a bridge request is not negative, and the gas is multiplied by 1 at least.
GasIsCharged ==
  /\ \A n \in Nat : CalculateFeeAmount(Schedule[BridgeTokenOut], n) \in Nat \cup {MinusInfinity}
  /\ \A d \in Schedule[BridgeTokenOut] : d.rateType = "Custom" => d.rate >= 1

PaysGas(b, receipts) ==
  b.gas > 0 => \E r \in receipts : r.tx = b.tx /\ r.code = BridgeTokenOut /\ r.quantity >= b.gas

LEMMA BridgeOutPaysGas ==
  ASSUME Calculable, GasIsCharged, Typed, NEW caller \in Users, NEW a \in BridgeAssertions, NEW now,
         BridgeOut(caller, a, now)
  PROVE  a.gas > 0 =>
           \E r \in channelReceipts' :
             r.tx = txs + 1 /\ r.code = BridgeTokenOut /\ r.quantity >= a.gas
<1> SUFFICES ASSUME a.gas > 0
             PROVE  \E r \in channelReceipts' :
                      r.tx = txs + 1 /\ r.code = BridgeTokenOut /\ r.quantity >= a.gas
  OBVIOUS
<1> DEFINE fee == UsageFee(BeforeGate, caller, BridgeTokenOut)
           next == NextUse(BeforeGate, caller, BridgeTokenOut)
           padding == Padding(next)
           charge == GasFee(BeforeGate, caller, a)
<1>1. txs \in Nat /\ BeforeGate \in GateStates /\ BridgeTokenOut \in Codes /\ a.gas \in Nat
  BY BeforeGateType, FeesAssumption, OracleAssumption DEF OracleBridgeFeeAssertionDtos
<1>2. PICK w \in GateStates, t \in GateStates :
        /\ UsageWritten(BeforeGate, w, caller, BridgeTokenOut)
        /\ GasFee(BeforeGate, caller, a) \in Int
        /\ Charged(w, t, caller, BridgeTokenOut, GasFee(BeforeGate, caller, a))
        /\ AfterGate(t)
  BY <1>1, BridgeOutCalls
<1>3. next \in Nat
  <2>1. BeforeGate.uses \in ThresholdUses
    BY <1>1 DEF GateStates
  <2>2. FetchFeeThresholdUses(BeforeGate.uses, BridgeTokenOut, caller) \in [uses : Nat, fees : Nat]
    BY <1>1, <2>1, UsesType
  <2>3. QED
    BY <2>2 DEF NextUse
<1>4. fee \in Nat
  <2>1. fee = CalculateFeeAmount(Schedule[BridgeTokenOut], next) /\ fee \in Int
    BY <1>2 DEF UsageFee, UsageWritten
  <2> HIDE DEF fee, next
  <2>2. QED
    BY <1>3, <2>1 DEF GasIsCharged, Calculable
<1>5. padding \in Int /\ padding >= 1
  <2> HIDE DEF next
  <2>1. QED
    BY <1>3, PaddingType DEF GasIsCharged
<1>6. charge = fee + a.gas * padding
  BY DEF GasFee
<1> HIDE DEF fee, padding, next, charge
<1> DEFINE gas == a.gas
<1> HIDE DEF gas
<1>7. charge \in Nat \ {0} /\ charge >= gas
  <2>1. gas \in Nat /\ gas > 0
    BY <1>1 DEF gas
  <2>2. gas * padding \in Int /\ gas * padding >= gas
    BY <1>5, <2>1
  <2>3. QED
    BY <1>4, <1>6, <2>1, <2>2 DEF gas
<1>8. Receipted(w, t, caller, BridgeTokenOut, charge)
  BY <1>2, <1>7 DEF Charged, charge
<1>9. PICK c \in t.channel :
        /\ c.code = BridgeTokenOut /\ c.user = caller /\ c.tx = txs + 1 /\ c.quantity = charge
        /\ t.channel = {r \in w.channel : ~(r.code = BridgeTokenOut /\ r.user = caller /\ r.tx = txs + 1)} \cup {c}
  BY <1>1, <1>7, <1>8, ReceiptPut
<1>10. channelReceipts' = t.channel
  BY <1>2 DEF AfterGate
<1>11. QED
  BY <1>7, <1>9, <1>10 DEF gas

\* Of the bridge requests so far.
Gassed ==
  \A b \in bridgeFees : b.tx \in 0 .. txs /\ PaysGas(b, channelReceipts)

LEMMA GatedGassed ==
  ASSUME Typed, Gassed, IsGated
  PROVE  \A b \in bridgeFees : b.tx \in 0 .. txs' /\ PaysGas(b, channelReceipts')
<1>1. channelReceipts \subseteq channelReceipts' /\ txs' = txs + 1 /\ txs \in Nat
  BY ReceiptsStay, TypedIsTypeOK
<1>2. QED
  BY <1>1 DEF Gassed, PaysGas

LEMMA GassedNext ==
  ASSUME Calculable, GasIsCharged, Typed, Gassed, Next
  PROVE  Gassed'
<1>1. txs \in Nat
  BY TypedIsTypeOK
<1>2. CASE UNCHANGED <<bridgeFees, channelReceipts>> /\ txs' \in {txs, txs + 1}
  BY <1>1, <1>2 DEF Gassed, PaysGas
<1>3. ASSUME NEW keys, SettleFeePaymentReceipts(keys), UNCHANGED bridgeFees PROVE Gassed'
  <2> DEFINE rs == {r \in channelReceipts : ChannelKey(r) \in keys}
  <2>1. channelReceipts' = (channelReceipts \ rs) \cup {Settled(r) : r \in rs} /\ txs' = txs
    BY <1>3 DEF SettleFeePaymentReceipts
  <2>2. channelReceipts \subseteq ChannelReceiptsOf(1 .. txs)
    BY DEF Typed, ReceiptsTyped
  <2> HIDE DEF rs
  <2>3. ASSUME NEW r \in channelReceipts
        PROVE  \E t \in channelReceipts' : t.tx = r.tx /\ t.code = r.code /\ t.quantity = r.quantity
    <3>1. CASE r \in rs
      <4>1. Settled(r) \in channelReceipts'
        BY <2>1, <3>1
      <4>2. QED
        BY <2>2, <4>1, SettledType
    <3>2. CASE r \notin rs
      BY <2>1, <3>2
    <3>3. QED
      BY <3>1, <3>2
  <2>4. QED
    BY <1>3, <2>1, <2>3 DEF Gassed, PaysGas
<1>4. ASSUME NEW caller \in Users, NEW active \in Users, NEW gate \in GateSequences,
             FeeGate(caller, active, gate)
      PROVE  Gassed'
  <2>1. IsGated
    BY <1>4, BeforeGateType, TransactionsAreGated
  <2>2. bridgeFees' = bridgeFees
    BY <1>4 DEF FeeGate, oracleVars
  <2>3. QED
    BY <2>1, <2>2, GatedGassed DEF Gassed
<1>5. ASSUME NEW caller \in Users, NEW a \in BridgeAssertions, NEW now \in Times,
             BridgeOut(caller, a, now)
      PROVE  Gassed'
  <2> DEFINE b == [signingIdentity |-> a.signingIdentity, tx |-> txs', gas |-> a.gas]
  <2>1. IsGated
    BY <1>5, BeforeGateType, TransactionsAreGated DEF RequestTokenBridgeOut
  <2>2. \A d \in bridgeFees : d.tx \in 0 .. txs' /\ PaysGas(d, channelReceipts')
    BY <2>1, GatedGassed
  <2>3. bridgeFees' = bridgeFees \cup {b} /\ txs' = txs + 1
    BY <1>5, <2>1, ReceiptsStay DEF BridgeOut, PutBridgeFee
  <2>4. b.tx = txs' /\ b.gas = a.gas
    OBVIOUS
  <2> HIDE DEF b
  <2>5. b.tx \in 0 .. txs' /\ PaysGas(b, channelReceipts')
    BY <1>1, <1>5, <2>3, <2>4, BridgeOutPaysGas DEF PaysGas
  <2>6. QED
    BY <2>2, <2>3, <2>5 DEF Gassed
<1>6. CASE \E caller, active \in Users, gate \in Gates : FeeGate(caller, active, gate)
  BY <1>4, <1>6 DEF GateSequences
<1>7. CASE \E caller \in Users, a \in BridgeAssertions, now \in Times : RequestTokenBridgeOut(caller, a, now)
  BY <1>4, <1>5, <1>7 DEF RequestTokenBridgeOut, GateSequences, Bridging
<1>8. CASE NextFees /\ UNCHANGED oracleVars
  <2>1. UNCHANGED bridgeFees
    BY <1>8 DEF oracleVars
  <2>2. CASE \E keys \in ChannelReceiptKeys : SettleFeePaymentReceipts(keys)
    BY <1>3, <2>1, <2>2
  <2>3. QED
    BY <1>2, <1>8, <2>1, <2>2
       DEF NextFees, AuthorizeFee, AuthorizeExemptionForUser, RevokeExemptionForUser, NextTx,
           ResetFeeThresholdUses, CreditFeeBalance, SettleFeeBalances, SettleFeeCreditReceipts
<1>9. CASE NextOracle /\ UNCHANGED feeVars
  BY <1>2, <1>9 DEF NextOracle, feeVars, NextTx, SaveOracleDefinition, DeleteOracleDefinition,
                    SaveOraclePriceAssertion, DeleteOraclePriceAssertions
<1>10. QED
  BY <1>6, <1>7, <1>8, <1>9 DEF Next

(***************************************************************************)
(* A request that an assertion let through has paid the gas, whichever     *)
(* definition the uses have reached: unless a fee may be negative, or a    *)
(* Custom definition gives gas away.                                       *)
(***************************************************************************)
THEOREM GasPaid ==
  ASSUME Calculable, GasIsCharged
  PROVE  Spec => []GasIsPaid
<1>1. Init => Gassed
  BY DEF Init, InitOracle, Gassed
<1>2. Typed /\ Gassed /\ [Next]_vars => Gassed'
  <2>1. UNCHANGED vars /\ Gassed => Gassed'
    BY DEF vars, oracleVars, Gassed, PaysGas
  <2>2. QED
    BY <2>1, GassedNext
<1>3. Gassed => GasIsPaid
  BY DEF Gassed, GasIsPaid, PaysGas
<1>4. QED
  BY <1>1, <1>2, <1>3, TypedAlways, PTL DEF Spec

-----------------------------------------------------------------------------
(* The receipts of users and those of the channel.                         *)

UserCopy(r) == [user |-> r.user, tx |-> r.tx, quantity |-> r.quantity, status |-> r.status]

\* No transaction goes through more than one gate.
OneGate == \A gate \in Gates : Len(gate) <= 1

\* A transaction leaves its user one receipt at most, so that the channel has no more.
Agreed ==
  /\ userReceipts = {UserCopy(r) : r \in channelReceipts}
  /\ \A r, t \in channelReceipts : r.user = t.user /\ r.tx = t.tx => r = t

LEMMA OneReceipt ==
  ASSUME OneGate, Typed, IsGated
  PROVE  \/ UNCHANGED <<channelReceipts, userReceipts>>
         \/ \E c : /\ c.tx = txs + 1
                   /\ channelReceipts' = channelReceipts \cup {c}
                   /\ userReceipts' = userReceipts \cup {UserCopy(c)}
<1>1. PICK caller \in Users, active \in Users, gate \in GateSequences :
        \E run : GatedTransaction(run, caller, active, gate)
  BY DEF IsGated
<1>2. PICK run : GatedTransaction(run, caller, active, gate)
  BY <1>1
<1> DEFINE n == Len(gate)  s == run[0]  t == run[n]
<1>3. gate \in Seq(Codes) /\ txs \in Nat
  BY GateSequencesType, TypedIsTypeOK
<1>4. n \in {0, 1}
  <2>1. Len(Bridging) = 1
    BY DEF Bridging
  <2>2. n <= 1
    BY <2>1 DEF OneGate, GateSequences
  <2>3. n \in Nat
    BY <1>3
  <2>4. QED
    <3> HIDE DEF n
    <3>1. QED
      BY <2>2, <2>3
<1>5. AfterGate(t) /\ Calls(run, caller, active, gate)
  BY <1>2 DEF GatedTransaction
<1>6. s = BeforeGate /\ s \in GateStates /\ t \in GateStates
  BY <1>4, <1>5, BeforeGateType DEF Calls
<1>7. t = s \/ GateCalled(s, t, caller, active, gate[1])
  <2>1. \A i \in 1 .. n : GateCalled(run[i - 1], run[i], caller, active, gate[i])
    BY <1>5 DEF Calls
  <2>2. CASE n = 0
    BY <2>2
  <2>3. CASE n = 1
    <3> HIDE DEF n
    <3>1. GateCalled(run[1 - 1], run[1], caller, active, gate[1])
      BY <2>1, <2>3
    <3>2. QED
      BY <2>3, <3>1
  <2>4. QED
    BY <1>4, <2>2, <2>3
<1>8. channelReceipts' = t.channel /\ userReceipts' = t.user
  BY <1>5 DEF AfterGate
<1>9. s.channel = channelReceipts /\ s.user = userReceipts
  BY <1>6 DEF BeforeGate
<1> HIDE DEF s, t
<1>10. CASE t.channel = s.channel /\ t.user = s.user
  BY <1>8, <1>9, <1>10
<1>11. ASSUME NEW fee \in Nat \ {0}, Receipted(s, t, caller, gate[1], fee)
       PROVE  \E c : /\ c.tx = txs + 1
                     /\ channelReceipts' = channelReceipts \cup {c}
                     /\ userReceipts' = userReceipts \cup {UserCopy(c)}
  <2> DEFINE code == gate[1]
  <2> HIDE DEF code
  <2>1. PICK c \in t.channel :
          /\ c.code = code /\ c.user = caller /\ c.tx = txs + 1 /\ c.quantity = fee
          /\ t.channel = {r \in s.channel : ~(r.code = code /\ r.user = caller /\ r.tx = txs + 1)} \cup {c}
          /\ t.user = {r \in s.user : ~(r.user = caller /\ r.tx = txs + 1)}
                        \cup {[user |-> c.user, tx |-> c.tx, quantity |-> c.quantity, status |-> c.status]}
    BY <1>3, <1>6, <1>11, ReceiptPut DEF code
  <2>2. /\ \A r \in s.channel : r.tx # txs + 1
        /\ \A r \in s.user : r.tx # txs + 1
    BY <1>3, <1>9 DEF Typed, ReceiptsTyped, ChannelReceiptsOf, ReceiptsOf
  <2>3. t.channel = s.channel \cup {c}
    BY <2>1, <2>2
  <2>4. t.user = s.user \cup {UserCopy(c)}
    BY <2>1, <2>2 DEF UserCopy
  <2>5. QED
    BY <1>8, <1>9, <2>1, <2>3, <2>4
<1>12. QED
  BY <1>6, <1>7, <1>10, <1>11, CallPays DEF Paid

LEMMA GatedAgreed ==
  ASSUME OneGate, Typed, Agreed, IsGated
  PROVE  Agreed'
<1>1. CASE UNCHANGED <<channelReceipts, userReceipts>>
  BY <1>1 DEF Agreed
<1>2. ASSUME NEW c, c.tx = txs + 1,
             channelReceipts' = channelReceipts \cup {c},
             userReceipts' = userReceipts \cup {UserCopy(c)}
      PROVE  Agreed'
  <2>1. \A r \in channelReceipts : r.tx # txs + 1
    BY TypedIsTypeOK DEF Typed, ReceiptsTyped, ChannelReceiptsOf
  <2>2. userReceipts' = {UserCopy(r) : r \in channelReceipts'}
    BY <1>2 DEF Agreed
  <2>3. \A r, t \in channelReceipts' : r.user = t.user /\ r.tx = t.tx => r = t
    BY <1>2, <2>1 DEF Agreed
  <2>4. QED
    BY <2>2, <2>3 DEF Agreed
<1>3. QED
  BY <1>1, <1>2, OneReceipt

LEMMA CopyType ==
  ASSUME NEW tx, NEW r \in ChannelReceiptsOf(tx)
  PROVE  /\ UserCopy(r) \in ReceiptsOf(tx)
         /\ UserCopy(r).user = r.user /\ UserCopy(r).tx = r.tx
         /\ UserCopy(Settled(r)) = Settled(UserCopy(r))
<1>1. UserCopy(r) \in ReceiptsOf(tx)
  BY DEF UserCopy, ReceiptsOf, ChannelReceiptsOf
<1>2. /\ UserCopy(r).user = r.user /\ UserCopy(r).tx = r.tx
      /\ UserCopy(r).quantity = r.quantity
  BY DEF UserCopy
<1>3. /\ Settled(r) \in ChannelReceiptsOf(tx) /\ Settled(r).user = r.user /\ Settled(r).tx = r.tx
      /\ Settled(r).quantity = r.quantity /\ Settled(r).status = "Settled"
  BY SettledType
<1>4. Settled(UserCopy(r)) = [user |-> r.user, tx |-> r.tx, quantity |-> r.quantity, status |-> "Settled"]
  <2> DEFINE u == UserCopy(r)
  <2>1. /\ Settled(u) \in ReceiptsOf(tx) /\ Settled(u).user = u.user /\ Settled(u).tx = u.tx
        /\ Settled(u).quantity = u.quantity /\ Settled(u).status = "Settled"
    <3> HIDE DEF u
    <3>1. u \in ReceiptsOf(tx)
      BY <1>1 DEF u
    <3>2. QED
      BY <3>1, SettledType
  <2> DEFINE w == Settled(u)
  <2> HIDE DEF w
  <2>2. w = [user |-> w.user, tx |-> w.tx, quantity |-> w.quantity, status |-> w.status]
    BY <2>1 DEF ReceiptsOf, w
  <2>3. QED
    BY <1>2, <2>1, <2>2 DEF w
<1>5. UserCopy(Settled(r)) = [user |-> r.user, tx |-> r.tx, quantity |-> r.quantity, status |-> "Settled"]
  BY <1>3 DEF UserCopy
<1>6. QED
  BY <1>1, <1>2, <1>4, <1>5

LEMMA AgreedNext ==
  ASSUME Calculable, OneGate, Typed, Agreed, Next
  PROVE  Agreed'
<1>1. CASE UNCHANGED <<channelReceipts, userReceipts>>
  BY <1>1 DEF Agreed
<1>2. ASSUME NEW keys, SettleFeePaymentReceipts(keys) PROVE Agreed'
  <2> DEFINE rs == {r \in channelReceipts : ChannelKey(r) \in keys}
             userKeys == {UserKey(r) : r \in rs}
             mine == {r \in userReceipts : UserKey(r) \in userKeys}
             tx == 1 .. txs
  <2>1. /\ channelReceipts' = (channelReceipts \ rs) \cup {Settled(r) : r \in rs}
        /\ userReceipts' = (userReceipts \ mine) \cup {Settled(r) : r \in mine}
    BY <1>2 DEF SettleFeePaymentReceipts
  <2>2. channelReceipts \subseteq ChannelReceiptsOf(tx) /\ rs \subseteq channelReceipts
    BY DEF Typed, ReceiptsTyped
  <2> HIDE DEF rs
  <2>3. \A r \in channelReceipts : UserCopy(r) \in mine <=> r \in rs
    <3> SUFFICES ASSUME NEW r \in channelReceipts PROVE UserCopy(r) \in mine <=> r \in rs
      OBVIOUS
    <3>1. UserCopy(r) \in userReceipts /\ UserKey(UserCopy(r)) = UserKey(r)
      BY <2>2, CopyType DEF Agreed, UserKey
    <3>2. UserKey(r) \in userKeys <=> r \in rs
      <4>1. ASSUME NEW s \in rs, UserKey(s) = UserKey(r) PROVE r \in rs
        <5>1. s.user = r.user /\ s.tx = r.tx
          BY <4>1 DEF UserKey
        <5>2. s = r
          BY <2>2, <5>1 DEF Agreed
        <5>3. QED
          BY <5>2
      <4>2. QED
        BY <4>1
    <3>3. QED
      BY <3>1, <3>2
  <2>4. mine \subseteq userReceipts
    OBVIOUS
  <2> HIDE DEF mine
  <2>5. \A r \in rs : UserCopy(Settled(r)) = Settled(UserCopy(r))
    BY <2>2, CopyType
  <2>6. mine = {UserCopy(r) : r \in rs}
    BY <2>2, <2>3, <2>4 DEF Agreed
  <2>7. userReceipts \ mine = {UserCopy(r) : r \in channelReceipts \ rs}
    BY <2>2, <2>3 DEF Agreed
  <2>8. {Settled(u) : u \in mine} = {UserCopy(t) : t \in {Settled(r) : r \in rs}}
    BY <2>5, <2>6
  <2>9. userReceipts' = {UserCopy(r) : r \in channelReceipts'}
    BY <2>1, <2>7, <2>8
  <2>10. \A r, t \in channelReceipts' : r.user = t.user /\ r.tx = t.tx => r = t
    <3>1. \A r \in rs : Settled(r).user = r.user /\ Settled(r).tx = r.tx
      BY <2>2, SettledType
    <3>2. QED
      BY <2>1, <2>2, <3>1 DEF Agreed
  <2>11. QED
    BY <2>9, <2>10 DEF Agreed
<1>3. CASE \E caller, active \in Users, gate \in Gates : FeeGate(caller, active, gate)
  <2>1. IsGated
    BY <1>3, BeforeGateType, TransactionsAreGated DEF GateSequences
  <2>2. QED
    BY <2>1, GatedAgreed
<1>4. CASE \E caller \in Users, a \in BridgeAssertions, now \in Times : RequestTokenBridgeOut(caller, a, now)
  <2>1. IsGated
    BY <1>4, BeforeGateType, TransactionsAreGated
  <2>2. QED
    BY <2>1, GatedAgreed
<1>5. CASE NextFees
  <2>1. CASE \E keys \in ChannelReceiptKeys : SettleFeePaymentReceipts(keys)
    BY <1>2, <2>1
  <2>2. QED
    BY <1>1, <1>5, <2>1
       DEF NextFees, AuthorizeFee, AuthorizeExemptionForUser, RevokeExemptionForUser,
           ResetFeeThresholdUses, CreditFeeBalance, SettleFeeBalances, SettleFeeCreditReceipts
<1>6. CASE UNCHANGED feeVars
  BY <1>1, <1>6 DEF feeVars
<1>7. QED
  BY <1>3, <1>4, <1>5, <1>6 DEF Next

(***************************************************************************)
(* Both kinds of receipts say the same, before and after a settlement: if  *)
(* a transaction pays one fee at most, as the key of a user's receipt has  *)
(* no code in it.                                                          *)
(***************************************************************************)
THEOREM ReceiptsAgreeAlways ==
  ASSUME Calculable, OneGate
  PROVE  Spec => []ReceiptsAgree
<1>1. Init => Agreed
  BY DEF Init, Agreed
<1>2. Typed /\ Agreed /\ [Next]_vars => Agreed'
  <2>1. UNCHANGED vars /\ Agreed => Agreed'
    BY DEF vars, Agreed
  <2>2. QED
    BY <2>1, AgreedNext
<1>3. Agreed => ReceiptsAgree
  BY DEF Agreed, ReceiptsAgree, UserCopy
<1>4. QED
  BY <1>1, <1>2, <1>3, TypedAlways, PTL DEF Spec

-----------------------------------------------------------------------------
(* What a payment from the balance costs.                                  *)

\* Some part of what is paid at once is burnt: else the last transfer is paid twice.
BurnsSome == \A code \in Codes \ CrossChannel : SplitFormula[code].burn # 0

\* The receipts of this transaction for what was paid at once.
AtOnce(channel, u) == {r \in channel : r.user = u /\ r.tx > txs /\ r.code \notin CrossChannel}

PaysAtOnce(s, caller) ==
  /\ s.balance[caller] + Total(AtOnce(s.channel, caller)) = balance[caller]
  /\ \A u \in Users : u # caller => AtOnce(s.channel, u) = {}

LEMMA AtOnceCountable ==
  ASSUME NEW tx, NEW channel \in SUBSET ChannelReceiptsOf(tx), Apart(channel), NEW u
  PROVE  Countable(AtOnce(channel, u)) /\ Total(AtOnce(channel, u)) \in Int
<1>1. IsFiniteSet(AtOnce(channel, u))
  BY FS_Subset DEF AtOnce, Apart
<1>2. \A r \in AtOnce(channel, u) : r.quantity \in Int
  BY DEF AtOnce, ChannelReceiptsOf
<1>3. QED
  BY <1>1, <1>2, TotalType DEF Countable

LEMMA NoneAtOnce ==
  ASSUME txs \in Nat, NEW channel \in SUBSET ChannelReceiptsOf(1 .. txs)
  PROVE  \A u : AtOnce(channel, u) = {}
BY DEF AtOnce, ChannelReceiptsOf

LEMMA CallPaysAtOnce ==
  ASSUME OncePerCode, BurnsSome, txs \in Nat, NEW caller \in Users, NEW active \in Users,
         NEW gate \in GateSequences, NEW i \in 1 .. Len(gate),
         NEW s \in GateStates, NEW t \in GateStates, GateCalled(s, t, caller, active, gate[i]),
         Apart(s.channel), Recent(s.channel, gate, i - 1), PaysAtOnce(s, caller)
  PROVE  PaysAtOnce(t, caller)
<1>1. CASE t.channel = s.channel /\ t.balance = s.balance
  BY <1>1 DEF PaysAtOnce
<1>2. ASSUME NEW fee \in Nat \ {0}, Paid(s, t, caller, gate[i], fee)
      PROVE  PaysAtOnce(t, caller)
  <2>1. AddsReceipt(s, t, caller, gate[i], fee)
    <3>1. Receipted(s, t, caller, gate[i], fee)
      BY <1>2 DEF Paid
    <3>2. QED
      BY <3>1, NewReceipt
  <2>2. PICK c : /\ c.code = gate[i] /\ c.user = caller /\ c.tx = txs + 1 /\ c.quantity = fee
                 /\ c \notin s.channel /\ t.channel = s.channel \cup {c}
    BY <2>1 DEF AddsReceipt
  <2>3. gate[i] \in Codes
    BY GateSequencesType
  <2> DEFINE before == AtOnce(s.channel, caller)
             after  == AtOnce(t.channel, caller)
             paid == s.balance[caller]
  <2>4. Countable(before) /\ Total(before) \in Int
    <3>1. s.channel \in SUBSET ChannelReceiptsOf(1 .. txs + 1)
      BY DEF GateStates
    <3>2. QED
      BY <3>1, AtOnceCountable
  <2>5. paid \in Nat /\ paid + Total(before) = balance[caller]
    BY DEF PaysAtOnce, GateStates, Balances
  <2>6. \A u \in Users : u # caller => AtOnce(t.channel, u) = {}
    BY <2>2 DEF AtOnce, PaysAtOnce
  <2>7. CASE gate[i] \in CrossChannel
    <3>1. t.balance = s.balance
      BY <1>2, <2>7 DEF Paid
    <3>2. after = before
      BY <2>2, <2>7 DEF AtOnce
    <3>3. QED
      BY <2>5, <2>6, <3>1, <3>2 DEF PaysAtOnce
  <2>8. CASE gate[i] \notin CrossChannel
    <3>1. t.balance[caller] = paid - fee
      BY <1>2, <2>3, <2>8 DEF Paid, BurnsSome
    <3>2. after = before \cup {c} /\ c \notin before
      BY <2>2, <2>8 DEF AtOnce
    <3> HIDE DEF before, after, paid
    <3>3. Total(after) = Total(before) + fee
      <4>1. c.quantity = fee /\ c.quantity \in Int
        BY <2>2
      <4>2. Total(before \cup {c}) = Total(before) + c.quantity
        BY <2>4, <3>2, <4>1, TotalAdd
      <4>3. QED
        BY <3>2, <4>1, <4>2
    <3>4. t.balance[caller] + Total(after) = balance[caller]
      <4> DEFINE sum == Total(before)
      <4> HIDE DEF sum
      <4>1. sum \in Int /\ Total(after) = sum + fee /\ paid + sum = balance[caller]
        BY <2>4, <2>5, <3>3 DEF sum
      <4>2. (paid - fee) + (sum + fee) = paid + sum
        BY <2>5, <4>1
      <4>3. QED
        BY <3>1, <4>1, <4>2
    <3>5. QED
      BY <2>6, <3>4 DEF PaysAtOnce, after
  <2>9. QED
    BY <2>7, <2>8
<1>3. QED
  BY <1>1, <1>2, CallPays

LEMMA GatedPaysAtOnce ==
  ASSUME OncePerCode, BurnsSome, Typed, Apart(channelReceipts), IsGated, NEW u \in Users,
         AtOnce(channelReceipts', u) # {}
  PROVE  balance[u] - balance'[u] = Total(AtOnce(channelReceipts', u))
<1>1. PICK caller \in Users, active \in Users, gate \in GateSequences :
        \E run : GatedTransaction(run, caller, active, gate)
  BY DEF IsGated
<1>2. PICK run : GatedTransaction(run, caller, active, gate)
  BY <1>1
<1> DEFINE n == Len(gate)
           t == run[n]
           P == {i \in 0 .. n : PaysAtOnce(run[i], caller)}
<1>3. gate \in Seq(Codes) /\ txs \in Nat
  BY GateSequencesType, TypedIsTypeOK
<1>4. n \in Nat
  BY <1>3
<1>5. AfterGate(t) /\ Calls(run, caller, active, gate)
  BY <1>2 DEF GatedTransaction
<1>6. /\ run \in [0 .. n -> GateStates] /\ run[0] = BeforeGate
      /\ \A i \in 1 .. n : GateCalled(run[i - 1], run[i], caller, active, gate[i])
  BY <1>5 DEF Calls
<1>7. \A i \in 0 .. n : Apart(run[i].channel) /\ Recent(run[i].channel, gate, i)
  BY <1>3, <1>5, RunReceipts
<1> HIDE DEF n
<1>8. 0 \in P
  <2>1. run[0].channel = channelReceipts /\ run[0].balance = balance
    BY <1>6 DEF BeforeGate
  <2>2. \A v : AtOnce(channelReceipts, v) = {}
    BY <1>3, NoneAtOnce DEF Typed, ReceiptsTyped
  <2>3. balance[caller] + 0 = balance[caller]
    BY DEF Typed, AmountsTyped, Balances
  <2>4. QED
    BY <1>4, <2>1, <2>2, <2>3, TotalOfNone DEF PaysAtOnce
<1>9. ASSUME NEW i \in 1 .. n, i - 1 \in P PROVE i \in P
  <2> DEFINE s == run[i - 1]  w == run[i]
  <2>1. i \in 0 .. n /\ i - 1 \in 0 .. n
    BY <1>4
  <2>2. /\ s \in GateStates /\ w \in GateStates /\ GateCalled(s, w, caller, active, gate[i])
        /\ Apart(s.channel) /\ Recent(s.channel, gate, i - 1) /\ PaysAtOnce(s, caller)
    BY <1>6, <1>7, <1>9, <2>1
  <2> HIDE DEF s, w
  <2>3. PaysAtOnce(w, caller)
    BY <1>3, <2>2, CallPaysAtOnce DEF n
  <2>4. QED
    BY <2>1, <2>3 DEF w
<1>10. n \in P
  <2> HIDE DEF P
  <2>1. \A i \in 0 .. n : i \in P
    BY <1>4, <1>8, <1>9, Sums!UpTo
  <2>2. QED
    BY <1>4, <2>1
<1>11. balance' = t.balance /\ channelReceipts' = t.channel
  BY <1>5 DEF AfterGate
<1>12. PaysAtOnce(t, caller) /\ t \in GateStates /\ Apart(t.channel)
  BY <1>4, <1>6, <1>7, <1>10
<1> HIDE DEF t
<1>13. u = caller
  BY <1>11, <1>12 DEF PaysAtOnce
<1> DEFINE sum == Total(AtOnce(t.channel, u))
           left == t.balance[u]
<1>14. sum \in Int /\ left \in Nat
  <2>1. t.channel \in SUBSET ChannelReceiptsOf(1 .. txs + 1) /\ left \in Nat
    BY <1>12 DEF GateStates, Balances
  <2>2. QED
    BY <1>12, <2>1, AtOnceCountable
<1>15. left + sum = balance[u]
  BY <1>12, <1>13 DEF PaysAtOnce
<1> HIDE DEF left, sum
<1>16. balance[u] - left = sum
  BY <1>14, <1>15
<1>17. QED
  BY <1>11, <1>16 DEF left, sum

LEMMA PaymentStep ==
  ASSUME Calculable, OncePerCode, BurnsSome, Typed, Apart(channelReceipts), Next,
         NEW u \in Users, AtOnce(channelReceipts', u) # {}
  PROVE  balance[u] - balance'[u] = Total(AtOnce(channelReceipts', u))
<1>1. txs \in Nat /\ channelReceipts \in SUBSET ChannelReceiptsOf(1 .. txs)
  BY TypedIsTypeOK DEF Typed, ReceiptsTyped
<1>2. ~UNCHANGED channelReceipts
  BY <1>1, NoneAtOnce
<1>3. ASSUME NEW keys, SettleFeePaymentReceipts(keys) PROVE FALSE
  <2> DEFINE rs == {r \in channelReceipts : ChannelKey(r) \in keys}
  <2>1. channelReceipts' = (channelReceipts \ rs) \cup {Settled(r) : r \in rs}
    BY <1>3 DEF SettleFeePaymentReceipts
  <2>2. \A r \in rs : Settled(r) \in ChannelReceiptsOf(1 .. txs)
    BY <1>1, SettledType
  <2>3. channelReceipts' \in SUBSET ChannelReceiptsOf(1 .. txs)
    BY <1>1, <2>1, <2>2
  <2>4. QED
    BY <1>1, <2>3, NoneAtOnce
<1>4. CASE \E caller, active \in Users, gate \in Gates : FeeGate(caller, active, gate)
  <2>1. IsGated
    BY <1>4, BeforeGateType, TransactionsAreGated DEF GateSequences
  <2>2. QED
    BY <2>1, GatedPaysAtOnce
<1>5. CASE \E caller \in Users, a \in BridgeAssertions, now \in Times : RequestTokenBridgeOut(caller, a, now)
  <2>1. IsGated
    BY <1>5, BeforeGateType, TransactionsAreGated
  <2>2. QED
    BY <2>1, GatedPaysAtOnce
<1>6. ~NextFees
  BY <1>2, <1>3
     DEF NextFees, AuthorizeFee, AuthorizeExemptionForUser, RevokeExemptionForUser,
         ResetFeeThresholdUses, CreditFeeBalance, SettleFeeBalances, SettleFeeCreditReceipts
<1>7. ~UNCHANGED feeVars
  BY <1>2 DEF feeVars
<1>8. QED
  BY <1>4, <1>5, <1>6, <1>7 DEF Next

(***************************************************************************)
(* A payment from the balance costs the payer what the receipts state,     *)
(* whatever parts the formula rounds: if it burns some part, and no        *)
(* receipt takes the place of another of the same transaction.             *)
(***************************************************************************)
THEOREM PayerPaysReceipts ==
  ASSUME Calculable, OncePerCode, BurnsSome
  PROVE  Spec => PayerPaysReceipt
<1>1. Accounts => Apart(channelReceipts)
  BY DEF Accounts
<1>2. Typed /\ Apart(channelReceipts) /\ [Next]_vars =>
        [\A u \in Users :
           LET new == {r \in channelReceipts' : r.user = u /\ r.tx > txs /\ r.code \notin CrossChannel}
           IN  new # {} => balance[u] - balance'[u] = Total(new)]_vars
  BY PaymentStep DEF AtOnce
<1>3. QED
  BY <1>1, <1>2, TypedAlways, AccountsAlways, PTL DEF Spec, PayerPaysReceipt
=============================================================================
