------------------------- MODULE GalaChainStubProofs -------------------------
(***************************************************************************)
(* The stub is a private copy of the world state, for any sets of keys and *)
(* values, any number of operations and any calls: the variables keep      *)
(* their types, the caches stay coherent, and every step is a step of      *)
(* TransactionView or changes nothing that TransactionView sees.           *)
(*                                                                         *)
(* The first lemmas are of the methods of the cache alone: what they       *)
(* return and preserve, for any cache and any world state under it.        *)
(***************************************************************************)
EXTENDS GalaChainStub, TLAPS

\* A partial map is a function on some of the keys.
LEMMA PartialMapIntro ==
  ASSUME NEW S, NEW D \in SUBSET Keys, NEW f \in [D -> S]
  PROVE  f \in PartialMap(S)
BY DEF PartialMap

LEMMA PartialMapElim ==
  ASSUME NEW S, NEW f \in PartialMap(S)
  PROVE  /\ DOMAIN f \in SUBSET Keys
         /\ f \in [DOMAIN f -> S]
BY DEF PartialMap

\* A map with one more entry.
LEMMA Extended ==
  ASSUME NEW S, NEW f \in PartialMap(S), NEW k \in Keys, NEW v \in S
  PROVE  With(f, k, v) \in PartialMap(S)
<1>1. /\ DOMAIN f \in SUBSET Keys
      /\ f \in [DOMAIN f -> S]
  BY PartialMapElim
<1>2. With(f, k, v) \in [DOMAIN f \cup {k} -> S]
  BY <1>1 DEF With
<1>3. QED
  BY <1>1, <1>2, PartialMapIntro

\* What a map holds after an entry is removed.
LEMMA Removed ==
  ASSUME NEW S, NEW f \in PartialMap(S), NEW k
  PROVE  /\ Without(f, k) \in PartialMap(S)
         /\ DOMAIN Without(f, k) = DOMAIN f \ {k}
         /\ \A j \in DOMAIN f \ {k} : Without(f, k)[j] = f[j]
<1>1. /\ DOMAIN f \in SUBSET Keys
      /\ f \in [DOMAIN f -> S]
  BY PartialMapElim
<1>2. Without(f, k) = [j \in DOMAIN f \ {k} |-> f[j]]
  BY DEF Without, Restrict
<1>3. Without(f, k) \in [DOMAIN f \ {k} -> S]
  BY <1>1, <1>2
<1>4. QED
  BY <1>1, <1>2, <1>3, PartialMapIntro

-----------------------------------------------------------------------------

\* The parts of a cache.
LEMMA CacheParts ==
  ASSUME NEW c \in Caches
  PROVE  /\ c = [reads |-> c.reads, writes |-> c.writes, deletes |-> c.deletes]
         /\ c.reads \in PartialMap(Content)
         /\ c.writes \in PartialMap(Values)
         /\ c.deletes \in SUBSET Keys
         /\ DOMAIN c.reads \in SUBSET Keys /\ DOMAIN c.writes \in SUBSET Keys
         /\ \A k \in DOMAIN c.reads : c.reads[k] \in Content
         /\ \A k \in DOMAIN c.writes : c.writes[k] \in Values
<1>1. /\ c = [reads |-> c.reads, writes |-> c.writes, deletes |-> c.deletes]
      /\ c.reads \in PartialMap(Content)
      /\ c.writes \in PartialMap(Values)
      /\ c.deletes \in SUBSET Keys
  BY DEF Caches
<1>2. /\ DOMAIN c.reads \in SUBSET Keys
      /\ c.reads \in [DOMAIN c.reads -> Content]
  BY <1>1, PartialMapElim
<1>3. /\ DOMAIN c.writes \in SUBSET Keys
      /\ c.writes \in [DOMAIN c.writes -> Values]
  BY <1>1, PartialMapElim
<1>4. QED
  BY <1>1, <1>2, <1>3

\* An empty map is a partial map, and an empty cache a coherent cache.
LEMMA EmptyCacheCoherent ==
  ASSUME NEW chain \in Ledgers
  PROVE  /\ NoEntries \in PartialMap(Content) /\ DOMAIN NoEntries = {}
         /\ EmptyCache \in Caches
         /\ Coherent(EmptyCache, chain)
         /\ View(EmptyCache, chain) = chain
<1>1. NoEntries \in [{} -> Content] /\ NoEntries \in [{} -> Values] /\ DOMAIN NoEntries = {}
  BY DEF NoEntries
<1>2. NoEntries \in PartialMap(Content) /\ NoEntries \in PartialMap(Values)
  BY <1>1, PartialMapIntro
<1>3. EmptyCache \in Caches
  BY <1>2 DEF EmptyCache, Caches
<1>4. Coherent(EmptyCache, chain)
  BY <1>1 DEF EmptyCache, Coherent, WritesApartFromDeletes, ReadsAreCurrent, ReadsApart
<1>5. View(EmptyCache, chain) = chain
  BY <1>1 DEF EmptyCache, View, CachedState, Ledgers
<1>6. QED
  BY <1>1, <1>2, <1>3, <1>4, <1>5

\* Reading never changes what the code sees.
LEMMA GetKeepsView ==
  ASSUME NEW c \in Caches, NEW chain \in Ledgers, NEW k \in Keys
  PROVE  /\ GetCachedState(c, chain, k) \in Caches
         /\ Coherent(c, chain) => Coherent(GetCachedState(c, chain, k), chain)
         /\ View(GetCachedState(c, chain, k), chain) = View(c, chain)
<1>0. chain[k] \in Content /\ c.reads \in PartialMap(Content)
  BY CacheParts DEF Ledgers
<1>1. CASE ReachesChain(c, k)
  <2> DEFINE d == GetCachedState(c, chain, k)
  <2>1. d = [reads |-> With(c.reads, k, chain[k]), writes |-> c.writes, deletes |-> c.deletes]
    BY <1>1, CacheParts DEF GetCachedState, Caches
  <2>0. With(c.reads, k, chain[k]) \in PartialMap(Content)
    BY <1>0, Extended
  <2>2. /\ DOMAIN With(c.reads, k, chain[k]) = DOMAIN c.reads \cup {k}
        /\ \A j \in DOMAIN c.reads \cup {k} :
             With(c.reads, k, chain[k])[j] = IF j = k THEN chain[k] ELSE c.reads[j]
    BY DEF With
  <2>3. d \in Caches
    BY <2>0, <2>1, CacheParts DEF Caches
  <2>4. Coherent(c, chain) => Coherent(d, chain)
    BY <1>1, <2>1, <2>2 DEF Coherent, WritesApartFromDeletes, ReadsAreCurrent, ReadsApart, ReachesChain
  <2>5. \A j \in Keys : CachedState(d, chain, j) = CachedState(c, chain, j)
    BY <1>1, <2>1, <2>2 DEF CachedState, ReachesChain
  <2>6. QED
    BY <2>3, <2>4, <2>5 DEF View
<1>2. CASE ~ReachesChain(c, k)
  BY <1>2 DEF GetCachedState
<1>3. QED
  BY <1>1, <1>2

\* A put changes what the code sees at its key, and there only.
LEMMA PutUpdatesView ==
  ASSUME NEW c \in Caches, NEW chain \in Ledgers, NEW k \in Keys, NEW v \in Values
  PROVE  /\ PutState(c, k, v) \in Caches
         /\ Coherent(c, chain) => Coherent(PutState(c, k, v), chain)
         /\ View(PutState(c, k, v), chain) = [View(c, chain) EXCEPT ![k] = v]
<1> DEFINE d == PutState(c, k, v)
<1>0. c.writes \in PartialMap(Values) /\ c.reads \in PartialMap(Content)
  BY CacheParts
<1>a. With(c.writes, k, v) \in PartialMap(Values)
  BY <1>0, Extended
<1>1. /\ DOMAIN With(c.writes, k, v) = DOMAIN c.writes \cup {k}
      /\ \A j \in DOMAIN c.writes \cup {k} :
           With(c.writes, k, v)[j] = IF j = k THEN v ELSE c.writes[j]
  BY DEF With
<1>2. /\ Without(c.reads, k) \in PartialMap(Content)
      /\ DOMAIN Without(c.reads, k) = DOMAIN c.reads \ {k}
      /\ \A j \in DOMAIN c.reads \ {k} : Without(c.reads, k)[j] = c.reads[j]
  BY <1>0, Removed, ZenonT(30)
<1>3. /\ d.reads = Without(c.reads, k) /\ d.writes = With(c.writes, k, v)
      /\ d.deletes = c.deletes \ {k}
  BY DEF PutState
<1>4. d \in Caches
  BY <1>a, <1>2, CacheParts DEF Caches, PutState
<1>5. Coherent(c, chain) => Coherent(d, chain)
  BY <1>1, <1>2, <1>3, CacheParts DEF Coherent, WritesApartFromDeletes, ReadsAreCurrent, ReadsApart
<1>6. \A j \in Keys : CachedState(d, chain, j) = IF j = k THEN v ELSE CachedState(c, chain, j)
  BY <1>1, <1>2, <1>3, CacheParts DEF CachedState
<1>7. View(d, chain) = [View(c, chain) EXCEPT ![k] = v]
  BY <1>6 DEF View
<1>8. QED
  BY <1>4, <1>5, <1>7

\* A delete empties its key, and no other.
LEMMA DeleteUpdatesView ==
  ASSUME NEW c \in Caches, NEW chain \in Ledgers, NEW k \in Keys
  PROVE  /\ DeleteState(c, k) \in Caches
         /\ Coherent(c, chain) => Coherent(DeleteState(c, k), chain)
         /\ View(DeleteState(c, k), chain) = [View(c, chain) EXCEPT ![k] = NoValue]
<1> DEFINE d == DeleteState(c, k)
<1>0. c.writes \in PartialMap(Values) /\ c.reads \in PartialMap(Content)
  BY CacheParts
<1>1. /\ Without(c.writes, k) \in PartialMap(Values)
      /\ DOMAIN Without(c.writes, k) = DOMAIN c.writes \ {k}
      /\ \A j \in DOMAIN c.writes \ {k} : Without(c.writes, k)[j] = c.writes[j]
  BY <1>0, Removed, ZenonT(30)
<1>2. /\ Without(c.reads, k) \in PartialMap(Content)
      /\ DOMAIN Without(c.reads, k) = DOMAIN c.reads \ {k}
      /\ \A j \in DOMAIN c.reads \ {k} : Without(c.reads, k)[j] = c.reads[j]
  BY <1>0, Removed, ZenonT(30)
<1>3. /\ d.reads = Without(c.reads, k) /\ d.writes = Without(c.writes, k)
      /\ d.deletes = c.deletes \cup {k}
  BY DEF DeleteState
<1>4. d \in Caches
  BY <1>1, <1>2, CacheParts DEF Caches, DeleteState
<1>5. Coherent(c, chain) => Coherent(d, chain)
  BY <1>1, <1>2, <1>3, CacheParts DEF Coherent, WritesApartFromDeletes, ReadsAreCurrent, ReadsApart
<1>6. \A j \in Keys : CachedState(d, chain, j) = IF j = k THEN NoValue ELSE CachedState(c, chain, j)
  BY <1>1, <1>2, <1>3, CacheParts DEF CachedState
<1>7. View(d, chain) = [View(c, chain) EXCEPT ![k] = NoValue]
  BY <1>6 DEF View
<1>8. QED
  BY <1>4, <1>5, <1>7

\* A delete keeps the parts of coherence that the outer stub of a batch has.
LEMMA DeleteKeepsParts ==
  ASSUME NEW c \in Caches, NEW chain \in Ledgers, NEW k \in Keys,
         WritesApartFromDeletes(c), ReadsAreCurrent(c, chain)
  PROVE  /\ WritesApartFromDeletes(DeleteState(c, k))
         /\ ReadsAreCurrent(DeleteState(c, k), chain)
<1>1. c.writes \in PartialMap(Values) /\ c.reads \in PartialMap(Content)
  BY CacheParts
<1>2. /\ Without(c.writes, k) \in PartialMap(Values)
      /\ DOMAIN Without(c.writes, k) = DOMAIN c.writes \ {k}
      /\ \A j \in DOMAIN c.writes \ {k} : Without(c.writes, k)[j] = c.writes[j]
  BY <1>1, Removed, ZenonT(30)
<1>3. /\ Without(c.reads, k) \in PartialMap(Content)
      /\ DOMAIN Without(c.reads, k) = DOMAIN c.reads \ {k}
      /\ \A j \in DOMAIN c.reads \ {k} : Without(c.reads, k)[j] = c.reads[j]
  BY <1>1, Removed, ZenonT(30)
<1>4. QED
  BY <1>2, <1>3 DEF DeleteState, WritesApartFromDeletes, ReadsAreCurrent

\* What the code sees is a world state.
LEMMA ViewIsLedger ==
  ASSUME NEW c \in Caches, NEW chain \in Ledgers
  PROVE  View(c, chain) \in Ledgers
BY CacheParts DEF View, Ledgers, CachedState, Content

\* The flush makes the world state what the code saw.
LEMMA FlushWritesIsView ==
  ASSUME NEW c \in Caches, NEW chain \in Ledgers,
         WritesApartFromDeletes(c), ReadsAreCurrent(c, chain)
  PROVE  FlushWrites(c, chain) = View(c, chain)
BY CacheParts DEF FlushWrites, View, CachedState, WritesApartFromDeletes, ReadsAreCurrent

\* A sandbox sees what its parent saw.
LEMMA SandboxKeepsView ==
  ASSUME NEW c \in Caches, NEW chain \in Ledgers,
         WritesApartFromDeletes(c), ReadsAreCurrent(c, chain)
  PROVE  /\ SandboxOf(c) \in Caches
         /\ Coherent(SandboxOf(c), chain)
         /\ View(SandboxOf(c), chain) = View(c, chain)
<1> DEFINE d == SandboxOf(c)
<1>1. NoEntries \in PartialMap(Content) /\ DOMAIN NoEntries = {}
  BY EmptyCacheCoherent
<1>2. d = [reads |-> NoEntries, writes |-> c.writes, deletes |-> c.deletes]
  BY CacheParts DEF SandboxOf
<1>3. d \in Caches
  BY <1>1, <1>2, CacheParts DEF Caches
<1>4. Coherent(d, chain)
  BY <1>1, <1>2 DEF Coherent, WritesApartFromDeletes, ReadsAreCurrent, ReadsApart
<1>5. View(d, chain) = View(c, chain)
  BY <1>1, <1>2 DEF View, CachedState, ReadsAreCurrent
<1>6. QED
  BY <1>3, <1>4, <1>5

\* A parent that is given the writes and deletes of a sandbox sees what it saw.
LEMMA MergeKeepsSandboxView ==
  ASSUME NEW c \in Caches, NEW s \in Caches, NEW chain \in Ledgers,
         ReadsAreCurrent(c, chain), Coherent(s, chain)
  PROVE  /\ MergeSandbox(c, s) \in Caches
         /\ WritesApartFromDeletes(MergeSandbox(c, s))
         /\ ReadsAreCurrent(MergeSandbox(c, s), chain)
         /\ View(MergeSandbox(c, s), chain) = View(s, chain)
<1> DEFINE d == MergeSandbox(c, s)
<1>1. d = [reads |-> c.reads, writes |-> s.writes, deletes |-> s.deletes]
  BY DEF MergeSandbox
<1>2. d \in Caches
  BY <1>1, CacheParts DEF Caches
<1>3. WritesApartFromDeletes(d) /\ ReadsAreCurrent(d, chain)
  BY <1>1 DEF Coherent, WritesApartFromDeletes, ReadsAreCurrent
<1>4. View(d, chain) = View(s, chain)
  BY <1>1 DEF View, CachedState, Coherent, ReadsAreCurrent
<1>5. QED
  BY <1>2, <1>3, <1>4

\* A query lists every object of its range, and cached keys that are not there.
LEMMA QueryIsView ==
  ASSUME NEW c \in Caches, NEW chain \in Ledgers, NEW range \in SUBSET Keys,
         Coherent(c, chain)
  PROVE  LET view == View(c, chain)
         IN  \E absent \in SUBSET {k \in range : view[k] = NoValue} :
               CachedStateByPartialKey(c, chain, range) =
                 {<<k, view[k]>> : k \in {j \in range : view[j] # NoValue} \cup absent}
<1> DEFINE view == View(c, chain)
           cached == (DOMAIN c.writes \cup DOMAIN c.reads) \cap range
           absent == {k \in cached : view[k] = NoValue}
           listed == {j \in range : view[j] # NoValue} \cup absent
           onChain  == {j \in range \ (cached \cup c.deletes) : chain[j] # NoValue}
           entries == [k \in DOMAIN c.writes \cup DOMAIN c.reads |->
                         IF k \in DOMAIN c.writes THEN c.writes[k] ELSE c.reads[k]]
<1>1. \A k \in cached : entries[k] = view[k]
  BY CacheParts DEF View, CachedState, Coherent, WritesApartFromDeletes, ReadsApart
<1>2. \A k \in onChain : chain[k] = view[k] /\ view[k] # NoValue
  BY CacheParts DEF View, CachedState
<1>3. listed = cached \cup onChain
  <2>1. \A k \in range : k \in listed => k \in cached \cup onChain
    BY CacheParts DEF View, CachedState
  <2>2. \A k \in cached \cup onChain : k \in listed
    BY <1>2
  <2>3. QED
    BY <2>1, <2>2
<1>4. DOMAIN entries \cap range = cached
  OBVIOUS
<1>5. CachedStateByPartialKey(c, chain, range) =
        {<<k, entries[k]>> : k \in cached} \cup {<<k, chain[k]>> : k \in onChain}
  BY <1>4 DEF CachedStateByPartialKey
<1>6. CachedStateByPartialKey(c, chain, range) = {<<k, view[k]>> : k \in listed}
  <2>1. {<<k, entries[k]>> : k \in cached} = {<<k, view[k]>> : k \in cached}
    BY <1>1
  <2>2. {<<k, chain[k]>> : k \in onChain} = {<<k, view[k]>> : k \in onChain}
    BY <1>2
  <2>3. QED
    BY <1>3, <1>5, <2>1, <2>2
<1>7. absent \in SUBSET {k \in range : view[k] = NoValue}
  OBVIOUS
<1>8. QED
  BY <1>6, <1>7

-----------------------------------------------------------------------------

\* What the calls return has its type.
LEMMA GetResponse ==
  ASSUME NEW k \in Keys, NEW v \in Content
  PROVE  [call |-> "get", key |-> k, value |-> v] \in Responses
BY DEF Responses

LEMMA QueryResponse ==
  ASSUME NEW e \in SUBSET (Keys \X Content)
  PROVE  [call |-> "query", entries |-> e] \in Responses
BY DEF Responses

\* The cache that running code calls is coherent.
LEMMA CurrentCoherent ==
  ASSUME TypeOK, CacheCoherence, Running
  PROVE  /\ Current \in Caches
         /\ Coherent(Current, ledger)
BY NoSandboxAssumption DEF TypeOK, CacheCoherence, Running, Current, InSandbox, Coherent

Inv == TypeOK /\ CacheCoherence

\* A fresh invocation is coherent.
LEMMA InitInv == Init => Inv
<1> SUFFICES ASSUME Init PROVE Inv
  OBVIOUS
<1>1. /\ EmptyCache \in Caches /\ Coherent(EmptyCache, ledger)
  BY EmptyCacheCoherent DEF Init
<1>2. QED
  BY <1>1 DEF Init, Inv, TypeOK, CacheCoherence, Coherent, InSandbox, Responses

(***************************************************************************)
(* A call that leaves the ledger and the phase alone and gives the running *)
(* code another coherent cache preserves the invariant.                    *)
(***************************************************************************)
LEMMA UpdateInv ==
  ASSUME Inv, Running, NEW c \in Caches, Coherent(c, ledger), UpdateCurrent(c),
         UNCHANGED <<ledger, phase>>, resp' \in Responses
  PROVE  Inv'
<1>1. CASE InSandbox
  BY <1>1 DEF Inv, TypeOK, CacheCoherence, UpdateCurrent, InSandbox
<1>2. CASE ~InSandbox
  BY <1>2 DEF Inv, TypeOK, CacheCoherence, UpdateCurrent, InSandbox, Running, Coherent
<1>3. QED
  BY <1>1, <1>2

-----------------------------------------------------------------------------
(* The calls of running code. *)

LEMMA GetInv ==
  ASSUME Inv, NEW k \in Keys, Get(k)
  PROVE  Inv'
<1> DEFINE c == GetCachedState(Current, ledger, k)
<1>1. Current \in Caches /\ Coherent(Current, ledger) /\ ledger \in Ledgers
  BY CurrentCoherent DEF Inv, Get, TypeOK
<1>2. c \in Caches /\ Coherent(c, ledger)
  BY <1>1, GetKeepsView
<1>3. CachedState(Current, ledger, k) \in Content
  BY <1>1, ViewIsLedger DEF View, Ledgers
<1>4. resp' \in Responses
  BY <1>3, GetResponse DEF Get
<1>5. QED
  BY <1>2, <1>4, UpdateInv DEF Get

LEMMA PutInv ==
  ASSUME Inv, NEW k \in Keys, NEW v \in Values, Put(k, v)
  PROVE  Inv'
<1> DEFINE c == PutState(Current, k, v)
<1>1. Current \in Caches /\ Coherent(Current, ledger) /\ ledger \in Ledgers
  BY CurrentCoherent DEF Inv, Put, TypeOK
<1>2. c \in Caches /\ Coherent(c, ledger)
  BY <1>1, PutUpdatesView
<1>3. resp' \in Responses
  BY DEF Put, Responses
<1>4. QED
  BY <1>2, <1>3, UpdateInv DEF Put

LEMMA DeleteInv ==
  ASSUME Inv, NEW k \in Keys, Delete(k)
  PROVE  Inv'
<1> DEFINE c == DeleteState(Current, k)
<1>1. Current \in Caches /\ Coherent(Current, ledger) /\ ledger \in Ledgers
  BY CurrentCoherent DEF Inv, Delete, TypeOK
<1>2. c \in Caches /\ Coherent(c, ledger)
  BY <1>1, DeleteUpdatesView
<1>3. resp' \in Responses
  BY DEF Delete, Responses
<1>4. QED
  BY <1>2, <1>3, UpdateInv DEF Delete

\* The entries of a query, and that they have their type.
LEMMA QueryEntries ==
  ASSUME Inv, NEW range \in SUBSET Keys, Running
  PROVE  LET view == View(Current, ledger)
             list == CachedStateByPartialKey(Current, ledger, range)
         IN  /\ \E absent \in SUBSET {k \in range : view[k] = NoValue} :
                  list = {<<k, view[k]>> : k \in {j \in range : view[j] # NoValue} \cup absent}
             /\ list \in SUBSET (Keys \X Content)
<1> DEFINE view == View(Current, ledger)
           list == CachedStateByPartialKey(Current, ledger, range)
<1>1. Current \in Caches /\ Coherent(Current, ledger) /\ ledger \in Ledgers
  BY CurrentCoherent DEF Inv, TypeOK
<1>2. PICK absent \in SUBSET {k \in range : view[k] = NoValue} :
        list = {<<k, view[k]>> : k \in {j \in range : view[j] # NoValue} \cup absent}
  BY <1>1, QueryIsView
<1>3. \A k \in Keys : view[k] \in Content
  BY <1>1, ViewIsLedger DEF Ledgers
<1>4. list \in SUBSET (Keys \X Content)
  BY <1>2, <1>3
<1>5. QED
  BY <1>2, <1>4

LEMMA QueryInv ==
  ASSUME Inv, NEW range \in Ranges, Query(range)
  PROVE  Inv'
<1>1. range \in SUBSET Keys
  BY RangesAssumption
<1>2. CachedStateByPartialKey(Current, ledger, range) \in SUBSET (Keys \X Content)
  BY <1>1, QueryEntries DEF Query
<1>3. resp' \in Responses
  BY <1>2, QueryResponse DEF Query
<1>4. QED
  BY <1>3 DEF Query, Inv, TypeOK, CacheCoherence, InSandbox

-----------------------------------------------------------------------------
(* The steps of GalaContract. *)

LEMMA DeleteRequestInv ==
  ASSUME Inv, NEW k \in Keys, DeleteRequest(k)
  PROVE  Inv'
<1>1. main \in Caches /\ ledger \in Ledgers
  BY DEF Inv, TypeOK
<1>2. DeleteState(main, k) \in Caches
  BY <1>1, DeleteUpdatesView
<1>3. WritesApartFromDeletes(DeleteState(main, k)) /\ ReadsAreCurrent(DeleteState(main, k), ledger)
  BY <1>1, DeleteKeepsParts DEF Inv, CacheCoherence
<1>4. QED
  BY <1>2, <1>3 DEF DeleteRequest, Inv, TypeOK, CacheCoherence, InSandbox, Responses

LEMMA OperationInv ==
  ASSUME Inv, BeginOperation \/ SucceedOperation \/ FailOperation
  PROVE  Inv'
<1> USE DEF Inv, TypeOK, CacheCoherence, InSandbox, Responses
<1>1. CASE BeginOperation
  <2>1. SandboxOf(main) \in Caches /\ Coherent(SandboxOf(main), ledger)
    BY SandboxKeepsView
  <2>2. QED
    BY <1>1, <2>1 DEF BeginOperation
<1>2. CASE SucceedOperation
  <2>1. /\ MergeSandbox(main, sandbox) \in Caches
        /\ WritesApartFromDeletes(MergeSandbox(main, sandbox))
        /\ ReadsAreCurrent(MergeSandbox(main, sandbox), ledger)
    BY <1>2, MergeKeepsSandboxView DEF SucceedOperation
  <2>2. QED
    BY <1>2, <2>1 DEF SucceedOperation
<1>3. CASE FailOperation
  BY <1>3 DEF FailOperation
<1>4. QED
  BY <1>1, <1>2, <1>3

LEMMA EndInv ==
  ASSUME Inv, Flush \/ NoFlush
  PROVE  Inv'
<1> USE DEF Inv, TypeOK, CacheCoherence, InSandbox, Responses
<1>1. CASE Flush
  <2>1. ledger' \in Ledgers
    BY <1>1, FlushWritesIsView, ViewIsLedger DEF Flush
  <2>2. EmptyCache \in Caches /\ Coherent(EmptyCache, ledger')
    BY <2>1, EmptyCacheCoherent
  <2>3. QED
    BY <1>1, <2>1, <2>2 DEF Flush, Coherent
<1>2. CASE NoFlush
  <2>1. EmptyCache \in Caches /\ Coherent(EmptyCache, ledger)
    BY EmptyCacheCoherent
  <2>2. QED
    BY <1>2, <2>1 DEF NoFlush, Coherent
<1>3. QED
  BY <1>1, <1>2

\* Every step preserves the types and the coherence of the caches.
LEMMA NextInv ==
  ASSUME Inv, [Next]_vars
  PROVE  Inv'
<1>1. CASE UNCHANGED vars
  BY <1>1 DEF vars, Inv, TypeOK, CacheCoherence, InSandbox
<1>2. CASE Next
  BY <1>2, GetInv, PutInv, DeleteInv, QueryInv, DeleteRequestInv, OperationInv, EndInv DEF Next
<1>3. QED
  BY <1>1, <1>2

\* The types and the coherence of the caches always hold.
THEOREM Invariant == Spec => []Inv
<1>1. QED
  BY InitInv, NextInv, PTL DEF Spec

\* Every variable always has its type: no call leaves the cache malformed.
THEOREM TypeCorrect == Spec => []TypeOK
<1>1. Inv => TypeOK
  BY DEF Inv
<1>2. QED
  BY <1>1, Invariant, PTL

(***************************************************************************)
(* The cache that code calls is always coherent: no key is both put and    *)
(* deleted when flushWrites runs, and no remembered read is stale.         *)
(***************************************************************************)
THEOREM AlwaysCoherent == Spec => []CacheCoherence
<1>1. Inv => CacheCoherence
  BY DEF Inv
<1>2. QED
  BY <1>1, Invariant, PTL

-----------------------------------------------------------------------------
(* The refinement: TransactionView's variables as GalaChainStub shows them. *)

view  == View(Current, ledger)
saved == IF InSandbox THEN View(main, ledger) ELSE NoSandbox

\* A saved copy is a world state, and so not the mark of its absence.
LEMMA SavedIsThere ==
  ASSUME Inv, InSandbox
  PROVE  saved = View(main, ledger) /\ saved # NoSandbox
<1>1. View(main, ledger) \in Ledgers
  BY ViewIsLedger DEF Inv, TypeOK
<1>2. QED
  BY <1>1, NoSandboxAssumption DEF saved

\* A call that changes the running code's cache leaves the saved copy alone.
LEMMA UpdateView ==
  ASSUME Inv, NEW c, UpdateCurrent(c), c # NoSandbox, UNCHANGED ledger
  PROVE  view' = View(c, ledger) /\ saved' = saved
BY DEF UpdateCurrent, view, saved, Current, InSandbox

LEMMA InitRefines == Init => TV!Init
<1> SUFFICES ASSUME Init PROVE TV!Init
  OBVIOUS
<1>1. View(EmptyCache, ledger) = ledger
  BY EmptyCacheCoherent DEF Init
<1>2. QED
  BY <1>1 DEF Init, TV!Init, Current, InSandbox, Done, TV!Done, Ledgers, Content, TV!Content

LEMMA CallRefines ==
  ASSUME Inv
  PROVE  /\ \A k \in Keys : Get(k) => TV!Get(k)
         /\ \A k \in Keys, v \in Values : Put(k, v) => TV!Put(k, v)
         /\ \A k \in Keys : Delete(k) => TV!Put(k, NoValue)
         /\ \A range \in Ranges : Query(range) => TV!Query(range)
<1> USE DEF view, saved
<1>0. /\ Running => Current \in Caches /\ Coherent(Current, ledger)
      /\ ledger \in Ledgers /\ NoSandbox \notin Caches
  BY CurrentCoherent, NoSandboxAssumption DEF Inv, TypeOK
<1>1. ASSUME NEW k \in Keys, Get(k) PROVE TV!Get(k)
  <2> DEFINE c == GetCachedState(Current, ledger, k)
  <2>1. c \in Caches /\ View(c, ledger) = view
    BY <1>0, <1>1, GetKeepsView DEF Get
  <2>2. view' = view /\ saved' = saved
    BY <1>0, <1>1, <2>1, UpdateView DEF Get
  <2>3. view[k] = CachedState(Current, ledger, k)
    BY DEF View
  <2>4. QED
    BY <1>1, <2>2, <2>3 DEF Get, TV!Get
<1>2. ASSUME NEW k \in Keys, NEW v \in Values, Put(k, v) PROVE TV!Put(k, v)
  <2> DEFINE c == PutState(Current, k, v)
  <2>1. c \in Caches /\ View(c, ledger) = [view EXCEPT ![k] = v]
    BY <1>0, <1>2, PutUpdatesView DEF Put
  <2>2. view' = View(c, ledger) /\ saved' = saved
    BY <1>0, <1>2, <2>1, UpdateView DEF Put
  <2>3. QED
    BY <1>2, <2>1, <2>2 DEF Put, TV!Put, Done, TV!Done
<1>3. ASSUME NEW k \in Keys, Delete(k) PROVE TV!Put(k, NoValue)
  <2> DEFINE c == DeleteState(Current, k)
  <2>1. c \in Caches /\ View(c, ledger) = [view EXCEPT ![k] = NoValue]
    BY <1>0, <1>3, DeleteUpdatesView DEF Delete
  <2>2. view' = View(c, ledger) /\ saved' = saved
    BY <1>0, <1>3, <2>1, UpdateView DEF Delete
  <2>3. QED
    BY <1>3, <2>1, <2>2 DEF Delete, TV!Put, Done, TV!Done
<1>4. ASSUME NEW range \in Ranges, Query(range) PROVE TV!Query(range)
  <2>1. PICK absent \in SUBSET {k \in range : view[k] = NoValue} :
          CachedStateByPartialKey(Current, ledger, range) =
            {<<k, view[k]>> : k \in {j \in range : view[j] # NoValue} \cup absent}
    BY <1>4, QueryEntries, RangesAssumption DEF Query
  <2>2. view' = view /\ saved' = saved
    BY <1>4 DEF Query, Current, InSandbox
  <2>3. QED
    BY <1>4, <2>1, <2>2 DEF Query, TV!Query
<1>5. QED
  BY <1>1, <1>2, <1>3, <1>4

LEMMA DeleteRequestRefines ==
  ASSUME Inv, NEW k \in Keys, DeleteRequest(k)
  PROVE  TV!Put(k, NoValue)
<1>1. main \in Caches /\ ledger \in Ledgers
  BY DEF Inv, TypeOK
<1>2. View(DeleteState(main, k), ledger) = [View(main, ledger) EXCEPT ![k] = NoValue]
  BY <1>1, DeleteUpdatesView
<1>3. QED
  BY <1>2 DEF DeleteRequest, TV!Put, Current, InSandbox, Done, TV!Done

LEMMA OperationRefines ==
  ASSUME Inv
  PROVE  /\ BeginOperation => TV!BeginOperation
         /\ SucceedOperation => TV!SucceedOperation
         /\ FailOperation => TV!FailOperation
<1>0. /\ ledger \in Ledgers /\ main \in Caches /\ NoSandbox \notin Caches
      /\ WritesApartFromDeletes(main) /\ ReadsAreCurrent(main, ledger)
      /\ InSandbox => sandbox \in Caches /\ Coherent(sandbox, ledger)
  BY NoSandboxAssumption DEF Inv, TypeOK, CacheCoherence, InSandbox
<1>1. ASSUME BeginOperation PROVE TV!BeginOperation
  <2>1. SandboxOf(main) \in Caches /\ View(SandboxOf(main), ledger) = View(main, ledger)
    BY <1>0, SandboxKeepsView
  <2>2. QED
    BY <1>0, <1>1, <2>1 DEF BeginOperation, TV!BeginOperation, Current, InSandbox, Done, TV!Done
<1>2. ASSUME SucceedOperation PROVE TV!SucceedOperation
  <2>1. View(MergeSandbox(main, sandbox), ledger) = View(sandbox, ledger)
    BY <1>0, <1>2, MergeKeepsSandboxView DEF SucceedOperation
  <2>2. saved # NoSandbox
    BY <1>2, SavedIsThere DEF SucceedOperation
  <2>3. QED
    BY <1>2, <2>1, <2>2 DEF SucceedOperation, TV!SucceedOperation, saved, Current, InSandbox, Done, TV!Done
<1>3. ASSUME FailOperation PROVE TV!FailOperation
  <2>1. saved = View(main, ledger) /\ saved # NoSandbox
    BY <1>3, SavedIsThere DEF FailOperation
  <2>2. QED
    BY <1>3, <2>1 DEF FailOperation, TV!FailOperation, saved, Current, InSandbox, Done, TV!Done
<1>4. QED
  BY <1>1, <1>2, <1>3

LEMMA EndRefines ==
  ASSUME Inv
  PROVE  /\ Flush => TV!Commit
         /\ NoFlush => TV!Discard
<1>0. /\ ledger \in Ledgers /\ main \in Caches
      /\ WritesApartFromDeletes(main) /\ ReadsAreCurrent(main, ledger)
  BY DEF Inv, TypeOK, CacheCoherence
<1>1. ASSUME Flush PROVE TV!Commit
  <2>1. ledger' = View(main, ledger) /\ ledger' \in Ledgers
    BY <1>0, <1>1, FlushWritesIsView, ViewIsLedger DEF Flush
  <2>2. View(EmptyCache, ledger') = ledger'
    BY <2>1, EmptyCacheCoherent
  <2>3. QED
    BY <1>1, <2>1, <2>2 DEF Flush, TV!Commit, Current, InSandbox, Done, TV!Done
<1>2. ASSUME NoFlush PROVE TV!Discard
  <2>1. View(EmptyCache, ledger) = ledger
    BY <1>0, EmptyCacheCoherent
  <2>2. QED
    BY <1>2, <2>1 DEF NoFlush, TV!Discard, Current, InSandbox, Done, TV!Done
<1>3. QED
  BY <1>1, <1>2

LEMMA StepRefines ==
  ASSUME Inv, [Next]_vars
  PROVE  [TV!Next]_(TV!vars)
<1>1. CASE UNCHANGED vars
  BY <1>1 DEF vars, TV!vars, Current, InSandbox
<1>2. CASE Next
  <2>1. ASSUME NEW k \in Keys, Get(k) PROVE TV!Next
    BY <2>1, CallRefines DEF TV!Next
  <2>2. ASSUME NEW k \in Keys, Delete(k) \/ DeleteRequest(k) PROVE TV!Next
    BY <2>2, CallRefines, DeleteRequestRefines DEF TV!Next, TV!Content
  <2>3. ASSUME NEW k \in Keys, NEW v \in Values, Put(k, v) PROVE TV!Next
    BY <2>3, CallRefines DEF TV!Next, TV!Content
  <2>4. ASSUME NEW range \in Ranges, Query(range) PROVE TV!Next
    BY <2>4, CallRefines, RangesAssumption DEF TV!Next
  <2>5. ASSUME BeginOperation \/ SucceedOperation \/ FailOperation PROVE TV!Next
    BY <2>5, OperationRefines DEF TV!Next
  <2>6. ASSUME Flush \/ NoFlush PROVE TV!Next
    BY <2>6, EndRefines DEF TV!Next
  <2>7. QED
    BY <1>2, <2>1, <2>2, <2>3, <2>4, <2>5, <2>6 DEF Next
<1>3. QED
  BY <1>1, <1>2

(***************************************************************************)
(* GalaChainStub implements TransactionView: whatever calls an invocation  *)
(* makes, its reads and queries see its own puts and deletes over the      *)
(* snapshot, a failed operation leaves nothing, and the flush commits      *)
(* exactly what was seen.                                                  *)
(***************************************************************************)
THEOREM Refinement == Spec => ImplementsView
<1>1. Init => TV!Init
  BY InitRefines
<1>2. Inv /\ [Next]_vars => [TV!Next]_(TV!vars)
  BY StepRefines
<1>3. QED
  BY <1>1, <1>2, Invariant, PTL DEF Spec, ImplementsView, TV!Spec
=============================================================================
