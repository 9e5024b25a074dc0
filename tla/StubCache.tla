------------------------------ MODULE StubCache ------------------------------
(***************************************************************************)
(* The cache that GalaChainStub puts in front of a Fabric chaincode stub   *)
(* (src/chaincode/src/types/GalaChainStub.ts), as a record and the         *)
(* functions its methods compute.  A cache holds the values the invocation *)
(* has put, the values it has read from the chain, and the keys it has     *)
(* deleted; the chain itself is not touched before flushWrites.            *)
(*                                                                         *)
(* The empty byte array that Fabric returns for a key that does not exist  *)
(* is NoValue.  It is cached like any other value.                         *)
(***************************************************************************)
EXTENDS FiniteSets, Functions

CONSTANTS
  Keys,      \* the world-state keys
  Values,    \* what can be stored at a key
  NoValue    \* the empty buffer of a key that is not there

ASSUME NoValueAssumption == NoValue \notin Values

Content == Values \cup {NoValue}

Ledgers == [Keys -> Content]

\* A JavaScript record with some of the keys: a function on a subset of Keys.
PartialMap(S) == UNION {[D -> S] : D \in SUBSET Keys}

Caches == [reads : PartialMap(Content), writes : PartialMap(Values), deletes : SUBSET Keys]

NoEntries == [k \in {} |-> NoValue]

EmptyCache == [reads |-> NoEntries, writes |-> NoEntries, deletes |-> {}]

With(f, k, v)  == [j \in DOMAIN f \cup {k} |-> IF j = k THEN v ELSE f[j]]
Without(f, k) == Restrict(f, DOMAIN f \ {k})

(***************************************************************************)
(* The definitions named ...ByEmptyValue, ...WritesOnly, ...AtLimit, ...   *)
(* and their like in other modules, are mutants: the definition after each *)
(* of them with a plausible bug.  No specification uses them; the checked  *)
(* properties have been seen to fail with them in its place.               *)
(***************************************************************************)

(***************************************************************************)
(* getCachedState: deletes, then writes, then earlier reads, then the      *)
(* chain; only a read that reaches the chain is remembered.                *)
(***************************************************************************)
CachedState(cache, ledger, k) ==
  IF k \in cache.deletes THEN NoValue
  ELSE IF k \in DOMAIN cache.writes THEN cache.writes[k]
  ELSE IF k \in DOMAIN cache.reads THEN cache.reads[k]
  ELSE ledger[k]

ReachesChain(cache, k) ==
  k \notin cache.deletes \cup DOMAIN cache.writes \cup DOMAIN cache.reads

GetCachedState(cache, ledger, k) ==
  IF ReachesChain(cache, k)
  THEN [cache EXCEPT !.reads = With(@, k, ledger[k])]
  ELSE cache

PutState(cache, k, v) ==
  [reads   |-> Without(cache.reads, k),
   writes  |-> With(cache.writes, k, v),
   deletes |-> cache.deletes \ {k}]

DeleteByEmptyValue(cache, k) ==
  [cache EXCEPT !.reads = Without(@, k), !.writes = With(@, k, NoValue)]

DeleteState(cache, k) ==
  [reads   |-> Without(cache.reads, k),
   writes  |-> Without(cache.writes, k),
   deletes |-> cache.deletes \cup {k}]

(***************************************************************************)
(* getCachedStateByPartialCompositeKey: the cached entries of the range,   *)
(* then the entries of the chain whose key is neither cached nor deleted.  *)
(* The result is the set of the <<key, value>> pairs the iterator yields.  *)
(***************************************************************************)
CachedStateByPartialKey(cache, ledger, range) ==
  LET entries  == [k \in DOMAIN cache.writes \cup DOMAIN cache.reads |->
                     IF k \in DOMAIN cache.writes THEN cache.writes[k] ELSE cache.reads[k]]
      cached   == DOMAIN entries \cap range
      excluded == cached \cup cache.deletes
  IN  {<<k, entries[k]>> : k \in cached}
        \cup {<<k, ledger[k]>> : k \in {j \in range \ excluded : ledger[j] # NoValue}}

\* flushWrites hands the deletes, then the puts, to the Fabric stub.
FlushWrites(cache, ledger) ==
  [k \in Keys |-> IF k \in DOMAIN cache.writes THEN cache.writes[k]
                  ELSE IF k \in cache.deletes THEN NoValue
                  ELSE ledger[k]]

WritesCount(cache) == Cardinality(DOMAIN cache.writes)

(***************************************************************************)
(* A sandbox for one operation of a batch: a fresh stub that is given the  *)
(* writes and deletes of its parent, and gives them back on success.       *)
(***************************************************************************)
SandboxOf(parent) == [parent EXCEPT !.reads = NoEntries]

MergeWritesOnly(parent, sandbox) == [parent EXCEPT !.writes = sandbox.writes]

MergeSandbox(parent, sandbox) ==
  [reads |-> parent.reads, writes |-> sandbox.writes, deletes |-> sandbox.deletes]

-----------------------------------------------------------------------------

(***************************************************************************)
(* No key is both to be put and to be deleted: flushWrites issues the      *)
(* deletes and the puts as two groups and relies on it.                    *)
(***************************************************************************)
WritesApartFromDeletes(cache) == DOMAIN cache.writes \cap cache.deletes = {}

\* A remembered read is what the chain holds.
ReadsAreCurrent(cache, ledger) == \A k \in DOMAIN cache.reads : cache.reads[k] = ledger[k]

(***************************************************************************)
(* A remembered read is of a key that was neither put nor deleted since:   *)
(* the range query lists the remembered reads without looking at the       *)
(* deletes.                                                                *)
(***************************************************************************)
ReadsApart(cache) ==
  DOMAIN cache.reads \cap (DOMAIN cache.writes \cup cache.deletes) = {}

Coherent(cache, ledger) == /\ WritesApartFromDeletes(cache)
                           /\ ReadsAreCurrent(cache, ledger)
                           /\ ReadsApart(cache)

\* The world state as the code that uses the cache sees it.
View(cache, ledger) == [k \in Keys |-> CachedState(cache, ledger, k)]
=============================================================================
