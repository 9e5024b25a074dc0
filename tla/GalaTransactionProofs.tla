------------------------ MODULE GalaTransactionProofs ------------------------
(***************************************************************************)
(* For any operations, batches and transactions: a batch stops at its      *)
(* limit, an external call is committed with its operation or not at all,  *)
(* and the transactions take effect one after the other.                   *)
(*                                                                         *)
(* A transaction is computed on a snapshot and committed on a later world  *)
(* state.  The invariant therefore says of every world state that agrees   *)
(* with the snapshot on the keys the transaction has read, that the        *)
(* operations that have ended could have run on it, and would have made    *)
(* of it what the transaction's cache shows over it.                       *)
(*                                                                         *)
(* At the end, of the requests that a contract saves to apply them in a    *)
(* later transaction: none takes effect twice, and they leave the queue in *)
(* order.  And of the users whose signatures a contract accepts: the       *)
(* quorum of every multisig profile can be met, no two keys sign for one   *)
(* user, and a key that was given up is not used again.                    *)
(***************************************************************************)
EXTENDS GalaTransaction, RequestQueue, UserProfiles, FiniteSetTheorems, WellFoundedInduction, TLAPS

(***************************************************************************)
(* What the methods of a cache do, they do whatever the variables are: the *)
(* facts that GalaChainStubProofs has of them hold of the caches here.  It *)
(* is instantiated for those facts alone, with any variables.              *)
(***************************************************************************)
Stub == INSTANCE GalaChainStubProofs WITH Ranges <- {}, ledger <- world, resp <- response

LEMMA SameSets ==
  /\ Stub!NoValueAssumption /\ Stub!RangesAssumption /\ Stub!NoSandboxAssumption
  /\ Stub!PartialMap(Content) = PartialMap(Content) /\ Stub!PartialMap(Values) = PartialMap(Values)
  /\ Stub!Content = Content /\ Stub!Ledgers = Ledgers /\ Stub!Caches = Caches
  /\ Stub!NoEntries = NoEntries /\ Stub!EmptyCache = EmptyCache
BY NoValueAssumption, ParametersAssumption
   DEF Stub!NoValueAssumption, Stub!RangesAssumption, Stub!NoSandboxAssumption,
       PartialMap, Content, Ledgers, Caches, NoEntries, EmptyCache, Stub!PartialMap,
       Stub!Content, Stub!Ledgers, Stub!Caches, Stub!NoEntries, Stub!EmptyCache

LEMMA SameView ==
  ASSUME NEW c, NEW chain
  PROVE  /\ Stub!WritesApartFromDeletes(c) <=> WritesApartFromDeletes(c)
         /\ Stub!ReadsAreCurrent(c, chain) <=> ReadsAreCurrent(c, chain)
         /\ Stub!Coherent(c, chain) <=> Coherent(c, chain)
         /\ Stub!View(c, chain) = View(c, chain)
BY DEF WritesApartFromDeletes, ReadsAreCurrent, ReadsApart, Coherent, View, CachedState,
       Stub!WritesApartFromDeletes, Stub!ReadsAreCurrent, Stub!ReadsApart, Stub!Coherent,
       Stub!View, Stub!CachedState

LEMMA SameMethods ==
  ASSUME NEW c, NEW s, NEW chain, NEW k, NEW v
  PROVE  /\ Stub!GetCachedState(c, chain, k) = GetCachedState(c, chain, k)
         /\ Stub!PutState(c, k, v) = PutState(c, k, v)
         /\ Stub!DeleteState(c, k) = DeleteState(c, k)
         /\ Stub!FlushWrites(c, chain) = FlushWrites(c, chain)
         /\ Stub!SandboxOf(c) = SandboxOf(c)
         /\ Stub!MergeSandbox(c, s) = MergeSandbox(c, s)
<1>2. Stub!GetCachedState(c, chain, k) = GetCachedState(c, chain, k)
  BY DEF GetCachedState, ReachesChain, With, Stub!GetCachedState, Stub!ReachesChain, Stub!With
<1>3. Stub!PutState(c, k, v) = PutState(c, k, v)
  BY DEF PutState, With, Without, Restrict, Stub!PutState, Stub!With, Stub!Without, Stub!Restrict
<1>4. Stub!DeleteState(c, k) = DeleteState(c, k)
  BY DEF DeleteState, Without, Restrict, Stub!DeleteState, Stub!Without, Stub!Restrict
<1>5. Stub!FlushWrites(c, chain) = FlushWrites(c, chain)
  BY DEF FlushWrites, Stub!FlushWrites
<1>6. Stub!SandboxOf(c) = SandboxOf(c) /\ Stub!MergeSandbox(c, s) = MergeSandbox(c, s)
  BY DEF SandboxOf, MergeSandbox, NoEntries, Stub!SandboxOf, Stub!MergeSandbox, Stub!NoEntries
<1>7. QED
  BY <1>2, <1>3, <1>4, <1>5, <1>6

\* The parts of a cache.
LEMMA CacheParts ==
  ASSUME NEW c \in Caches
  PROVE  /\ c = [reads |-> c.reads, writes |-> c.writes, deletes |-> c.deletes]
         /\ c.reads \in PartialMap(Content)
         /\ c.writes \in PartialMap(Values)
         /\ c.deletes \in SUBSET Keys
         /\ DOMAIN c.reads \in SUBSET Keys /\ DOMAIN c.writes \in SUBSET Keys
         /\ \A k \in DOMAIN c.reads : c.reads[k] \in Content
         /\ \A k \in DOMAIN c.writes : c.writes[k] \in Values
BY Stub!CacheParts, SameSets

\* An empty map is a partial map, and an empty cache a coherent cache.
LEMMA EmptyCacheCoherent ==
  ASSUME NEW chain \in Ledgers
  PROVE  /\ NoEntries \in PartialMap(Content) /\ DOMAIN NoEntries = {}
         /\ EmptyCache \in Caches
         /\ Coherent(EmptyCache, chain)
         /\ View(EmptyCache, chain) = chain
BY Stub!EmptyCacheCoherent, SameSets, SameView

\* Reading never changes what the code sees.
LEMMA GetKeepsView ==
  ASSUME NEW c \in Caches, NEW chain \in Ledgers, NEW k \in Keys
  PROVE  /\ GetCachedState(c, chain, k) \in Caches
         /\ Coherent(c, chain) => Coherent(GetCachedState(c, chain, k), chain)
         /\ View(GetCachedState(c, chain, k), chain) = View(c, chain)
<1> DEFINE d == GetCachedState(c, chain, k)
<1>1. Stub!GetCachedState(c, chain, k) = d
  BY SameMethods
<1> HIDE DEF d
<1>2. /\ d \in Caches
      /\ Stub!Coherent(c, chain) => Stub!Coherent(d, chain)
      /\ Stub!View(d, chain) = Stub!View(c, chain)
  BY <1>1, Stub!GetKeepsView, SameSets
<1>3. /\ d \in Caches
      /\ Coherent(c, chain) => Coherent(d, chain)
      /\ View(d, chain) = View(c, chain)
  BY <1>2, SameView
<1>4. QED
  BY <1>3 DEF d

\* A put changes what the code sees at its key, and there only.
LEMMA PutUpdatesView ==
  ASSUME NEW c \in Caches, NEW chain \in Ledgers, NEW k \in Keys, NEW v \in Values
  PROVE  /\ PutState(c, k, v) \in Caches
         /\ Coherent(c, chain) => Coherent(PutState(c, k, v), chain)
         /\ View(PutState(c, k, v), chain) = [View(c, chain) EXCEPT ![k] = v]
<1> DEFINE d == PutState(c, k, v)
<1>1. Stub!PutState(c, k, v) = d
  BY SameMethods
<1> HIDE DEF d
<1>2. /\ d \in Caches
      /\ Stub!Coherent(c, chain) => Stub!Coherent(d, chain)
      /\ Stub!View(d, chain) = [Stub!View(c, chain) EXCEPT ![k] = v]
  BY <1>1, Stub!PutUpdatesView, SameSets
<1>3. /\ d \in Caches
      /\ Coherent(c, chain) => Coherent(d, chain)
      /\ View(d, chain) = [View(c, chain) EXCEPT ![k] = v]
  BY <1>2, SameView
<1>4. QED
  BY <1>3 DEF d

\* A delete empties its key, and no other.
LEMMA DeleteUpdatesView ==
  ASSUME NEW c \in Caches, NEW chain \in Ledgers, NEW k \in Keys
  PROVE  /\ DeleteState(c, k) \in Caches
         /\ Coherent(c, chain) => Coherent(DeleteState(c, k), chain)
         /\ View(DeleteState(c, k), chain) = [View(c, chain) EXCEPT ![k] = NoValue]
<1> DEFINE d == DeleteState(c, k)
<1>1. Stub!DeleteState(c, k) = d
  BY SameMethods
<1> HIDE DEF d
<1>2. /\ d \in Caches
      /\ Stub!Coherent(c, chain) => Stub!Coherent(d, chain)
      /\ Stub!View(d, chain) = [Stub!View(c, chain) EXCEPT ![k] = NoValue]
  BY <1>1, Stub!DeleteUpdatesView, SameSets
<1>3. /\ d \in Caches
      /\ Coherent(c, chain) => Coherent(d, chain)
      /\ View(d, chain) = [View(c, chain) EXCEPT ![k] = NoValue]
  BY <1>2, SameView
<1>4. QED
  BY <1>3 DEF d

\* What the code sees is a world state.
LEMMA ViewIsLedger ==
  ASSUME NEW c \in Caches, NEW chain \in Ledgers
  PROVE  View(c, chain) \in Ledgers
BY Stub!ViewIsLedger, SameSets, SameView

\* The flush makes the world state what the code saw.
LEMMA FlushWritesIsView ==
  ASSUME NEW c \in Caches, NEW chain \in Ledgers,
         WritesApartFromDeletes(c), ReadsAreCurrent(c, chain)
  PROVE  FlushWrites(c, chain) = View(c, chain)
BY Stub!FlushWritesIsView, SameSets, SameView, SameMethods

\* A sandbox sees what its parent saw.
LEMMA SandboxKeepsView ==
  ASSUME NEW c \in Caches, NEW chain \in Ledgers,
         WritesApartFromDeletes(c), ReadsAreCurrent(c, chain)
  PROVE  /\ SandboxOf(c) \in Caches
         /\ Coherent(SandboxOf(c), chain)
         /\ View(SandboxOf(c), chain) = View(c, chain)
BY Stub!SandboxKeepsView, SameSets, SameView, SameMethods

\* A parent that is given the writes and deletes of a sandbox sees what it saw.
LEMMA MergeKeepsSandboxView ==
  ASSUME NEW c \in Caches, NEW s \in Caches, NEW chain \in Ledgers,
         ReadsAreCurrent(c, chain), Coherent(s, chain)
  PROVE  /\ MergeSandbox(c, s) \in Caches
         /\ WritesApartFromDeletes(MergeSandbox(c, s))
         /\ ReadsAreCurrent(MergeSandbox(c, s), chain)
         /\ View(MergeSandbox(c, s), chain) = View(s, chain)
BY Stub!MergeKeepsSandboxView, SameSets, SameView, SameMethods

-----------------------------------------------------------------------------

\* What a transaction has of its own.
State(t) == [phase |-> phase[t], stage |-> stage[t], snapshot |-> snapshot[t], main |-> main[t],
             sandbox |-> sandbox[t], results |-> results[t], readSet |-> readSet[t],
             invoked |-> invoked[t], response |-> response[t]]

\* How far a transaction in the state x is, and what it has at that point.
Control(t, x) ==
  /\ Len(x.results) <= Len(Operations[t])
  /\ x.phase = "idle" => /\ x.stage \in {"dryRun", "unique"} /\ x.main = EmptyCache
                         /\ x.readSet = {} /\ x.invoked = {}
  /\ x.stage = "dryRun" => t \in DryRuns
  /\ x.sandbox # NoSandbox => /\ t \in Batches /\ x.phase = "running"
                              /\ x.stage \in {"unique", "body", "return"}
                              /\ Len(x.results) < Len(Operations[t])
  /\ t \in Batches /\ x.sandbox = NoSandbox =>
       /\ x.stage \in {"unique", "loop"}
       /\ x.stage = "unique" => x.main = EmptyCache /\ x.results = << >>
  /\ t \notin Batches => /\ x.stage # "loop"
                         /\ x.phase \in {"idle", "running"} => x.results = << >>
                         /\ x.stage \in {"dryRun", "unique"} => x.main = EmptyCache

\* A cache whose remembered reads are of the snapshot, and in the read set.
Kept(c, x) == /\ WritesApartFromDeletes(c)
              /\ ReadsAreCurrent(c, x.snapshot.world)
              /\ DOMAIN c.reads \subseteq x.readSet

Coherence(t, x) ==
  /\ Kept(x.main, x)
  /\ t \notin Batches => ReadsApart(x.main)
  /\ x.sandbox # NoSandbox => Kept(x.sandbox, x) /\ ReadsApart(x.sandbox)

\* How many writes an operation of a batch may have reached at each stage.
Reached(step) == CASE step = "unique" -> WritesLimit - 1
                   [] step = "body"   -> WritesLimit
                   [] OTHER           -> WritesLimit + 1

Limited(t, x) ==
  /\ IsFiniteSet(DOMAIN x.main.writes)
  /\ t \in Batches => WritesCount(x.main) <= WritesLimit + 1
  /\ x.sandbox # NoSandbox => /\ IsFiniteSet(DOMAIN x.sandbox.writes)
                              /\ WritesCount(x.sandbox) <= Reached(x.stage)
  /\ \A i \in DOMAIN x.results : x.results[i] = "limit" =>
       /\ x.sandbox = NoSandbox
       /\ WritesCount(x.main) >= WritesLimit
       /\ \A j \in DOMAIN x.results : i < j => x.results[j] = "limit"

\* Of a transaction with one operation that throws its errors.
InvokedOnce(t, x) ==
  /\ t \notin Batches \cup DryRuns /\ Operations[t][1] \notin Wrapped
  /\ x.invoked # {} /\ x.phase # "refused"
  => /\ x.invoked = {1}
     /\ x.phase = "running" => x.stage = "return"
     /\ x.phase # "running" => x.results = <<"ok">> /\ x.response = "Success"

\* The effects of the transaction are, or may still be, committed.
Alive(t, x) == \/ x.phase = "running"
               \/ x.phase = "endorsed" /\ x.response = "Success" /\ t \notin DryRuns

Outcome(t, x) ==
  Alive(t, x) =>
    /\ x.phase = "endorsed" => IF t \in Batches
                               THEN x.stage = "loop" /\ Len(x.results) = Len(Operations[t])
                               ELSE x.stage = "return" /\ x.results = <<"ok">>
    /\ t \in Batches \cap NoPartialSuccess => \A i \in DOMAIN x.results : x.results[i] = "ok"

-----------------------------------------------------------------------------
(* The replay of a transaction on another world state.                     *)

Agrees(x, w) == w \in Ledgers /\ \A k \in x.readSet : w[k] = x.snapshot.world[k]

\* What an operation shows that began where base was shown.
Progress(op, step, base, view) ==
  /\ step \in {"dryRun", "unique"} => view = base
  /\ step = "body" => /\ base[UniqueKey[op]] = NoValue
                      /\ view = [base EXCEPT ![UniqueKey[op]] = 1]
  /\ step = "return" => AO!CanRun(base, op) /\ view = AO!Run(base, op)

\* The world states between the operations of a batch.
Replays(t, x, w, states) ==
  /\ states \in [0 .. Len(x.results) -> Ledgers]
  /\ states[0] = [w EXCEPT ![BatchKey[t]] = 1]
  /\ \A i \in 1 .. Len(x.results) :
       IF x.results[i] = "ok"
       THEN AO!CanRun(states[i - 1], Operations[t][i])
              /\ states[i] = AO!Run(states[i - 1], Operations[t][i])
       ELSE states[i] = states[i - 1]
  /\ states[Len(x.results)] = View(x.main, w)

ReplayOfBatch(t, x, w) ==
  x.stage # "unique" \/ x.sandbox # NoSandbox =>
    /\ w[BatchKey[t]] = NoValue
    /\ \E states : Replays(t, x, w, states)
    /\ x.sandbox # NoSandbox => Progress(Operations[t][Len(x.results) + 1], x.stage,
                                         View(x.main, w), View(x.sandbox, w))

Replay(t, x) ==
  Alive(t, x) =>
    \A w : Agrees(x, w) => IF t \in Batches
                           THEN ReplayOfBatch(t, x, w)
                           ELSE Progress(Operations[t][1], x.stage, w, View(x.main, w))

Sound(t, x) == /\ Control(t, x) /\ Coherence(t, x) /\ Limited(t, x)
               /\ InvokedOnce(t, x) /\ Outcome(t, x) /\ Replay(t, x)

\* A key whose version is that of the snapshot has its value.
Versioned(s, w, v) == \A k \in Keys : /\ s.version[k] <= v[k]
                                      /\ s.version[k] = v[k] => s.world[k] = w[k]

\* The types of what a transaction has of its own.
States == [phase : {"idle", "running", "endorsed", "refused", "committed", "invalid"},
           stage : {"dryRun", "unique", "body", "return", "loop"},
           snapshot : [world : Ledgers, version : [Keys -> Nat]],
           main : Caches, sandbox : Caches \cup {NoSandbox}, results : Seq(Results),
           readSet : SUBSET Keys, invoked : SUBSET Nat, response : {"none", "Success", "Error"}]

Inv == /\ TypeOK
       /\ \A t \in Tx : Versioned(snapshot[t], world, version)
       /\ \A t \in Tx : Sound(t, State(t))

-----------------------------------------------------------------------------
(* The cache on two world states that agree.                               *)

LEMMA ValuesType ==
  /\ 0 \in Content /\ 1 \in Values /\ 0 \notin Values /\ Values \subseteq Content
  /\ Content \subseteq Nat /\ NoValue = 0
BY ParametersAssumption, NoValueAssumption DEF Content

\* What has been read from the snapshot is current on a world state that agrees.
LEMMA KeptOnAgreeing ==
  ASSUME NEW x, NEW c, Kept(c, x), NEW w, Agrees(x, w)
  PROVE  ReadsAreCurrent(c, w)
BY DEF Kept, Agrees, ReadsAreCurrent

\* A read of a key that is then put: the same on both world states.
LEMMA ReadThenPut ==
  ASSUME NEW c \in Caches, NEW s \in Ledgers, NEW w \in Ledgers, NEW k \in Keys, NEW v \in Values,
         Coherent(c, s), Coherent(c, w), ReachesChain(c, k) => w[k] = s[k]
  PROVE  LET d == PutState(GetCachedState(c, s, k), k, v)
         IN  /\ d \in Caches /\ Coherent(d, s)
             /\ DOMAIN d.reads \subseteq DOMAIN c.reads
             /\ DOMAIN d.writes = DOMAIN c.writes \cup {k}
             /\ CachedState(c, s, k) = View(c, w)[k]
             /\ View(d, w) = [View(c, w) EXCEPT ![k] = v]
<1> DEFINE g == GetCachedState(c, s, k)
           d == PutState(g, k, v)
<1>1. g = GetCachedState(c, w, k)
  BY DEF GetCachedState
<1>2. g \in Caches /\ Coherent(g, s) /\ Coherent(g, w) /\ View(g, w) = View(c, w)
  BY <1>1, GetKeepsView
<1>3. DOMAIN g.reads \subseteq DOMAIN c.reads \cup {k} /\ g.writes = c.writes
  BY CacheParts DEF GetCachedState, With, Caches
<1>4. d \in Caches /\ Coherent(d, s) /\ View(d, w) = [View(g, w) EXCEPT ![k] = v]
  BY <1>2, PutUpdatesView
<1>5. DOMAIN d.reads = DOMAIN g.reads \ {k} /\ DOMAIN d.writes = DOMAIN g.writes \cup {k}
  <2>2. DOMAIN Without(g.reads, k) = DOMAIN g.reads \ {k}
    BY DEF Without, Restrict
  <2>3. QED
    BY <2>2 DEF PutState, With
<1>6. CachedState(c, s, k) = View(c, w)[k]
  BY DEF CachedState, View, ReachesChain
<1>7. QED
  BY <1>2, <1>3, <1>4, <1>5, <1>6

\* A read of a key that is then deleted.
LEMMA ReadThenDelete ==
  ASSUME NEW c \in Caches, NEW s \in Ledgers, NEW w \in Ledgers, NEW k \in Keys,
         Coherent(c, s), Coherent(c, w), ReachesChain(c, k) => w[k] = s[k]
  PROVE  LET d == DeleteState(GetCachedState(c, s, k), k)
         IN  /\ d \in Caches /\ Coherent(d, s)
             /\ DOMAIN d.reads \subseteq DOMAIN c.reads
             /\ DOMAIN d.writes = DOMAIN c.writes \ {k}
             /\ CachedState(c, s, k) = View(c, w)[k]
             /\ View(d, w) = [View(c, w) EXCEPT ![k] = NoValue]
<1> DEFINE g == GetCachedState(c, s, k)
           d == DeleteState(g, k)
<1>1. g = GetCachedState(c, w, k)
  BY DEF GetCachedState
<1>2. g \in Caches /\ Coherent(g, s) /\ Coherent(g, w) /\ View(g, w) = View(c, w)
  BY <1>1, GetKeepsView
<1>3. DOMAIN g.reads \subseteq DOMAIN c.reads \cup {k} /\ g.writes = c.writes
  BY CacheParts DEF GetCachedState, With, Caches
<1>4. d \in Caches /\ Coherent(d, s) /\ View(d, w) = [View(g, w) EXCEPT ![k] = NoValue]
  BY <1>2, DeleteUpdatesView
<1>5. DOMAIN d.reads = DOMAIN g.reads \ {k} /\ DOMAIN d.writes = DOMAIN g.writes \ {k}
  <2>2. DOMAIN Without(g.reads, k) = DOMAIN g.reads \ {k}
    BY DEF Without, Restrict
  <2>3. DOMAIN Without(g.writes, k) = DOMAIN g.writes \ {k}
    BY DEF Without, Restrict
  <2>4. QED
    BY <2>2, <2>3 DEF DeleteState
<1>6. CachedState(c, s, k) = View(c, w)[k]
  BY DEF CachedState, View, ReachesChain
<1>7. QED
  BY <1>2, <1>3, <1>4, <1>5, <1>6

\* What an operation does to what it shows.
LEMMA RunIsTwoUpdates ==
  ASSUME NEW base \in Ledgers, NEW op \in Ops
  PROVE  LET marked == [base EXCEPT ![UniqueKey[op]] = 1]
         IN  /\ marked \in Ledgers
             /\ marked[Slot[op]] = base[Slot[op]]
             /\ AO!Run(base, op) =
                  [marked EXCEPT ![Slot[op]] = IF op \in Clearing THEN NoValue ELSE marked[Slot[op]] + 1]
<1>1. UniqueKey[op] \in Keys /\ Slot[op] \in Keys /\ UniqueKey[op] # Slot[op]
  BY ParametersAssumption
<1>2. QED
  BY <1>1, ValuesType DEF AO!Run, Ledgers

LEMMA RunType ==
  ASSUME NEW base \in Ledgers, NEW op \in Ops, AO!CanRun(base, op)
  PROVE  AO!Run(base, op) \in Ledgers
<1>1. UniqueKey[op] \in Keys /\ Slot[op] \in Keys
  BY ParametersAssumption
<1>2. IF op \in Clearing THEN NoValue \in Content ELSE base[Slot[op]] + 1 \in Content
  BY ValuesType DEF AO!CanRun
<1>3. QED
  BY <1>1, <1>2, ValuesType, RunIsTwoUpdates DEF Ledgers

-----------------------------------------------------------------------------
(* A step of one transaction.                                              *)

\* The transaction t gets to the state y.
Moves(t, y) ==
  /\ phase' = [phase EXCEPT ![t] = y.phase]
  /\ stage' = [stage EXCEPT ![t] = y.stage]
  /\ snapshot' = [snapshot EXCEPT ![t] = y.snapshot]
  /\ main' = [main EXCEPT ![t] = y.main]
  /\ sandbox' = [sandbox EXCEPT ![t] = y.sandbox]
  /\ results' = [results EXCEPT ![t] = y.results]
  /\ readSet' = [readSet EXCEPT ![t] = y.readSet]
  /\ invoked' = [invoked EXCEPT ![t] = y.invoked]
  /\ response' = [response EXCEPT ![t] = y.response]

LEMMA StateType ==
  ASSUME TypeOK, NEW t \in Tx
  PROVE  State(t) \in States
BY DEF TypeOK, State, States

\* What the state of a transaction is after a step.
LEMMA MovesOne ==
  ASSUME TypeOK, NEW t \in Tx, NEW y \in States, Moves(t, y)
  PROVE  /\ State(t)' = y
         /\ \A u \in Tx \ {t} : State(u)' = State(u)
<1>1. /\ DOMAIN phase = Tx /\ DOMAIN stage = Tx /\ DOMAIN snapshot = Tx /\ DOMAIN main = Tx
      /\ DOMAIN sandbox = Tx /\ DOMAIN results = Tx /\ DOMAIN readSet = Tx
      /\ DOMAIN invoked = Tx /\ DOMAIN response = Tx
  BY DEF TypeOK
<1>2. y = [phase |-> y.phase, stage |-> y.stage, snapshot |-> y.snapshot, main |-> y.main,
           sandbox |-> y.sandbox, results |-> y.results, readSet |-> y.readSet,
           invoked |-> y.invoked, response |-> y.response]
  BY DEF States
<1>3. State(t)' = y
  BY <1>1, <1>2 DEF State, Moves
<1>4. ASSUME NEW u \in Tx \ {t} PROVE State(u)' = State(u)
  BY <1>1, <1>4 DEF State, Moves
<1>5. QED
  BY <1>3, <1>4

LEMMA MovesType ==
  ASSUME TypeOK, NEW t \in Tx, NEW y \in States, Moves(t, y),
         Len(y.results) <= Len(Operations[t]), world' \in Ledgers, version' \in [Keys -> Nat]
  PROVE  TypeOK'
BY DEF TypeOK, States, Moves

\* A step that leaves the world state alone keeps the invariant if t gets to a sound state.
LEMMA MovesKeepInv ==
  ASSUME Inv, NEW t \in Tx, NEW y \in States, Moves(t, y), Sound(t, y),
         UNCHANGED <<world, version>>,
         y.snapshot \in {snapshot[t], [world |-> world, version |-> version]}
  PROVE  Inv'
<1>1. TypeOK'
  BY MovesType DEF Inv, TypeOK, Sound, Control
<1>2. \A u \in Tx : Versioned(snapshot[u], world, version)'
  <2>1. Versioned(snapshot[t], world, version)'
    <3>1. snapshot'[t] = y.snapshot
      BY DEF Inv, TypeOK, Moves
    <3>2. CASE y.snapshot = snapshot[t]
      BY <3>1, <3>2 DEF Inv, Versioned
    <3>3. CASE y.snapshot = [world |-> world, version |-> version]
      BY <3>1, <3>3 DEF Inv, TypeOK, Versioned
    <3>4. QED
      BY <3>2, <3>3
  <2>2. ASSUME NEW u \in Tx \ {t} PROVE Versioned(snapshot[u], world, version)'
    <3>1. snapshot'[u] = snapshot[u]
      BY <2>2 DEF Inv, TypeOK, Moves
    <3>2. QED
      BY <3>1 DEF Inv, Versioned
  <2>3. QED
    BY <2>1, <2>2
<1>3. \A u \in Tx : Sound(u, State(u))'
  <2>1. State(t)' = y /\ \A u \in Tx \ {t} : State(u)' = State(u)
    BY MovesOne DEF Inv
  <2>2. Sound(t, State(t))'
    BY <2>1 DEF Sound, Control, Coherence, Limited, InvokedOnce, Outcome, Replay
  <2>3. QED
    BY <2>1, <2>2 DEF Inv
<1>4. QED
  BY <1>1, <1>2, <1>3 DEF Inv

-----------------------------------------------------------------------------
(* The steps, from one state of a transaction to the next.                 *)

\* The operation that runs, or would run next, and its keys.
LEMMA OpType ==
  ASSUME NEW t \in Tx, NEW x \in States, Control(t, x),
         \/ x.sandbox # NoSandbox
         \/ t \notin Batches /\ x.phase \in {"idle", "running"}
  PROVE  /\ Operations[t] \in Seq(Ops)
         /\ Len(x.results) + 1 \in 1 .. Len(Operations[t])
         /\ Operations[t][Len(x.results) + 1] \in Ops
         /\ UniqueKey[Operations[t][Len(x.results) + 1]] \in Keys
         /\ Slot[Operations[t][Len(x.results) + 1]] \in Keys
<1>1. Operations[t] \in Seq(Ops) /\ Len(x.results) \in Nat
  BY ParametersAssumption DEF States
<1>2. Len(x.results) + 1 \in 1 .. Len(Operations[t])
  <2>1. CASE x.sandbox # NoSandbox
    BY <1>1, <2>1 DEF Control
  <2>2. CASE t \notin Batches /\ x.phase \in {"idle", "running"}
    <3>1. x.results = << >> /\ Len(Operations[t]) = 1
      BY <2>2, ParametersAssumption DEF Control
    <3>2. QED
      BY <3>1
  <2>3. QED
    BY <2>1, <2>2
<1>3. Operations[t][Len(x.results) + 1] \in Ops
  BY <1>1, <1>2
<1>4. QED
  BY <1>1, <1>2, <1>3, ParametersAssumption

LEMMA EmptyCacheKept ==
  ASSUME NEW x \in States
  PROVE  /\ EmptyCache \in Caches /\ Kept(EmptyCache, x) /\ ReadsApart(EmptyCache)
         /\ IsFiniteSet(DOMAIN EmptyCache.writes) /\ WritesCount(EmptyCache) = 0
         /\ \A w \in Ledgers : View(EmptyCache, w) = w
<1>1. x.snapshot.world \in Ledgers
  BY DEF States
<1>2. EmptyCache \in Caches /\ Coherent(EmptyCache, x.snapshot.world)
  BY <1>1, EmptyCacheCoherent
<1>3. DOMAIN EmptyCache.writes = {} /\ DOMAIN EmptyCache.reads = {}
  BY DEF EmptyCache, NoEntries
<1>4. QED
  BY <1>2, <1>3, EmptyCacheCoherent, FS_EmptySet DEF Coherent, Kept, WritesCount

\* More reads, and nothing else that counts for the world states that agree.
LEMMA AgreesLess ==
  ASSUME NEW x \in States, NEW y \in States, y.snapshot = x.snapshot, x.readSet \subseteq y.readSet
  PROVE  /\ \A w : Agrees(y, w) => Agrees(x, w)
         /\ \A c : Kept(c, x) => Kept(c, y)
BY DEF Agrees, Kept

LEMMA BeginIsSound ==
  ASSUME NEW t \in Tx, NEW x \in States, Sound(t, x), x.phase = "idle",
         NEW s \in [world : Ledgers, version : [Keys -> Nat]]
  PROVE  LET y == [x EXCEPT !.phase = "running", !.snapshot = s]
         IN  y \in States /\ Sound(t, y)
<1> DEFINE y == [x EXCEPT !.phase = "running", !.snapshot = s]
<1>1. y \in States
  BY DEF States
<1>2. /\ y.phase = "running" /\ y.stage = x.stage /\ y.main = EmptyCache /\ y.sandbox = NoSandbox
      /\ y.results = x.results /\ y.readSet = {} /\ y.invoked = {} /\ x.sandbox = NoSandbox
      /\ x.stage \in {"dryRun", "unique"}
  BY DEF States, Sound, Control
<1>3. Control(t, y)
  BY <1>2 DEF Sound, Control
<1>4. Coherence(t, y)
  BY <1>1, <1>2, EmptyCacheKept DEF Coherence
<1>5. Limited(t, y)
  BY <1>2 DEF Sound, Limited
<1>6. InvokedOnce(t, y) 
  BY <1>2 DEF InvokedOnce
<1>7. Outcome(t, y)
  BY <1>2, <1>3 DEF Outcome, Control
<1>8. Replay(t, y)
  BY <1>1, <1>2, <1>3, EmptyCacheKept DEF Replay, Agrees, Progress, ReplayOfBatch, Control
<1>9. QED
  BY <1>1, <1>3, <1>4, <1>5, <1>6, <1>7, <1>8 DEF Sound

\* A read of a key, which is then put.
LEMMA PutIsSound ==
  ASSUME NEW x \in States, NEW y \in States, NEW c \in Caches, NEW k \in Keys, NEW v \in Values,
         Kept(c, x), ReadsApart(c), IsFiniteSet(DOMAIN c.writes), y.snapshot = x.snapshot,
         x.readSet \subseteq y.readSet, ReachesChain(c, k) => k \in y.readSet
  PROVE  LET s == x.snapshot.world
             d == PutState(GetCachedState(c, s, k), k, v)
         IN  /\ d \in Caches /\ Kept(d, y) /\ ReadsApart(d)
             /\ IsFiniteSet(DOMAIN d.writes) /\ WritesCount(c) \in Nat
             /\ WritesCount(d) \in Nat /\ WritesCount(d) <= WritesCount(c) + 1
             /\ \A w : Agrees(y, w) => /\ CachedState(c, s, k) = View(c, w)[k]
                                       /\ View(d, w) = [View(c, w) EXCEPT ![k] = v]
<1> DEFINE s == x.snapshot.world
           d == PutState(GetCachedState(c, s, k), k, v)
<1>1. s \in Ledgers /\ Coherent(c, s) /\ DOMAIN c.reads \subseteq x.readSet
  BY DEF States, Kept, Coherent
<1>2. /\ d \in Caches /\ Coherent(d, s) /\ DOMAIN d.reads \subseteq DOMAIN c.reads
      /\ DOMAIN d.writes = DOMAIN c.writes \cup {k}
  BY <1>1, ReadThenPut
<1>3. Kept(d, y) /\ ReadsApart(d)
  BY <1>1, <1>2 DEF Kept, Coherent
<1>4. /\ IsFiniteSet(DOMAIN d.writes) /\ WritesCount(c) \in Nat
      /\ WritesCount(d) \in Nat /\ WritesCount(d) <= WritesCount(c) + 1
  <2>1. Cardinality(DOMAIN c.writes) \in Nat
    BY FS_CardinalityType
  <2>2. /\ IsFiniteSet(DOMAIN c.writes \cup {k})
        /\ Cardinality(DOMAIN c.writes \cup {k}) =
             IF k \in DOMAIN c.writes THEN Cardinality(DOMAIN c.writes)
                                      ELSE Cardinality(DOMAIN c.writes) + 1
    BY FS_AddElement
  <2>3. QED
    BY <1>2, <2>1, <2>2 DEF WritesCount
<1>5. ASSUME NEW w, Agrees(y, w)
      PROVE  /\ CachedState(c, s, k) = View(c, w)[k]
             /\ View(d, w) = [View(c, w) EXCEPT ![k] = v]
  <2>1. w \in Ledgers /\ (ReachesChain(c, k) => w[k] = s[k])
    BY <1>5 DEF Agrees
  <2>2. Agrees(x, w)
    BY <1>5, AgreesLess
  <2>3. Coherent(c, w)
    BY <2>2, KeptOnAgreeing DEF Kept, Coherent
  <2>4. QED
    BY <1>1, <2>1, <2>3, ReadThenPut
<1>6. QED
  BY <1>2, <1>3, <1>4, <1>5

\* A read of a key, which is then deleted.
LEMMA DeleteIsSound ==
  ASSUME NEW x \in States, NEW y \in States, NEW c \in Caches, NEW k \in Keys,
         Kept(c, x), ReadsApart(c), IsFiniteSet(DOMAIN c.writes), y.snapshot = x.snapshot,
         x.readSet \subseteq y.readSet, ReachesChain(c, k) => k \in y.readSet
  PROVE  LET s == x.snapshot.world
             d == DeleteState(GetCachedState(c, s, k), k)
         IN  /\ d \in Caches /\ Kept(d, y) /\ ReadsApart(d)
             /\ IsFiniteSet(DOMAIN d.writes) /\ WritesCount(c) \in Nat
             /\ WritesCount(d) \in Nat /\ WritesCount(d) <= WritesCount(c) + 1
             /\ \A w : Agrees(y, w) => /\ CachedState(c, s, k) = View(c, w)[k]
                                       /\ View(d, w) = [View(c, w) EXCEPT ![k] = NoValue]
<1> DEFINE s == x.snapshot.world
           d == DeleteState(GetCachedState(c, s, k), k)
<1>1. s \in Ledgers /\ Coherent(c, s) /\ DOMAIN c.reads \subseteq x.readSet
  BY DEF States, Kept, Coherent
<1>2. /\ d \in Caches /\ Coherent(d, s) /\ DOMAIN d.reads \subseteq DOMAIN c.reads
      /\ DOMAIN d.writes = DOMAIN c.writes \ {k}
  BY <1>1, ReadThenDelete
<1>3. Kept(d, y) /\ ReadsApart(d)
  BY <1>1, <1>2 DEF Kept, Coherent
<1>4. /\ IsFiniteSet(DOMAIN d.writes) /\ WritesCount(c) \in Nat
      /\ WritesCount(d) \in Nat /\ WritesCount(d) <= WritesCount(c) + 1
  <2>1. Cardinality(DOMAIN c.writes) \in Nat
    BY FS_CardinalityType
  <2>2. /\ IsFiniteSet(DOMAIN c.writes \ {k})
        /\ Cardinality(DOMAIN c.writes \ {k}) =
             IF k \in DOMAIN c.writes THEN Cardinality(DOMAIN c.writes) - 1
                                      ELSE Cardinality(DOMAIN c.writes)
    BY FS_RemoveElement
  <2>3. Cardinality(DOMAIN c.writes \ {k}) \in Nat
    BY <2>2, FS_CardinalityType
  <2>4. QED
    BY <1>2, <2>1, <2>2, <2>3 DEF WritesCount
<1>5. ASSUME NEW w, Agrees(y, w)
      PROVE  /\ CachedState(c, s, k) = View(c, w)[k]
             /\ View(d, w) = [View(c, w) EXCEPT ![k] = NoValue]
  <2>1. w \in Ledgers /\ (ReachesChain(c, k) => w[k] = s[k])
    BY <1>5 DEF Agrees
  <2>2. Agrees(x, w)
    BY <1>5, AgreesLess
  <2>3. Coherent(c, w)
    BY <2>2, KeptOnAgreeing DEF Kept, Coherent
  <2>4. QED
    BY <1>1, <2>1, <2>3, ReadThenDelete
<1>6. QED
  BY <1>2, <1>3, <1>4, <1>5

LEMMA DryRunIsSound ==
  ASSUME NEW t \in Tx, NEW x \in States, Sound(t, x), x.phase = "running", x.stage = "dryRun"
  PROVE  LET y == [x EXCEPT !.stage = "unique"]
         IN  y \in States /\ Sound(t, y)
<1> DEFINE y == [x EXCEPT !.stage = "unique"]
<1>1. y \in States
  BY DEF States
<1>2. /\ y.phase = "running" /\ y.stage = "unique" /\ y.main = x.main /\ y.sandbox = x.sandbox
      /\ y.results = x.results /\ y.readSet = x.readSet /\ y.invoked = x.invoked
      /\ y.snapshot = x.snapshot /\ t \in DryRuns /\ t \notin Batches /\ x.sandbox = NoSandbox
  BY ParametersAssumption DEF States, Sound, Control
<1>3. Control(t, y)
  BY <1>2 DEF Sound, Control
<1>4. Coherence(t, y)
  BY <1>2 DEF Sound, Coherence, Kept
<1>5. Limited(t, y)
  BY <1>2 DEF Sound, Limited
<1>6. InvokedOnce(t, y)
  BY <1>2 DEF InvokedOnce
<1>7. Outcome(t, y)
  BY <1>2 DEF Outcome
<1>8. Replay(t, y)
  BY <1>2 DEF Sound, Replay, Alive, Agrees, Progress
<1>9. QED
  BY <1>1, <1>3, <1>4, <1>5, <1>6, <1>7, <1>8 DEF Sound

\* BatchSubmit marks its own unique key.
LEMMA MarkBatchIsSound ==
  ASSUME NEW t \in Batches, NEW x \in States, Sound(t, x),
         x.phase = "running", x.stage = "unique", x.sandbox = NoSandbox,
         CachedState(x.main, x.snapshot.world, BatchKey[t]) = NoValue
  PROVE  LET k == BatchKey[t]
             y == [x EXCEPT !.stage = "loop",
                            !.main = PutState(GetCachedState(x.main, x.snapshot.world, k), k, 1),
                            !.readSet = @ \cup (IF ReachesChain(x.main, k) THEN {k} ELSE {})]
         IN  y \in States /\ Sound(t, y)
<1> DEFINE k == BatchKey[t]
           s == x.snapshot.world
           d == PutState(GetCachedState(x.main, s, k), k, 1)
           y == [x EXCEPT !.stage = "loop", !.main = d,
                          !.readSet = @ \cup (IF ReachesChain(x.main, k) THEN {k} ELSE {})]
<1>0. k \in Keys /\ t \in Tx
  BY ParametersAssumption
<1>1. /\ x.main = EmptyCache /\ x.results = << >> /\ x.main \in Caches
      /\ Kept(x.main, x) /\ ReadsApart(x.main)
      /\ IsFiniteSet(DOMAIN x.main.writes) /\ WritesCount(x.main) = 0
  BY EmptyCacheKept DEF Sound, Control
<1>2. /\ y.phase = "running" /\ y.stage = "loop" /\ y.main = d /\ y.sandbox = NoSandbox
      /\ y.results = << >> /\ y.snapshot = x.snapshot
      /\ y.readSet = x.readSet \cup (IF ReachesChain(x.main, k) THEN {k} ELSE {})
  BY <1>1 DEF States
<1>3. x.main \in Caches => y.readSet \in SUBSET Keys
  BY <1>0, <1>2 DEF States
<1>4. d \in Caches
  <2>1. s \in Ledgers /\ 1 \in Values
    BY ValuesType DEF States
  <2>2. GetCachedState(x.main, s, k) \in Caches
    BY <1>0, <1>1, <2>1, GetKeepsView
  <2>3. QED
    BY <1>0, <2>1, <2>2, PutUpdatesView
<1>5. y \in States
  BY <1>1, <1>3, <1>4 DEF States
<1>6. /\ Kept(d, y) /\ ReadsApart(d) /\ IsFiniteSet(DOMAIN d.writes)
      /\ WritesCount(d) \in Nat /\ WritesCount(d) <= WritesCount(x.main) + 1
      /\ \A w : Agrees(y, w) => /\ CachedState(x.main, s, k) = View(x.main, w)[k]
                                /\ View(d, w) = [View(x.main, w) EXCEPT ![k] = 1]
  <2> HIDE DEF y, s, k
  <2>1. 1 \in Values
    BY ValuesType
  <2>2. QED
    BY <1>0, <1>1, <1>2, <1>5, <2>1, PutIsSound DEF s
<1> HIDE DEF d, y
<1>7. Control(t, y)
  BY <1>0, <1>1, <1>2 DEF Sound, Control
<1>8. Coherence(t, y)
  BY <1>2, <1>6 DEF Coherence
<1>9. Limited(t, y)
  BY <1>1, <1>2, <1>6, ParametersAssumption DEF Limited
<1>10. InvokedOnce(t, y)
  BY DEF InvokedOnce
<1>11. Outcome(t, y)
  BY <1>2 DEF Outcome
<1>12. Replay(t, y)
  <2> SUFFICES ASSUME NEW w, Agrees(y, w) PROVE ReplayOfBatch(t, y, w)
    BY DEF Replay
  <2>1. w \in Ledgers /\ View(x.main, w) = w
    BY <1>1, EmptyCacheKept DEF Agrees
  <2>2. w[k] = NoValue /\ View(d, w) = [w EXCEPT ![k] = 1]
    BY <1>6, <2>1
  <2>3. View(d, w) \in Ledgers
    BY <1>4, <2>1, ViewIsLedger
  <2>4. Replays(t, y, w, [i \in 0 .. 0 |-> View(d, w)])
    BY <1>2, <2>2, <2>3 DEF Replays
  <2>5. QED
    BY <1>2, <2>2, <2>4 DEF ReplayOfBatch
<1>13. QED
  BY <1>5, <1>7, <1>8, <1>9, <1>10, <1>11, <1>12 DEF Sound, y, d

\* What holds when the cache of a running operation has changed.
LEMMA SandboxedIsSound ==
  ASSUME NEW t \in Batches, NEW x \in States, NEW y \in States, Sound(t, x),
         x.phase = "running", x.sandbox # NoSandbox, y.phase = "running", y.sandbox \in Caches,
         y.stage \in {"unique", "body", "return"},
         y.main = x.main, y.results = x.results, y.snapshot = x.snapshot, x.readSet \subseteq y.readSet,
         Kept(y.sandbox, y), ReadsApart(y.sandbox),
         IsFiniteSet(DOMAIN y.sandbox.writes), WritesCount(y.sandbox) <= Reached(y.stage),
         \A w : Agrees(y, w) => Progress(Operations[t][Len(x.results) + 1], y.stage,
                                         View(x.main, w), View(y.sandbox, w))
  PROVE  Sound(t, y)
<1>0. t \in Tx /\ y.sandbox # NoSandbox
  BY ParametersAssumption
<1>1. Control(t, y)
  BY <1>0 DEF Sound, Control
<1>2. Coherence(t, y)
  BY <1>0, AgreesLess DEF Sound, Coherence
<1>3. Limited(t, y)
  BY <1>0 DEF Sound, Limited
<1>4. InvokedOnce(t, y)
  BY DEF InvokedOnce
<1>5. Outcome(t, y)
  BY DEF Sound, Outcome, Alive
<1>6. Replay(t, y)
  <2> SUFFICES ASSUME NEW w, Agrees(y, w) PROVE ReplayOfBatch(t, y, w)
    BY DEF Replay
  <2>1. Agrees(x, w)
    BY AgreesLess
  <2>2. ReplayOfBatch(t, x, w)
    BY <2>1 DEF Sound, Replay, Alive
  <2>3. PICK states : Replays(t, x, w, states)
    BY <2>2 DEF ReplayOfBatch
  <2>4. Replays(t, y, w, states)
    BY <2>3 DEF Replays
  <2>5. QED
    BY <2>2, <2>4 DEF ReplayOfBatch
<1>7. QED
  BY <1>1, <1>2, <1>3, <1>4, <1>5, <1>6 DEF Sound

\* The same of a transaction with one operation.
LEMMA AloneIsSound ==
  ASSUME NEW t \in Tx \ Batches, NEW x \in States, NEW y \in States, Sound(t, x),
         x.phase = "running", y.phase = "running", y.sandbox = x.sandbox,
         y.stage \in {"body", "return"},
         y.results = x.results, y.snapshot = x.snapshot, x.readSet \subseteq y.readSet,
         Kept(y.main, y), ReadsApart(y.main), IsFiniteSet(DOMAIN y.main.writes),
         Operations[t][1] \notin Wrapped /\ t \notin DryRuns /\ y.invoked # {} =>
           y.invoked = {1} /\ y.stage = "return",
         \A w : Agrees(y, w) => Progress(Operations[t][1], y.stage, w, View(y.main, w))
  PROVE  Sound(t, y)
<1>1. Control(t, y)
  BY DEF Sound, Control
<1>2. Coherence(t, y)
  BY DEF Sound, Control, Coherence
<1>3. Limited(t, y)
  BY DEF Sound, Control, Limited
<1>4. InvokedOnce(t, y)
  BY DEF InvokedOnce
<1>5. Outcome(t, y)
  BY DEF Outcome, Alive
<1>6. Replay(t, y)
  BY DEF Replay
<1>7. QED
  BY <1>1, <1>2, <1>3, <1>4, <1>5, <1>6 DEF Sound

\* The cache that the running operation uses.
CacheOf(x) == IF x.sandbox # NoSandbox THEN x.sandbox ELSE x.main

\* What is known of that cache.
LEMMA CacheOfType ==
  ASSUME NEW t \in Tx, NEW x \in States, Sound(t, x), t \notin Batches \/ x.sandbox # NoSandbox
  PROVE  /\ CacheOf(x) \in Caches /\ Kept(CacheOf(x), x) /\ ReadsApart(CacheOf(x))
         /\ IsFiniteSet(DOMAIN CacheOf(x).writes)
         /\ x.sandbox # NoSandbox => WritesCount(CacheOf(x)) <= Reached(x.stage)
BY DEF Sound, Coherence, Limited, CacheOf, States

\* The operation that runs.
OpOf(t, x) == Operations[t][Len(x.results) + 1]

\* An operation runs in the state x, and a step of it gets to y and makes d of its cache.
Updates(t, x, y, d) ==
  /\ t \notin Batches \/ x.sandbox # NoSandbox
  /\ x.phase = "running" /\ y.phase = "running"
  /\ x.sandbox # NoSandbox => y.main = x.main /\ y.sandbox = d
  /\ x.sandbox = NoSandbox => y.main = d /\ y.sandbox = x.sandbox
  /\ y.results = x.results /\ y.snapshot = x.snapshot /\ x.readSet \subseteq y.readSet

\* What is known of the new cache.
Updated(t, x, y, d) ==
  /\ Kept(d, y) /\ ReadsApart(d) /\ IsFiniteSet(DOMAIN d.writes)
  /\ x.sandbox # NoSandbox => WritesCount(d) <= Reached(y.stage)

LEMMA OperationIsSound ==
  ASSUME NEW t \in Tx, NEW x \in States, NEW y \in States, NEW d \in Caches, Sound(t, x),
         Updates(t, x, y, d), Updated(t, x, y, d), y.stage \in {"body", "return"},
         t \notin Batches \cup DryRuns /\ Operations[t][1] \notin Wrapped /\ y.invoked # {} =>
           y.invoked = {1} /\ y.stage = "return",
         \A w, base \in Ledgers :
           Agrees(y, w) /\ Progress(OpOf(t, x), x.stage, base, View(CacheOf(x), w))
           => Progress(OpOf(t, x), y.stage, base, View(d, w))
  PROVE  Sound(t, y)
<1>1. CASE x.sandbox # NoSandbox
  <2>1. /\ t \in Batches /\ y.main = x.main /\ y.sandbox = d /\ CacheOf(x) = x.sandbox
        /\ x.phase = "running" /\ y.phase = "running"
        /\ y.results = x.results /\ y.snapshot = x.snapshot /\ x.readSet \subseteq y.readSet
    BY <1>1 DEF Sound, Control, CacheOf, Updates
  <2>2. ASSUME NEW w, Agrees(y, w)
        PROVE  Progress(OpOf(t, x), y.stage, View(x.main, w), View(d, w))
    <3>1. w \in Ledgers /\ Agrees(x, w)
      BY <2>1, <2>2, AgreesLess DEF Agrees
    <3>2. ReplayOfBatch(t, x, w)
      BY <2>1, <3>1 DEF Sound, Replay, Alive
    <3>3. Progress(OpOf(t, x), x.stage, View(x.main, w), View(x.sandbox, w))
      BY <1>1, <3>2 DEF ReplayOfBatch, OpOf
    <3>4. View(x.main, w) \in Ledgers
      BY <3>1, ViewIsLedger DEF States
    <3>5. QED
      BY <2>1, <2>2, <3>1, <3>3, <3>4
  <2>3. QED
    BY <1>1, <2>1, <2>2, SandboxedIsSound DEF Updated, OpOf
<1>2. CASE x.sandbox = NoSandbox
  <2>1. /\ t \notin Batches /\ y.main = d /\ y.sandbox = x.sandbox /\ CacheOf(x) = x.main
        /\ x.phase = "running" /\ y.phase = "running"
        /\ y.results = x.results /\ y.snapshot = x.snapshot /\ x.readSet \subseteq y.readSet
    BY <1>2 DEF CacheOf, Updates
  <2>2. OpOf(t, x) = Operations[t][1]
    BY <2>1 DEF Sound, Control, OpOf
  <2>3. ASSUME NEW w, Agrees(y, w)
        PROVE  Progress(Operations[t][1], y.stage, w, View(d, w))
    <3>1. w \in Ledgers /\ Agrees(x, w)
      BY <2>1, <2>3, AgreesLess DEF Agrees
    <3>2. Progress(Operations[t][1], x.stage, w, View(x.main, w))
      BY <2>1, <3>1 DEF Sound, Replay, Alive
    <3>3. QED
      BY <2>1, <2>2, <2>3, <3>1, <3>2
  <2>4. QED
    BY <2>1, <2>3, AloneIsSound DEF Updated
<1>3. QED
  BY <1>1, <1>2

\* One more write, and the operation is one stage further.
LEMMA OneMoreWrite ==
  ASSUME NEW m \in Nat, NEW n \in Nat, n <= m + 1, NEW step \in {"unique", "body"}, m <= Reached(step)
  PROVE  n <= Reached(IF step = "unique" THEN "body" ELSE "return")
BY ParametersAssumption DEF Reached

\* An operation marks its unique key.
LEMMA MarkIsSound ==
  ASSUME NEW t \in Tx, NEW x \in States, NEW y \in States, Sound(t, x),
         x.stage = "unique", y.stage = "body", y.invoked = x.invoked,
         CachedState(CacheOf(x), x.snapshot.world, UniqueKey[OpOf(t, x)]) = NoValue,
         ReachesChain(CacheOf(x), UniqueKey[OpOf(t, x)]) => UniqueKey[OpOf(t, x)] \in y.readSet,
         Updates(t, x, y, PutState(GetCachedState(CacheOf(x), x.snapshot.world, UniqueKey[OpOf(t, x)]),
                                   UniqueKey[OpOf(t, x)], 1))
  PROVE  Sound(t, y)
<1> DEFINE k == UniqueKey[OpOf(t, x)]
           c == CacheOf(x)
           s == x.snapshot.world
           d == PutState(GetCachedState(c, s, k), k, 1)
<1>0. /\ t \notin Batches \/ x.sandbox # NoSandbox
      /\ x.phase = "running" /\ y.snapshot = x.snapshot /\ x.readSet \subseteq y.readSet
  BY DEF Updates
<1>1. /\ c \in Caches /\ Kept(c, x) /\ ReadsApart(c) /\ IsFiniteSet(DOMAIN c.writes)
      /\ x.sandbox # NoSandbox => WritesCount(c) <= Reached(x.stage)
  BY <1>0, CacheOfType
<1>2. k \in Keys /\ 1 \in Values
  <2>1. Control(t, x)
    BY DEF Sound
  <2>2. QED
    BY <1>0, <2>1, OpType, ValuesType DEF OpOf
<1>3. /\ CachedState(c, s, k) = NoValue /\ Updates(t, x, y, d)
      /\ ReachesChain(c, k) => k \in y.readSet
  OBVIOUS
<1> HIDE DEF k, c
<1>4. /\ d \in Caches /\ Kept(d, y) /\ ReadsApart(d) /\ IsFiniteSet(DOMAIN d.writes)
      /\ WritesCount(c) \in Nat /\ WritesCount(d) \in Nat /\ WritesCount(d) <= WritesCount(c) + 1
      /\ \A w : Agrees(y, w) => /\ CachedState(c, s, k) = View(c, w)[k]
                                /\ View(d, w) = [View(c, w) EXCEPT ![k] = 1]
  BY <1>0, <1>1, <1>2, <1>3, PutIsSound
<1> HIDE DEF s, d
<1>5. Updated(t, x, y, d)
  <2>1. x.sandbox # NoSandbox => WritesCount(d) <= Reached("body")
    BY <1>1, <1>4, OneMoreWrite
  <2>2. QED
    BY <1>4, <2>1 DEF Updated
<1>6. ASSUME NEW w \in Ledgers, NEW base \in Ledgers, Agrees(y, w),
             Progress(OpOf(t, x), "unique", base, View(c, w))
      PROVE  Progress(OpOf(t, x), "body", base, View(d, w))
  <2>1. View(c, w) = base
    BY <1>6 DEF Progress
  <2>2. base[k] = NoValue /\ View(d, w) = [base EXCEPT ![k] = 1]
    BY <1>3, <1>4, <1>6, <2>1
  <2>3. QED
    BY <2>2 DEF Progress, k
<1>7. t \notin Batches \cup DryRuns /\ Operations[t][1] \notin Wrapped => y.invoked = {}
  BY <1>0 DEF Sound, InvokedOnce
<1>8. QED
  BY <1>3, <1>4, <1>5, <1>6, <1>7, OperationIsSound DEF c

\* What the method of the operation makes of the cache, and whether it can.
MethodCache(op, c, s) ==
  IF op \in Clearing
  THEN DeleteState(GetCachedState(c, s, Slot[op]), Slot[op])
  ELSE PutState(GetCachedState(c, s, Slot[op]), Slot[op], CachedState(c, s, Slot[op]) + 1)

MethodRuns(op, c, s) == IF op \in Clearing THEN CachedState(c, s, Slot[op]) # NoValue
                                           ELSE CachedState(c, s, Slot[op]) + 1 \in Values

LEMMA MethodIsSound ==
  ASSUME NEW x \in States, NEW y \in States, NEW c \in Caches, NEW op \in Ops,
         Kept(c, x), ReadsApart(c), IsFiniteSet(DOMAIN c.writes), y.snapshot = x.snapshot,
         x.readSet \subseteq y.readSet, ReachesChain(c, Slot[op]) => Slot[op] \in y.readSet,
         MethodRuns(op, c, x.snapshot.world)
  PROVE  LET s == x.snapshot.world
             v == CachedState(c, s, Slot[op])
             d == MethodCache(op, c, s)
         IN  /\ d \in Caches /\ Kept(d, y) /\ ReadsApart(d)
             /\ IsFiniteSet(DOMAIN d.writes) /\ WritesCount(c) \in Nat
             /\ WritesCount(d) \in Nat /\ WritesCount(d) <= WritesCount(c) + 1
             /\ \A w : Agrees(y, w) =>
                  /\ v = View(c, w)[Slot[op]]
                  /\ View(d, w) = [View(c, w) EXCEPT ![Slot[op]] = IF op \in Clearing THEN NoValue
                                                                                      ELSE v + 1]
<1>1. Slot[op] \in Keys
  BY ParametersAssumption
<1>2. CASE op \in Clearing
  BY <1>1, <1>2, DeleteIsSound DEF MethodCache
<1>3. CASE op \notin Clearing
  <2>1. CachedState(c, x.snapshot.world, Slot[op]) + 1 \in Values
    BY <1>3 DEF MethodRuns
  <2>2. QED
    BY <1>1, <1>3, <2>1, PutIsSound DEF MethodCache
<1>4. QED
  BY <1>2, <1>3

\* A method on what the mark of its unique key has left.
LEMMA MethodIsRun ==
  ASSUME NEW base \in Ledgers, NEW op \in Ops, base[UniqueKey[op]] = NoValue,
         NEW marked, marked = [base EXCEPT ![UniqueKey[op]] = 1],
         IF op \in Clearing THEN marked[Slot[op]] # NoValue ELSE marked[Slot[op]] + 1 \in Values
  PROVE  /\ AO!CanRun(base, op)
         /\ AO!Run(base, op) =
              [marked EXCEPT ![Slot[op]] = IF op \in Clearing THEN NoValue ELSE marked[Slot[op]] + 1]
BY RunIsTwoUpdates DEF AO!CanRun

\* A method that has updated or cleared its slot.
LEMMA RunIsSound ==
  ASSUME NEW t \in Tx, NEW x \in States, NEW y \in States, Sound(t, x),
         x.stage = "body", y.stage = "return",
         x.sandbox = NoSandbox => y.invoked \in {x.invoked, x.invoked \cup {1}},
         MethodRuns(OpOf(t, x), CacheOf(x), x.snapshot.world),
         ReachesChain(CacheOf(x), Slot[OpOf(t, x)]) => Slot[OpOf(t, x)] \in y.readSet,
         Updates(t, x, y, MethodCache(OpOf(t, x), CacheOf(x), x.snapshot.world))
  PROVE  Sound(t, y)
<1> DEFINE op == OpOf(t, x)
           k == Slot[op]
           c == CacheOf(x)
           s == x.snapshot.world
           v == CachedState(c, s, k)
           d == MethodCache(op, c, s)
<1>0. /\ t \notin Batches \/ x.sandbox # NoSandbox
      /\ x.phase = "running" /\ y.phase = "running"
      /\ y.snapshot = x.snapshot /\ x.readSet \subseteq y.readSet
  BY DEF Updates
<1>1. /\ c \in Caches /\ Kept(c, x) /\ ReadsApart(c) /\ IsFiniteSet(DOMAIN c.writes)
      /\ x.sandbox # NoSandbox => WritesCount(c) <= Reached(x.stage)
  BY <1>0, CacheOfType
<1>2. op \in Ops
  <2>1. Control(t, x)
    BY DEF Sound
  <2>2. QED
    BY <1>0, <2>1, OpType DEF OpOf
<1>3. /\ MethodRuns(op, c, s) /\ Updates(t, x, y, d)
      /\ ReachesChain(c, k) => k \in y.readSet
  OBVIOUS
<1> HIDE DEF op, c
<1>4. /\ d \in Caches /\ Kept(d, y) /\ ReadsApart(d) /\ IsFiniteSet(DOMAIN d.writes)
      /\ WritesCount(c) \in Nat /\ WritesCount(d) \in Nat /\ WritesCount(d) <= WritesCount(c) + 1
      /\ \A w : Agrees(y, w) =>
           /\ v = View(c, w)[k]
           /\ View(d, w) = [View(c, w) EXCEPT ![k] = IF op \in Clearing THEN NoValue ELSE v + 1]
  BY <1>0, <1>1, <1>2, <1>3, MethodIsSound
<1>5. IF op \in Clearing THEN v # NoValue ELSE v + 1 \in Values
  BY <1>3 DEF MethodRuns
<1> HIDE DEF s, v, d
<1>6. Updated(t, x, y, d)
  <2>1. x.sandbox # NoSandbox => WritesCount(d) <= Reached("return")
    BY <1>1, <1>4, OneMoreWrite
  <2>2. QED
    BY <1>4, <2>1 DEF Updated
<1>7. ASSUME NEW w \in Ledgers, NEW base \in Ledgers, Agrees(y, w),
             Progress(op, "body", base, View(c, w))
      PROVE  Progress(op, "return", base, View(d, w))
  <2> DEFINE marked == [base EXCEPT ![UniqueKey[op]] = 1]
  <2>1. base[UniqueKey[op]] = NoValue /\ View(c, w) = marked
    BY <1>7 DEF Progress
  <2>0. marked = [base EXCEPT ![UniqueKey[op]] = 1]
    OBVIOUS
  <2> HIDE DEF marked
  <2>2. v = marked[k] /\ View(d, w) = [marked EXCEPT ![k] = IF op \in Clearing THEN NoValue ELSE v + 1]
    BY <1>4, <1>7, <2>1
  <2>3. IF op \in Clearing THEN marked[Slot[op]] # NoValue ELSE marked[Slot[op]] + 1 \in Values
    BY <1>5, <2>2
  <2>4. /\ AO!CanRun(base, op)
        /\ AO!Run(base, op) =
             [marked EXCEPT ![k] = IF op \in Clearing THEN NoValue ELSE marked[k] + 1]
    BY <1>2, <2>0, <2>1, <2>3, MethodIsRun
  <2>5. QED
    BY <2>2, <2>4 DEF Progress
<1>8. t \notin Batches \cup DryRuns /\ Operations[t][1] \notin Wrapped /\ y.invoked # {} =>
        y.invoked = {1} /\ y.stage = "return"
  BY <1>0 DEF Sound, InvokedOnce, Control
<1>9. QED
  BY <1>3, <1>4, <1>6, <1>7, <1>8, OperationIsSound DEF op, c

\* A transaction whose effects will not be committed.
LEMMA FailsIsSound ==
  ASSUME NEW t \in Tx, NEW x \in States, NEW y \in States, Sound(t, x),
         x.phase = "running", x.sandbox = NoSandbox, ~Alive(t, y), y.phase \in {"endorsed", "refused"},
         y.stage = x.stage, y.main = x.main, y.sandbox = x.sandbox, y.snapshot = x.snapshot,
         x.readSet \subseteq y.readSet,
         y.results = x.results \/ (t \notin Batches /\ y.results = <<"error">>),
         t \notin Batches \cup DryRuns /\ Operations[t][1] \notin Wrapped /\ y.invoked # {} =>
           y.phase = "refused"
  PROVE  Sound(t, y)
<1>1. t \notin Batches => Len(Operations[t]) = 1
  BY ParametersAssumption
<1>2. Control(t, y)
  <2>1. Len(y.results) <= Len(Operations[t])
    <3>1. CASE y.results = x.results
      BY <3>1 DEF Sound, Control
    <3>2. CASE y.results = <<"error">> /\ t \notin Batches
      BY <1>1, <3>2
    <3>3. QED
      BY <3>1, <3>2
  <2>2. QED
    BY <2>1 DEF Sound, Control
<1>3. Coherence(t, y)
  BY AgreesLess DEF Sound, Coherence
<1>4. Limited(t, y)
  <2>1. CASE y.results = x.results
    BY <2>1 DEF Sound, Limited
  <2>2. CASE y.results = <<"error">> /\ t \notin Batches
    BY <2>2 DEF Sound, Limited
  <2>3. QED
    BY <2>1, <2>2
<1>5. InvokedOnce(t, y)
  BY DEF InvokedOnce
<1>6. Outcome(t, y) /\ Replay(t, y)
  BY DEF Outcome, Replay
<1>7. QED
  BY <1>2, <1>3, <1>4, <1>5, <1>6 DEF Sound

\* Fabric commits the transaction, or finds it invalid.
LEMMA ClosedIsSound ==
  ASSUME NEW t \in Tx, NEW x \in States, Sound(t, x), x.phase = "endorsed",
         NEW closed \in {"committed", "invalid"}
  PROVE  LET y == [x EXCEPT !.phase = closed]
         IN  y \in States /\ Sound(t, y)
<1> DEFINE y == [x EXCEPT !.phase = closed]
<1>1. y \in States
  BY DEF States
<1>2. /\ y.phase = closed /\ y.stage = x.stage /\ y.main = x.main /\ y.sandbox = x.sandbox
      /\ y.results = x.results /\ y.readSet = x.readSet /\ y.invoked = x.invoked
      /\ y.snapshot = x.snapshot /\ y.response = x.response
  BY DEF States
<1> HIDE DEF y
<1>3. Control(t, y)
  BY <1>2 DEF Sound, Control
<1>4. Coherence(t, y)
  BY <1>2 DEF Sound, Coherence, Kept
<1>5. Limited(t, y)
  BY <1>2 DEF Sound, Limited
<1>6. InvokedOnce(t, y)
  BY <1>2 DEF Sound, InvokedOnce
<1>7. Outcome(t, y) /\ Replay(t, y)
  BY <1>2 DEF Outcome, Replay, Alive
<1>8. QED
  BY <1>1, <1>3, <1>4, <1>5, <1>6, <1>7 DEF Sound, y

\* The response of a transaction with one operation is a Success.
LEMMA SucceedsIsSound ==
  ASSUME NEW t \in Tx \ Batches, NEW x \in States, Sound(t, x),
         x.phase = "running", x.stage = "return"
  PROVE  LET y == [x EXCEPT !.phase = "endorsed", !.response = "Success",
                            !.results = Append(@, "ok")]
         IN  y \in States /\ Sound(t, y)
<1> DEFINE y == [x EXCEPT !.phase = "endorsed", !.response = "Success", !.results = Append(@, "ok")]
<1>1. x.results = << >> /\ Append(x.results, "ok") = <<"ok">> /\ x.sandbox = NoSandbox
  <2>1. x.results = << >> /\ x.sandbox = NoSandbox
    BY DEF Sound, Control
  <2>2. Append(<< >>, "ok") = <<"ok">>
    OBVIOUS
  <2>3. QED
    BY <2>1, <2>2
<1>2. y \in States
  <2>1. <<"ok">> \in Seq(Results)
    BY DEF Results
  <2>2. QED
    BY <1>1, <2>1 DEF States
<1>3. /\ y.phase = "endorsed" /\ y.stage = "return" /\ y.main = x.main /\ y.sandbox = NoSandbox
      /\ y.results = <<"ok">> /\ y.readSet = x.readSet /\ y.invoked = x.invoked
      /\ y.snapshot = x.snapshot /\ y.response = "Success"
  BY <1>1 DEF States
<1>4. Len(Operations[t]) = 1
  BY ParametersAssumption
<1> HIDE DEF y
<1>5. Control(t, y)
  BY <1>3, <1>4 DEF Sound, Control
<1>6. Coherence(t, y)
  BY <1>3 DEF Sound, Coherence, Kept
<1>7. Limited(t, y)
  BY <1>3 DEF Sound, Limited
<1>8. InvokedOnce(t, y)
  BY <1>3 DEF Sound, InvokedOnce
<1>9. Outcome(t, y)
  BY <1>3 DEF Outcome
<1>10. Replay(t, y)
  BY <1>3 DEF Sound, Replay, Alive, Agrees
<1>11. QED
  BY <1>2, <1>5, <1>6, <1>7, <1>8, <1>9, <1>10 DEF Sound, y

\* All operations of the batch have ended.
LEMMA EndBatchIsSound ==
  ASSUME NEW t \in Batches, NEW x \in States, Sound(t, x),
         x.phase = "running", x.stage = "loop", Len(x.results) + 1 > Len(Operations[t])
  PROVE  LET y == [x EXCEPT !.phase = "endorsed", !.response = "Success"]
         IN  y \in States /\ Sound(t, y)
<1> DEFINE y == [x EXCEPT !.phase = "endorsed", !.response = "Success"]
<1>1. y \in States
  BY DEF States
<1>2. t \in Tx /\ x.sandbox = NoSandbox /\ Len(x.results) = Len(Operations[t])
  <2>1. Operations[t] \in Seq(Ops) /\ t \in Tx /\ Len(x.results) \in Nat
    BY ParametersAssumption DEF States
  <2>2. Len(Operations[t]) \in Nat
    BY <2>1
  <2>3. QED
    BY <2>1, <2>2 DEF Sound, Control
<1>3. /\ y.phase = "endorsed" /\ y.stage = "loop" /\ y.main = x.main /\ y.sandbox = NoSandbox
      /\ y.results = x.results /\ y.readSet = x.readSet
      /\ y.snapshot = x.snapshot /\ y.response = "Success"
  BY <1>2 DEF States
<1> HIDE DEF y
<1>4. Control(t, y)
  BY <1>2, <1>3 DEF Sound, Control
<1>5. Coherence(t, y)
  BY <1>3 DEF Sound, Coherence, Kept
<1>6. Limited(t, y)
  BY <1>2, <1>3 DEF Sound, Limited
<1>7. InvokedOnce(t, y)
  BY DEF InvokedOnce
<1>8. Outcome(t, y)
  BY <1>2, <1>3 DEF Sound, Outcome, Alive
<1>9. Replay(t, y)
  <2> SUFFICES ASSUME NEW w, Agrees(y, w) PROVE ReplayOfBatch(t, y, w)
    BY DEF Replay
  <2>1. ReplayOfBatch(t, x, w)
    BY <1>3 DEF Sound, Replay, Alive, Agrees
  <2>2. PICK states : Replays(t, x, w, states)
    BY <2>1 DEF ReplayOfBatch
  <2>3. Replays(t, y, w, states)
    BY <1>3, <2>2 DEF Replays
  <2>4. QED
    BY <1>3, <2>1, <2>3 DEF ReplayOfBatch
<1>10. QED
  BY <1>1, <1>4, <1>5, <1>6, <1>7, <1>8, <1>9 DEF Sound, y

\* One more operation of a batch has ended, and new is what the batch then shows.
LEMMA ReplayExtended ==
  ASSUME NEW t \in Tx, NEW x \in States, NEW y \in States, NEW w, NEW states,
         Replays(t, x, w, states), NEW r \in Results, y.results = Append(x.results, r),
         NEW new \in Ledgers, View(y.main, w) = new,
         IF r = "ok" THEN AO!CanRun(View(x.main, w), OpOf(t, x)) /\ new = AO!Run(View(x.main, w), OpOf(t, x))
                     ELSE new = View(x.main, w)
  PROVE  \E longer : Replays(t, y, w, longer)
<1> DEFINE n == Len(x.results)
           longer == [i \in 0 .. n + 1 |-> IF i <= n THEN states[i] ELSE new]
<1>1. n \in Nat /\ x.results \in Seq(Results)
  BY DEF States
<1>2. /\ Len(y.results) = n + 1
      /\ y.results[n + 1] = r
      /\ \A i \in 1 .. n : y.results[i] = x.results[i]
  BY <1>1
<1>3. /\ states \in [0 .. n -> Ledgers]
      /\ states[0] = [w EXCEPT ![BatchKey[t]] = 1]
      /\ \A i \in 1 .. n : IF x.results[i] = "ok"
                           THEN AO!CanRun(states[i - 1], Operations[t][i])
                                  /\ states[i] = AO!Run(states[i - 1], Operations[t][i])
                           ELSE states[i] = states[i - 1]
      /\ states[n] = View(x.main, w)
  BY DEF Replays
<1>4. /\ longer \in [0 .. n + 1 -> Ledgers]
      /\ longer[0] = states[0] /\ longer[n] = states[n] /\ longer[n + 1] = new
      /\ \A i \in 1 .. n : longer[i] = states[i] /\ longer[i - 1] = states[i - 1]
  BY <1>1, <1>3
<1>5. OpOf(t, x) = Operations[t][n + 1]
  BY DEF OpOf
<1> HIDE DEF longer, n
<1>6. \A i \in 1 .. n + 1 : IF y.results[i] = "ok"
                            THEN AO!CanRun(longer[i - 1], Operations[t][i])
                                   /\ longer[i] = AO!Run(longer[i - 1], Operations[t][i])
                            ELSE longer[i] = longer[i - 1]
  <2>1. ASSUME NEW i \in 1 .. n
        PROVE  IF y.results[i] = "ok"
               THEN AO!CanRun(longer[i - 1], Operations[t][i])
                      /\ longer[i] = AO!Run(longer[i - 1], Operations[t][i])
               ELSE longer[i] = longer[i - 1]
    BY <1>2, <1>3, <1>4
  <2>2. (n + 1) - 1 = n
    BY <1>1
  <2>3. IF y.results[n + 1] = "ok"
        THEN AO!CanRun(longer[(n + 1) - 1], Operations[t][n + 1])
               /\ longer[n + 1] = AO!Run(longer[(n + 1) - 1], Operations[t][n + 1])
        ELSE longer[n + 1] = longer[(n + 1) - 1]
    BY <1>2, <1>3, <1>4, <1>5, <2>2
  <2>4. \A i \in 1 .. n + 1 : i \in 1 .. n \/ i = n + 1
    BY <1>1
  <2>5. QED
    BY <2>1, <2>3, <2>4
<1>7. Replays(t, y, w, longer)
  BY <1>2, <1>3, <1>4, <1>6 DEF Replays
<1>8. QED
  BY <1>7

\* An operation of a batch ends with an error, or because the limit is reached.
LEMMA EndOperationIsSound ==
  ASSUME NEW t \in Batches, NEW x \in States, NEW y \in States, Sound(t, x), x.phase = "running",
         NEW r \in {"error", "limit"},
         r = "error" => x.sandbox # NoSandbox,
         r = "limit" => /\ x.sandbox = NoSandbox /\ x.stage = "loop"
                        /\ Len(x.results) + 1 <= Len(Operations[t])
                        /\ WritesCount(x.main) >= WritesLimit,
         y.stage = "loop", y.main = x.main, y.sandbox = NoSandbox, y.results = Append(x.results, r),
         y.snapshot = x.snapshot, x.readSet \subseteq y.readSet,
         IF t \in NoPartialSuccess THEN y.phase \in {"endorsed", "refused"} /\ y.response = "Error"
                                   ELSE y.phase = "running"
  PROVE  Sound(t, y)
<1> DEFINE n == Len(x.results)
<1>0. t \in Tx /\ Operations[t] \in Seq(Ops) /\ Len(Operations[t]) \in Nat
  BY ParametersAssumption
<1>1. n \in Nat /\ x.results \in Seq(Results) /\ r \in Results
  BY DEF States, Results
<1>2. /\ Len(y.results) = n + 1
      /\ y.results[n + 1] = r
      /\ \A i \in 1 .. n : y.results[i] = x.results[i]
      /\ DOMAIN y.results = 1 .. n + 1 /\ DOMAIN x.results = 1 .. n
  BY <1>1
<1>3. Len(y.results) <= Len(Operations[t])
  BY <1>0, <1>1, <1>2 DEF Sound, Control
<1>4. Control(t, y)
  BY <1>3 DEF Sound, Control
<1>5. Coherence(t, y)
  BY AgreesLess DEF Sound, Coherence
<1>6. Limited(t, y)
  <2>1. /\ IsFiniteSet(DOMAIN x.main.writes) /\ WritesCount(x.main) <= WritesLimit + 1
        /\ \A i \in 1 .. n : x.results[i] = "limit" =>
             /\ x.sandbox = NoSandbox
             /\ WritesCount(x.main) >= WritesLimit
             /\ \A j \in 1 .. n : i < j => x.results[j] = "limit"
    BY <1>2 DEF Sound, Limited
  <2>2. ASSUME NEW i \in 1 .. n + 1, y.results[i] = "limit"
        PROVE  /\ WritesCount(x.main) >= WritesLimit
               /\ \A j \in 1 .. n + 1 : i < j => y.results[j] = "limit"
    <3>1. CASE i \in 1 .. n
      <4>1. x.sandbox = NoSandbox /\ WritesCount(x.main) >= WritesLimit
            /\ \A j \in 1 .. n : i < j => x.results[j] = "limit"
        BY <1>2, <2>1, <2>2, <3>1
      <4>2. y.results[n + 1] = "limit"
        BY <1>2, <4>1
      <4>3. \A j \in 1 .. n + 1 : j \in 1 .. n \/ j = n + 1
        BY <1>1
      <4>4. QED
        BY <1>2, <4>1, <4>2, <4>3
    <3>2. CASE i = n + 1
      BY <1>1, <1>2, <2>2, <3>2
    <3>3. QED
      BY <1>1, <3>1, <3>2
  <2>3. QED
    BY <1>2, <2>1, <2>2 DEF Limited
<1>7. InvokedOnce(t, y)
  BY DEF InvokedOnce
<1>8. Outcome(t, y)
  BY DEF Outcome, Alive
<1>9. Replay(t, y)
  <2> SUFFICES ASSUME Alive(t, y), NEW w, Agrees(y, w) PROVE ReplayOfBatch(t, y, w)
    BY DEF Replay
  <2>1. Agrees(x, w) /\ w \in Ledgers
    BY AgreesLess DEF Agrees
  <2>2. ReplayOfBatch(t, x, w)
    BY <1>0, <2>1 DEF Sound, Replay, Alive
  <2>3. x.stage # "unique" \/ x.sandbox # NoSandbox
    OBVIOUS
  <2>4. w[BatchKey[t]] = NoValue /\ \E states : Replays(t, x, w, states)
    BY <2>2, <2>3 DEF ReplayOfBatch
  <2>5. PICK states : Replays(t, x, w, states)
    BY <2>4
  <2>6. View(x.main, w) \in Ledgers
    BY <2>1, ViewIsLedger DEF States
  <2>7. \E longer : Replays(t, y, w, longer)
    BY <1>0, <1>1, <2>5, <2>6, ReplayExtended
  <2>8. QED
    BY <2>4, <2>7 DEF ReplayOfBatch
<1>10. QED
  BY <1>4, <1>5, <1>6, <1>7, <1>8, <1>9 DEF Sound

\* The operation of a batch has succeeded: its sandbox is merged.
LEMMA MergeIsSound ==
  ASSUME NEW t \in Tx, NEW x \in States, NEW y \in States, Sound(t, x), x.phase = "running",
         x.sandbox # NoSandbox, x.stage = "return", y.phase = "running", y.stage = "loop",
         y.main = MergeSandbox(x.main, x.sandbox), y.sandbox = NoSandbox,
         y.results = Append(x.results, "ok"), y.snapshot = x.snapshot, y.readSet = x.readSet
  PROVE  Sound(t, y)
<1> DEFINE n == Len(x.results)
           s == x.snapshot.world
<1>0. t \in Batches /\ x.sandbox \in Caches /\ x.main \in Caches /\ s \in Ledgers
  BY DEF States, Sound, Control
<1>1. n \in Nat /\ x.results \in Seq(Results) /\ "ok" \in Results
  BY DEF States, Results
<1>2. /\ Len(y.results) = n + 1
      /\ y.results[n + 1] = "ok"
      /\ \A i \in 1 .. n : y.results[i] = x.results[i]
      /\ DOMAIN y.results = 1 .. n + 1 /\ DOMAIN x.results = 1 .. n
  BY <1>1
<1>3. Len(Operations[t]) \in Nat
  BY ParametersAssumption
<1>4. Control(t, y)
  BY <1>0, <1>1, <1>2, <1>3 DEF Sound, Control
<1>5. Kept(x.main, x) /\ Kept(x.sandbox, x) /\ ReadsApart(x.sandbox)
  BY DEF Sound, Coherence
<1>6. Kept(y.main, y)
  <2>1. Coherent(x.sandbox, s)
    BY <1>5 DEF Kept, Coherent
  <2>2. WritesApartFromDeletes(y.main) /\ ReadsAreCurrent(y.main, s)
    BY <1>0, <1>5, <2>1, MergeKeepsSandboxView DEF Kept
  <2>3. y.main.reads = x.main.reads
    BY DEF MergeSandbox
  <2>4. QED
    BY <1>5, <2>2, <2>3 DEF Kept
<1>7. Coherence(t, y)
  BY <1>0, <1>6 DEF Coherence
<1>8. \A i \in 1 .. n : x.results[i] # "limit"
  BY <1>2 DEF Sound, Limited
<1>9. Limited(t, y)
  <2>1. IsFiniteSet(DOMAIN x.sandbox.writes) /\ WritesCount(x.sandbox) <= WritesLimit + 1
    BY DEF Sound, Limited, Reached
  <2>2. y.main.writes = x.sandbox.writes
    BY DEF MergeSandbox
  <2>3. \A i \in 1 .. n + 1 : y.results[i] # "limit"
    BY <1>1, <1>2, <1>8
  <2>4. QED
    BY <1>2, <2>1, <2>2, <2>3 DEF Limited, WritesCount
<1>10. InvokedOnce(t, y)
  BY <1>0 DEF InvokedOnce
<1>11. Outcome(t, y)
  <2>1. t \in NoPartialSuccess => \A i \in 1 .. n : x.results[i] = "ok"
    BY <1>0, <1>2 DEF Sound, Outcome, Alive
  <2>2. t \in NoPartialSuccess => \A i \in 1 .. n + 1 : y.results[i] = "ok"
    BY <1>1, <1>2, <2>1
  <2>3. QED
    BY <1>2, <2>2 DEF Outcome
<1>12. Replay(t, y)
  <2> SUFFICES ASSUME NEW w, Agrees(y, w) PROVE ReplayOfBatch(t, y, w)
    BY <1>0 DEF Replay
  <2>1. Agrees(x, w) /\ w \in Ledgers
    BY DEF Agrees
  <2>2. ReplayOfBatch(t, x, w)
    BY <1>0, <2>1 DEF Sound, Replay, Alive
  <2>3. /\ w[BatchKey[t]] = NoValue /\ \E states : Replays(t, x, w, states)
        /\ Progress(OpOf(t, x), "return", View(x.main, w), View(x.sandbox, w))
    BY <2>2 DEF ReplayOfBatch, OpOf
  <2>4. PICK states : Replays(t, x, w, states)
    BY <2>3
  <2>5. View(y.main, w) = View(x.sandbox, w)
    <3>1. ReadsAreCurrent(x.main, w) /\ ReadsAreCurrent(x.sandbox, w)
      BY <1>5, <2>1, KeptOnAgreeing
    <3>2. Coherent(x.sandbox, w)
      BY <1>5, <3>1 DEF Kept, Coherent
    <3>3. QED
      BY <1>0, <2>1, <3>1, <3>2, MergeKeepsSandboxView
  <2>6. View(x.sandbox, w) \in Ledgers
    BY <1>0, <2>1, ViewIsLedger
  <2>7. /\ AO!CanRun(View(x.main, w), OpOf(t, x))
        /\ View(x.sandbox, w) = AO!Run(View(x.main, w), OpOf(t, x))
    BY <2>3 DEF Progress
  <2>8. \E longer : Replays(t, y, w, longer)
    BY <1>1, <2>4, <2>5, <2>6, <2>7, ReplayExtended
  <2>9. QED
    BY <2>3, <2>8 DEF ReplayOfBatch
<1>13. QED
  BY <1>4, <1>7, <1>9, <1>10, <1>11, <1>12 DEF Sound

\* A batch below its limit begins its next operation.
LEMMA BeginOperationIsSound ==
  ASSUME NEW t \in Tx, NEW x \in States, Sound(t, x), x.phase = "running", x.stage = "loop",
         Len(x.results) + 1 <= Len(Operations[t]), WritesCount(x.main) < WritesLimit
  PROVE  LET y == [x EXCEPT !.stage = "unique", !.sandbox = SandboxOf(x.main)]
         IN  y \in States /\ Sound(t, y)
<1> DEFINE b == SandboxOf(x.main)
           s == x.snapshot.world
           y == [x EXCEPT !.stage = "unique", !.sandbox = b]
<1>0. t \in Batches /\ x.main \in Caches /\ s \in Ledgers /\ x.sandbox = NoSandbox
  BY DEF States, Sound, Control
<1>1. Len(x.results) \in Nat /\ Len(Operations[t]) \in Nat /\ WritesLimit \in Nat
  BY ParametersAssumption DEF States
<1>2. Kept(x.main, x)
  BY DEF Sound, Coherence
<1>3. b \in Caches /\ Coherent(b, s) /\ b.writes = x.main.writes /\ DOMAIN b.reads = {}
  <2>1. b \in Caches /\ Coherent(b, s)
    BY <1>0, <1>2, SandboxKeepsView DEF Kept
  <2>2. b.writes = x.main.writes /\ b.reads = NoEntries
    BY <1>0 DEF SandboxOf, Caches
  <2>3. QED
    BY <2>1, <2>2 DEF NoEntries
<1>4. b # NoSandbox
  BY <1>3, ParametersAssumption
<1> HIDE DEF b
<1>5. y \in States
  BY <1>3 DEF States
<1>6. /\ y.phase = "running" /\ y.stage = "unique" /\ y.main = x.main /\ y.sandbox = b
      /\ y.results = x.results /\ y.readSet = x.readSet /\ y.snapshot = x.snapshot
  BY DEF States
<1> HIDE DEF y
<1>7. Control(t, y)
  BY <1>0, <1>1, <1>4, <1>6 DEF Sound, Control
<1>8. Coherence(t, y)
  <2>1. Kept(b, y) /\ ReadsApart(b)
    BY <1>3, <1>6 DEF Coherent, Kept
  <2>2. QED
    BY <1>0, <1>2, <1>6, <2>1 DEF Coherence, Kept
<1>9. Limited(t, y)
  <2>1. /\ IsFiniteSet(DOMAIN x.main.writes) /\ WritesCount(x.main) <= WritesLimit + 1
        /\ \A i \in DOMAIN x.results : x.results[i] = "limit" => WritesCount(x.main) >= WritesLimit
    BY <1>0 DEF Sound, Limited
  <2>2. WritesCount(x.main) \in Nat /\ WritesCount(b) = WritesCount(x.main)
    BY <1>3, <2>1, FS_CardinalityType DEF WritesCount
  <2>3. \A i \in DOMAIN x.results : x.results[i] # "limit"
    BY <1>1, <2>1, <2>2
  <2>4. WritesCount(b) <= Reached("unique")
    BY <1>1, <2>2 DEF Reached
  <2>5. QED
    BY <1>3, <1>6, <2>1, <2>3, <2>4 DEF Limited
<1>10. InvokedOnce(t, y)
  BY <1>0 DEF InvokedOnce
<1>11. Outcome(t, y)
  BY <1>6 DEF Sound, Outcome, Alive
<1>12. Replay(t, y)
  <2> SUFFICES ASSUME NEW w, Agrees(y, w) PROVE ReplayOfBatch(t, y, w)
    BY <1>0 DEF Replay
  <2>1. Agrees(x, w) /\ w \in Ledgers
    BY <1>6 DEF Agrees
  <2>2. ReplayOfBatch(t, x, w)
    BY <1>0, <2>1 DEF Sound, Replay, Alive
  <2>3. PICK states : Replays(t, x, w, states)
    BY <2>2 DEF ReplayOfBatch
  <2>4. Replays(t, y, w, states)
    <3>1. y.results = x.results /\ y.main = x.main
      BY <1>6
    <3>2. QED
      BY <2>3, <3>1 DEF Replays
  <2>5. View(b, w) = View(x.main, w)
    <3>1. ReadsAreCurrent(x.main, w)
      BY <1>2, <2>1, KeptOnAgreeing
    <3>2. QED
      BY <1>0, <1>2, <2>1, <3>1, SandboxKeepsView DEF Kept, b
  <2>6. QED
    BY <1>6, <2>2, <2>4, <2>5 DEF ReplayOfBatch, Progress
<1>13. QED
  BY <1>5, <1>7, <1>8, <1>9, <1>10, <1>11, <1>12 DEF Sound, y, b

-----------------------------------------------------------------------------
(* The actions.                                                            *)

\* A variable that an action leaves alone.
LEMMA Stays ==
  ASSUME TypeOK, NEW t \in Tx
  PROVE  /\ phase = [phase EXCEPT ![t] = phase[t]] /\ stage = [stage EXCEPT ![t] = stage[t]]
         /\ snapshot = [snapshot EXCEPT ![t] = snapshot[t]] /\ main = [main EXCEPT ![t] = main[t]]
         /\ sandbox = [sandbox EXCEPT ![t] = sandbox[t]] /\ results = [results EXCEPT ![t] = results[t]]
         /\ readSet = [readSet EXCEPT ![t] = readSet[t]] /\ invoked = [invoked EXCEPT ![t] = invoked[t]]
         /\ response = [response EXCEPT ![t] = response[t]]
BY DEF TypeOK

\* The state of a transaction, and what the actions name of it.
LEMMA StateParts ==
  ASSUME Inv, NEW t \in Tx
  PROVE  LET x == State(t)
         IN  /\ x \in States /\ Sound(t, x)
             /\ x.phase = phase[t] /\ x.stage = stage[t] /\ x.snapshot = snapshot[t]
             /\ x.main = main[t] /\ x.sandbox = sandbox[t] /\ x.results = results[t]
             /\ x.readSet = readSet[t] /\ x.invoked = invoked[t] /\ x.response = response[t]
             /\ Cache(t) = CacheOf(x) /\ Current(t) = OpOf(t, x)
             /\ Index(t) = Len(x.results) + 1
BY StateType DEF Inv, State, Cache, InSandbox, CacheOf, Current, Index, OpOf

LEMMA BeginTransactionKeepsInv ==
  ASSUME Inv, NEW t \in Tx, BeginTransaction(t)
  PROVE  Inv'
<1> DEFINE x == State(t)
           s == [world |-> world, version |-> version]
           y == [x EXCEPT !.phase = "running", !.snapshot = s]
<1>1. /\ x \in States /\ Sound(t, x) /\ x.phase = "idle"
      /\ s \in [world : Ledgers, version : [Keys -> Nat]]
  BY StateParts DEF BeginTransaction, Inv, TypeOK
<1>2. y \in States /\ Sound(t, y)
  BY <1>1, BeginIsSound
<1>3. /\ y.phase = "running" /\ y.stage = x.stage /\ y.snapshot = s /\ y.main = x.main
      /\ y.sandbox = x.sandbox /\ y.results = x.results /\ y.readSet = x.readSet
      /\ y.invoked = x.invoked /\ y.response = x.response
  BY <1>1 DEF States
<1> HIDE DEF y
<1>4. Moves(t, y)
  BY <1>3, Stays, StateParts DEF Moves, BeginTransaction, Inv
<1>5. QED
  BY <1>2, <1>3, <1>4, MovesKeepInv DEF BeginTransaction

LEMMA DryRunKeepsInv ==
  ASSUME Inv, NEW t \in Tx, DryRun(t)
  PROVE  Inv'
<1> DEFINE x == State(t)
           y == [x EXCEPT !.stage = "unique"]
<1>1. x \in States /\ Sound(t, x) /\ x.phase = "running" /\ x.stage = "dryRun"
  BY StateParts DEF DryRun
<1>2. y \in States /\ Sound(t, y)
  BY <1>1, DryRunIsSound
<1>3. /\ y.phase = x.phase /\ y.stage = "unique" /\ y.snapshot = x.snapshot /\ y.main = x.main
      /\ y.sandbox = x.sandbox /\ y.results = x.results /\ y.readSet = x.readSet
      /\ y.invoked = x.invoked /\ y.response = x.response
  BY <1>1 DEF States
<1> HIDE DEF y
<1>4. Moves(t, y)
  BY <1>3, Stays, StateParts DEF Moves, DryRun, Inv
<1>5. QED
  BY <1>2, <1>3, <1>4, MovesKeepInv, StateParts DEF DryRun

\* What the step of an operation does to its cache.
LEMMA UpdateCacheMoves ==
  ASSUME Inv, NEW t \in Tx, NEW d, UpdateCache(t, d)
  PROVE  /\ main' = [main EXCEPT ![t] = IF sandbox[t] # NoSandbox THEN main[t] ELSE d]
         /\ sandbox' = [sandbox EXCEPT ![t] = IF sandbox[t] # NoSandbox THEN d ELSE sandbox[t]]
<1>1. main = [main EXCEPT ![t] = main[t]] /\ sandbox = [sandbox EXCEPT ![t] = sandbox[t]]
  BY Stays DEF Inv
<1>2. QED
  BY <1>1 DEF UpdateCache, InSandbox

LEMMA EnsureUniqueTransactionKeepsInv ==
  ASSUME Inv, NEW t \in Tx, EnsureUniqueTransaction(t)
  PROVE  Inv'
<1> DEFINE x == State(t)
           s == x.snapshot.world
           c == CacheOf(x)
           k == Key(t)
           d == PutState(GetCachedState(c, s, k), k, 1)
           read == x.readSet \cup (IF ReachesChain(c, k) THEN {k} ELSE {})
<1>0. x \in States /\ Sound(t, x) /\ x.snapshot = snapshot[t] /\ x.sandbox = sandbox[t] /\ c = Cache(t)
  BY StateParts
<1>1. x.phase = "running" /\ x.stage = "unique"
  BY StateParts DEF EnsureUniqueTransaction
<1>2. /\ CachedState(c, s, k) = NoValue /\ UpdateCache(t, d)
      /\ readSet' = [readSet EXCEPT ![t] = read]
      /\ stage' = [stage EXCEPT ![t] = IF t \in Batches /\ x.sandbox = NoSandbox THEN "loop" ELSE "body"]
  BY StateParts DEF EnsureUniqueTransaction, Read, CacheRead, FromFabric, InBatchSubmit, InSandbox
<1>3. /\ main' = [main EXCEPT ![t] = IF x.sandbox # NoSandbox THEN x.main ELSE d]
      /\ sandbox' = [sandbox EXCEPT ![t] = IF x.sandbox # NoSandbox THEN d ELSE x.sandbox]
  BY <1>2, UpdateCacheMoves, StateParts
<1>4. CASE t \in Batches /\ x.sandbox = NoSandbox
  <2> DEFINE y == [x EXCEPT !.stage = "loop", !.main = d, !.readSet = read]
  <2>1. k = BatchKey[t] /\ c = x.main
    BY <1>4, StateParts DEF Key, InBatchSubmit, InSandbox, CacheOf
  <2>2. y \in States /\ Sound(t, y)
    <3> HIDE DEF x
    <3>1. QED
      BY <1>0, <1>1, <1>2, <1>4, <2>1, MarkBatchIsSound
  <2>3. /\ y.phase = x.phase /\ y.stage = "loop" /\ y.snapshot = x.snapshot /\ y.main = d
        /\ y.sandbox = x.sandbox /\ y.results = x.results /\ y.readSet = read
        /\ y.invoked = x.invoked /\ y.response = x.response
    BY <1>0 DEF States
  <2> HIDE DEF y, d, read
  <2>4. Moves(t, y)
    <3>1. stage' = [stage EXCEPT ![t] = y.stage] /\ readSet' = [readSet EXCEPT ![t] = y.readSet]
      BY <1>2, <1>4, <2>3
    <3>2. main' = [main EXCEPT ![t] = y.main] /\ sandbox' = [sandbox EXCEPT ![t] = y.sandbox]
      BY <1>3, <1>4, <2>3
    <3>3. /\ y.phase = phase[t] /\ y.snapshot = snapshot[t] /\ y.results = results[t]
          /\ y.invoked = invoked[t] /\ y.response = response[t]
      BY <2>3, StateParts
    <3>4. UNCHANGED <<phase, snapshot, results, invoked, response>>
      BY DEF EnsureUniqueTransaction
    <3>5. /\ phase' = [phase EXCEPT ![t] = y.phase] /\ snapshot' = [snapshot EXCEPT ![t] = y.snapshot]
          /\ results' = [results EXCEPT ![t] = y.results]
          /\ invoked' = [invoked EXCEPT ![t] = y.invoked]
          /\ response' = [response EXCEPT ![t] = y.response]
      BY <3>3, <3>4, Stays DEF Inv
    <3>6. QED
      BY <3>1, <3>2, <3>5 DEF Moves
  <2>5. QED
    BY <1>0, <2>2, <2>3, <2>4, MovesKeepInv DEF EnsureUniqueTransaction
<1>5. CASE t \notin Batches \/ x.sandbox # NoSandbox
  <2> DEFINE m == IF x.sandbox # NoSandbox THEN x.main ELSE d
             b == IF x.sandbox # NoSandbox THEN d ELSE x.sandbox
             y == [x EXCEPT !.stage = "body", !.readSet = read, !.main = m, !.sandbox = b]
  <2>1. k = UniqueKey[OpOf(t, x)] /\ k \in Keys
    <3>1. k = UniqueKey[OpOf(t, x)]
      BY <1>5, StateParts DEF Key, InBatchSubmit, InSandbox
    <3>2. Control(t, x)
      BY <1>0 DEF Sound
    <3>3. QED
      BY <1>0, <1>1, <1>5, <3>1, <3>2, OpType DEF OpOf
  <2>2. d \in Caches
    <3>1. c \in Caches /\ Kept(c, x) /\ ReadsApart(c)
      BY <1>0, <1>5, CacheOfType
    <3>2. s \in Ledgers /\ 1 \in Values /\ Coherent(c, s)
      BY <1>0, <3>1, ValuesType DEF States, Kept, Coherent
    <3>3. GetCachedState(c, s, k) \in Caches
      BY <2>1, <3>1, <3>2, GetKeepsView
    <3>4. QED
      BY <2>1, <3>2, <3>3, PutUpdatesView
  <2>3. /\ y.phase = x.phase /\ y.stage = "body" /\ y.snapshot = x.snapshot
        /\ y.main = (IF x.sandbox # NoSandbox THEN x.main ELSE d)
        /\ y.sandbox = (IF x.sandbox # NoSandbox THEN d ELSE x.sandbox)
        /\ y.results = x.results /\ y.readSet = read
        /\ y.invoked = x.invoked /\ y.response = x.response
    BY <1>0 DEF States
  <2>4. y \in States
    <3>1. x \in States /\ read \in SUBSET Keys
      BY <1>0, <2>1 DEF States
    <3>2. m \in Caches /\ b \in Caches \cup {NoSandbox}
      BY <1>0, <2>2 DEF States
    <3> HIDE DEF d, m, b, x, c, s, k, read
    <3>3. QED
      BY <3>1, <3>2 DEF States
  <2> HIDE DEF y
  <2>5. Updates(t, x, y, d)
    <3> HIDE DEF d, x, c, s, k
    <3>1. QED
      BY <1>1, <1>5, <2>3 DEF Updates
  <2>6. Sound(t, y)
    <3>1. ReachesChain(c, k) => k \in y.readSet
      BY <2>3
    <3> HIDE DEF x
    <3>2. QED
      BY <1>0, <1>1, <1>2, <2>1, <2>3, <2>4, <2>5, <3>1, MarkIsSound
  <2> HIDE DEF d, read
  <2>7. Moves(t, y)
    <3>1. stage' = [stage EXCEPT ![t] = y.stage] /\ readSet' = [readSet EXCEPT ![t] = y.readSet]
      BY <1>2, <1>5, <2>3
    <3>2. main' = [main EXCEPT ![t] = y.main] /\ sandbox' = [sandbox EXCEPT ![t] = y.sandbox]
      BY <1>3, <2>3
    <3>3. /\ y.phase = phase[t] /\ y.snapshot = snapshot[t] /\ y.results = results[t]
          /\ y.invoked = invoked[t] /\ y.response = response[t]
      BY <2>3, StateParts
    <3>4. UNCHANGED <<phase, snapshot, results, invoked, response>>
      BY DEF EnsureUniqueTransaction
    <3>5. /\ phase' = [phase EXCEPT ![t] = y.phase] /\ snapshot' = [snapshot EXCEPT ![t] = y.snapshot]
          /\ results' = [results EXCEPT ![t] = y.results]
          /\ invoked' = [invoked EXCEPT ![t] = y.invoked]
          /\ response' = [response EXCEPT ![t] = y.response]
      BY <3>3, <3>4, Stays DEF Inv
    <3>6. QED
      BY <3>1, <3>2, <3>5 DEF Moves
  <2>8. QED
    BY <1>0, <2>3, <2>4, <2>6, <2>7, MovesKeepInv DEF EnsureUniqueTransaction
<1>6. QED
  BY <1>4, <1>5

LEMMA RunMethodKeepsInv ==
  ASSUME Inv, NEW t \in Tx, RunMethod(t)
  PROVE  Inv'
<1> DEFINE x == State(t)
           s == x.snapshot.world
           c == CacheOf(x)
           op == OpOf(t, x)
           k == Slot[op]
           d == MethodCache(op, c, s)
           read == x.readSet \cup (IF ReachesChain(c, k) THEN {k} ELSE {})
           inv == IF op \in External THEN x.invoked \cup {Len(x.results) + 1} ELSE x.invoked
           y == [x EXCEPT !.stage = "return", !.readSet = read, !.invoked = inv,
                          !.main = IF x.sandbox # NoSandbox THEN x.main ELSE d,
                          !.sandbox = IF x.sandbox # NoSandbox THEN d ELSE x.sandbox]
<1>0. x \in States /\ Sound(t, x) /\ x.snapshot = snapshot[t] /\ x.sandbox = sandbox[t] /\ c = Cache(t)
  BY StateParts
<1>1. x.phase = "running" /\ x.stage = "body"
  BY StateParts DEF RunMethod
<1>2. t \notin Batches \/ x.sandbox # NoSandbox
  BY <1>0, <1>1 DEF Sound, Control
<1>3. op \in Ops /\ k \in Keys /\ Len(x.results) + 1 \in Nat
  <2>1. Control(t, x)
    BY <1>0 DEF Sound
  <2>2. QED
    BY <1>0, <1>1, <1>2, <2>1, OpType DEF OpOf
<1>4. op = Current(t) /\ Read(t, k) = CachedState(c, s, k) /\ CacheRead(t, k) = GetCachedState(c, s, k)
  BY StateParts DEF Read, CacheRead
<1>5. MethodRuns(op, c, s) /\ UpdateCache(t, d)
  <2>1. CASE op \in Clearing
    BY <1>4, <2>1 DEF RunMethod, MethodRuns, MethodCache
  <2>2. CASE op \notin Clearing
    BY <1>4, <2>2 DEF RunMethod, MethodRuns, MethodCache
  <2>3. QED
    BY <2>1, <2>2
<1>6. readSet' = [readSet EXCEPT ![t] = read]
  BY <1>4, StateParts DEF RunMethod, FromFabric
<1>7. invoked' = [invoked EXCEPT ![t] = inv]
  <2>1. x.invoked = invoked[t] /\ Index(t) = Len(x.results) + 1
    BY StateParts
  <2>2. QED
    BY <1>4, <2>1 DEF RunMethod
<1>8. /\ main' = [main EXCEPT ![t] = IF x.sandbox # NoSandbox THEN x.main ELSE d]
      /\ sandbox' = [sandbox EXCEPT ![t] = IF x.sandbox # NoSandbox THEN d ELSE x.sandbox]
  BY <1>5, UpdateCacheMoves, StateParts
<1>9. d \in Caches
  <2>1. c \in Caches /\ Kept(c, x) /\ ReadsApart(c) /\ IsFiniteSet(DOMAIN c.writes)
    BY <1>0, <1>2, CacheOfType
  <2>2. ReachesChain(c, k) => k \in Keys
    BY <1>3
  <2>3. [x EXCEPT !.readSet = Keys] \in States /\ x.readSet \subseteq Keys
    BY <1>0 DEF States
  <2>4. [x EXCEPT !.readSet = Keys].readSet = Keys /\ [x EXCEPT !.readSet = Keys].snapshot = x.snapshot
    BY <1>0 DEF States
  <2> DEFINE z == [x EXCEPT !.readSet = Keys]
  <2> HIDE DEF z, d, x, op, c
  <2>5. z \in States /\ x.readSet \subseteq z.readSet /\ z.readSet = Keys /\ z.snapshot = x.snapshot
    BY <2>3, <2>4 DEF z
  <2>6. QED
    BY <1>0, <1>3, <1>5, <2>1, <2>5, MethodIsSound DEF d
<1>10. /\ y.phase = x.phase /\ y.stage = "return" /\ y.snapshot = x.snapshot
       /\ y.main = (IF x.sandbox # NoSandbox THEN x.main ELSE d)
       /\ y.sandbox = (IF x.sandbox # NoSandbox THEN d ELSE x.sandbox)
       /\ y.results = x.results /\ y.readSet = read
       /\ y.invoked = inv /\ y.response = x.response
  <2> HIDE DEF d, c, s, op, read, inv, x
  <2>1. QED
    BY <1>0 DEF States
<1>11. y \in States
  <2>1. read \in SUBSET Keys /\ inv \in SUBSET Nat
    BY <1>0, <1>3 DEF States
  <2> HIDE DEF d, c, s, op, read, inv, x
  <2>2. QED
    BY <1>0, <1>9, <2>1 DEF States
<1> HIDE DEF y
<1>12. Updates(t, x, y, d)
  <2> HIDE DEF d, x, c, s, op
  <2>1. QED
    BY <1>1, <1>2, <1>10 DEF Updates
<1>13. Sound(t, y)
  <2>1. ReachesChain(c, k) => k \in y.readSet
    BY <1>10
  <2>2. x.sandbox = NoSandbox => y.invoked \in {x.invoked, x.invoked \cup {1}}
    <3>1. x.sandbox = NoSandbox => Len(x.results) = 0
      BY <1>0, <1>1, <1>2 DEF Sound, Control
    <3>2. QED
      BY <1>10, <3>1
  <2>3. QED
    <3> HIDE DEF x
    <3>1. QED
      BY <1>0, <1>1, <1>5, <1>10, <1>11, <1>12, <2>1, <2>2, RunIsSound
<1> HIDE DEF d, read, inv
<1>14. Moves(t, y)
  <2>1. /\ stage' = [stage EXCEPT ![t] = y.stage] /\ readSet' = [readSet EXCEPT ![t] = y.readSet]
        /\ invoked' = [invoked EXCEPT ![t] = y.invoked]
    BY <1>6, <1>7, <1>10 DEF RunMethod
  <2>2. main' = [main EXCEPT ![t] = y.main] /\ sandbox' = [sandbox EXCEPT ![t] = y.sandbox]
    BY <1>8, <1>10
  <2>3. /\ y.phase = phase[t] /\ y.snapshot = snapshot[t] /\ y.results = results[t]
        /\ y.response = response[t]
    BY <1>10, StateParts
  <2>4. UNCHANGED <<phase, snapshot, results, response>>
    BY DEF RunMethod
  <2>5. /\ phase' = [phase EXCEPT ![t] = y.phase] /\ snapshot' = [snapshot EXCEPT ![t] = y.snapshot]
        /\ results' = [results EXCEPT ![t] = y.results]
        /\ response' = [response EXCEPT ![t] = y.response]
    BY <2>3, <2>4, Stays DEF Inv
  <2>6. QED
    BY <2>1, <2>2, <2>5 DEF Moves
<1>15. UNCHANGED <<world, version>> /\ y.snapshot = snapshot[t]
  BY <1>0, <1>10 DEF RunMethod
<1>16. QED
  BY <1>11, <1>13, <1>14, <1>15, MovesKeepInv

LEMMA BeginOperationKeepsInv ==
  ASSUME Inv, NEW t \in Tx, BeginOperation(t)
  PROVE  Inv'
<1> DEFINE x == State(t)
           y == [x EXCEPT !.stage = "unique", !.sandbox = SandboxOf(x.main)]
<1>1. /\ x \in States /\ Sound(t, x) /\ x.phase = "running" /\ x.stage = "loop"
      /\ Len(x.results) + 1 <= Len(Operations[t]) /\ WritesCount(x.main) < WritesLimit
  BY StateParts DEF BeginOperation
<1>2. y \in States /\ Sound(t, y)
  BY <1>1, BeginOperationIsSound
<1>3. /\ y.phase = x.phase /\ y.stage = "unique" /\ y.snapshot = x.snapshot /\ y.main = x.main
      /\ y.sandbox = SandboxOf(x.main) /\ y.results = x.results /\ y.readSet = x.readSet
      /\ y.invoked = x.invoked /\ y.response = x.response
  BY <1>1 DEF States
<1> HIDE DEF y
<1>4. Moves(t, y)
  <2>1. stage' = [stage EXCEPT ![t] = y.stage] /\ sandbox' = [sandbox EXCEPT ![t] = y.sandbox]
    BY <1>3, StateParts DEF BeginOperation
  <2>2. /\ y.phase = phase[t] /\ y.snapshot = snapshot[t] /\ y.main = main[t] /\ y.results = results[t]
        /\ y.readSet = readSet[t] /\ y.invoked = invoked[t] /\ y.response = response[t]
    BY <1>3, StateParts
  <2>3. UNCHANGED <<phase, snapshot, main, results, readSet, invoked, response>>
    BY DEF BeginOperation
  <2>4. QED
    BY <2>1, <2>2, <2>3, Stays DEF Moves, Inv
<1>5. QED
  BY <1>2, <1>3, <1>4, MovesKeepInv, StateParts DEF BeginOperation

LEMMA EndBatchKeepsInv ==
  ASSUME Inv, NEW t \in Tx, EndBatch(t)
  PROVE  Inv'
<1> DEFINE x == State(t)
           y == [x EXCEPT !.phase = "endorsed", !.response = "Success"]
<1>1. /\ x \in States /\ Sound(t, x) /\ x.phase = "running" /\ x.stage = "loop"
      /\ Len(x.results) + 1 > Len(Operations[t])
  BY StateParts DEF EndBatch
<1>2. y \in States /\ Sound(t, y)
  <2>1. t \in Batches
    BY <1>1 DEF Sound, Control
  <2>2. QED
    BY <1>1, <2>1, EndBatchIsSound
<1>3. /\ y.phase = "endorsed" /\ y.stage = x.stage /\ y.snapshot = x.snapshot /\ y.main = x.main
      /\ y.sandbox = x.sandbox /\ y.results = x.results /\ y.readSet = x.readSet
      /\ y.invoked = x.invoked /\ y.response = "Success"
  BY <1>1 DEF States
<1> HIDE DEF y
<1>4. Moves(t, y)
  BY <1>3, Stays, StateParts DEF Moves, EndBatch, Endorse, Inv
<1>5. QED
  BY <1>2, <1>3, <1>4, MovesKeepInv, StateParts DEF EndBatch

LEMMA InvalidateKeepsInv ==
  ASSUME Inv, NEW t \in Tx, Invalidate(t)
  PROVE  Inv'
<1> DEFINE x == State(t)
           y == [x EXCEPT !.phase = "invalid"]
<1>1. x \in States /\ Sound(t, x) /\ x.phase = "endorsed"
  BY StateParts DEF Invalidate
<1>2. y \in States /\ Sound(t, y)
  BY <1>1, ClosedIsSound
<1>3. /\ y.phase = "invalid" /\ y.stage = x.stage /\ y.snapshot = x.snapshot /\ y.main = x.main
      /\ y.sandbox = x.sandbox /\ y.results = x.results /\ y.readSet = x.readSet
      /\ y.invoked = x.invoked /\ y.response = x.response
  BY <1>1 DEF States
<1> HIDE DEF y
<1>4. Moves(t, y)
  BY <1>3, Stays, StateParts DEF Moves, Invalidate, Inv
<1>5. QED
  BY <1>2, <1>3, <1>4, MovesKeepInv, StateParts DEF Invalidate

LEMMA ReturnKeepsInv ==
  ASSUME Inv, NEW t \in Tx, Return(t)
  PROVE  Inv'
<1> DEFINE x == State(t)
<1>0. /\ x \in States /\ Sound(t, x) /\ x.snapshot = snapshot[t] /\ x.sandbox = sandbox[t]
      /\ x.main = main[t] /\ x.results = results[t]
  BY StateParts
<1>1. x.phase = "running" /\ x.stage = "return"
  BY StateParts DEF Return
<1>2. CASE x.sandbox # NoSandbox
  <2> DEFINE m == MergeSandbox(x.main, x.sandbox)
             r == Append(x.results, "ok")
             y == [x EXCEPT !.stage = "loop", !.main = m, !.sandbox = NoSandbox, !.results = r]
  <2>1. /\ results' = [results EXCEPT ![t] = r]
        /\ main' = [main EXCEPT ![t] = m] /\ sandbox' = [sandbox EXCEPT ![t] = NoSandbox]
        /\ stage' = [stage EXCEPT ![t] = "loop"]
        /\ UNCHANGED <<world, version, phase, response, snapshot, readSet, invoked>>
    BY <1>0, <1>2 DEF Return, InSandbox
  <2>2. /\ y.phase = x.phase /\ y.stage = "loop" /\ y.snapshot = x.snapshot /\ y.main = m
        /\ y.sandbox = NoSandbox /\ y.results = r /\ y.readSet = x.readSet
        /\ y.invoked = x.invoked /\ y.response = x.response
    BY <1>0 DEF States
  <2>3. m \in Caches /\ r \in Seq(Results)
    <3>1. x.main \in Caches /\ x.sandbox \in Caches /\ x.results \in Seq(Results)
      BY <1>0, <1>2 DEF States
    <3>2. m \in Caches
      BY <3>1, CacheParts DEF MergeSandbox, Caches
    <3>3. r \in Seq(Results)
      BY <3>1 DEF Results
    <3>4. QED
      BY <3>2, <3>3
  <2>4. y \in States
    <3> HIDE DEF m, r, x
    <3>1. QED
      BY <1>0, <2>3 DEF States
  <2> HIDE DEF y
  <2>5. Sound(t, y)
    <3> HIDE DEF x
    <3>1. QED
      BY <1>0, <1>1, <1>2, <2>2, <2>4, MergeIsSound
  <2>6. Moves(t, y)
    <3>1. /\ y.phase = phase[t] /\ y.snapshot = snapshot[t] /\ y.readSet = readSet[t]
          /\ y.invoked = invoked[t] /\ y.response = response[t]
      BY <2>2, StateParts
    <3>2. /\ phase' = [phase EXCEPT ![t] = y.phase] /\ snapshot' = [snapshot EXCEPT ![t] = y.snapshot]
          /\ readSet' = [readSet EXCEPT ![t] = y.readSet]
          /\ invoked' = [invoked EXCEPT ![t] = y.invoked]
          /\ response' = [response EXCEPT ![t] = y.response]
      BY <2>1, <3>1, Stays DEF Inv
    <3>3. QED
      BY <2>1, <2>2, <3>2 DEF Moves
  <2>7. QED
    BY <1>0, <2>1, <2>2, <2>4, <2>5, <2>6, MovesKeepInv
<1>3. CASE x.sandbox = NoSandbox
  <2> DEFINE y == [x EXCEPT !.phase = "endorsed", !.response = "Success", !.results = Append(@, "ok")]
  <2>1. y \in States /\ Sound(t, y)
    <3>1. t \in Tx \ Batches
      BY <1>0, <1>1, <1>3 DEF Sound, Control
    <3> HIDE DEF x
    <3>2. QED
      BY <1>0, <1>1, <3>1, SucceedsIsSound
  <2>2. /\ y.phase = "endorsed" /\ y.stage = x.stage /\ y.snapshot = x.snapshot /\ y.main = x.main
        /\ y.sandbox = x.sandbox /\ y.results = Append(x.results, "ok") /\ y.readSet = x.readSet
        /\ y.invoked = x.invoked /\ y.response = "Success"
    BY <1>0 DEF States
  <2> HIDE DEF y
  <2>3. /\ results' = [results EXCEPT ![t] = y.results] /\ phase' = [phase EXCEPT ![t] = y.phase]
        /\ response' = [response EXCEPT ![t] = y.response]
        /\ UNCHANGED <<world, version, stage, main, sandbox, snapshot, readSet, invoked>>
    BY <1>0, <1>3, <2>2 DEF Return, InSandbox, Endorse
  <2>4. Moves(t, y)
    <3>1. /\ y.stage = stage[t] /\ y.snapshot = snapshot[t] /\ y.readSet = readSet[t]
          /\ y.invoked = invoked[t] /\ y.main = main[t] /\ y.sandbox = sandbox[t]
      BY <2>2, StateParts
    <3>2. QED
      BY <2>3, <3>1, Stays DEF Moves, Inv
  <2>5. QED
    BY <1>0, <2>1, <2>2, <2>3, <2>4, MovesKeepInv
<1>4. QED
  BY <1>2, <1>3

\* An operation of a batch that ends with a response that is not a Success.
LEMMA EndOperationKeepsInv ==
  ASSUME Inv, NEW t \in Batches, NEW r \in {"error", "limit"}, phase[t] = "running",
         EndOperation(t, r), NEW read \in SUBSET Keys, readSet[t] \subseteq read,
         readSet' = [readSet EXCEPT ![t] = read],
         r = "error" => sandbox[t] # NoSandbox,
         r = "limit" => /\ sandbox[t] = NoSandbox /\ stage[t] = "loop"
                        /\ Index(t) <= Len(Operations[t])
                        /\ WritesCount(main[t]) >= WritesLimit
  PROVE  Inv'
<1> DEFINE x == State(t)
           ends == t \in NoPartialSuccess
           ph == IF ends THEN IF x.invoked = {} THEN "endorsed" ELSE "refused" ELSE x.phase
           resp == IF ends THEN "Error" ELSE x.response
           rs == Append(x.results, r)
           y == [x EXCEPT !.stage = "loop", !.sandbox = NoSandbox, !.results = rs, !.readSet = read,
                          !.phase = ph, !.response = resp]
<1>0. t \in Tx
  BY ParametersAssumption
<1>1. /\ x \in States /\ Sound(t, x) /\ x.snapshot = snapshot[t] /\ x.sandbox = sandbox[t]
      /\ x.main = main[t] /\ x.results = results[t] /\ x.phase = phase[t] /\ x.stage = stage[t]
      /\ x.readSet = readSet[t] /\ x.invoked = invoked[t] /\ x.response = response[t]
      /\ Index(t) = Len(x.results) + 1
  BY <1>0, StateParts
<1>2. rs \in Seq(Results)
  BY <1>1 DEF States, Results
<1>3. /\ y.phase = ph /\ y.stage = "loop" /\ y.snapshot = x.snapshot /\ y.main = x.main
      /\ y.sandbox = NoSandbox /\ y.results = rs /\ y.readSet = read
      /\ y.invoked = x.invoked /\ y.response = resp
  <2> HIDE DEF x, ph, resp, rs
  <2>1. QED
    BY <1>1 DEF States
<1>4. y \in States
  <2>1. /\ ph \in {"idle", "running", "endorsed", "refused", "committed", "invalid"}
        /\ resp \in {"none", "Success", "Error"}
    BY <1>1 DEF States
  <2>2. x \in States /\ read \in SUBSET Keys
    BY <1>1
  <2> HIDE DEF x, ph, resp, rs
  <2>3. QED
    BY <1>2, <2>1, <2>2 DEF States
<1> HIDE DEF y
<1>5. Sound(t, y)
  <2>1. IF t \in NoPartialSuccess THEN y.phase \in {"endorsed", "refused"} /\ y.response = "Error"
                                  ELSE y.phase = "running"
    BY <1>1, <1>3
  <2> HIDE DEF x, ph, resp
  <2>2. QED
    BY <1>1, <1>3, <1>4, <2>1, EndOperationIsSound
<1>6. Moves(t, y)
  <2>1. /\ results' = [results EXCEPT ![t] = y.results] /\ sandbox' = [sandbox EXCEPT ![t] = y.sandbox]
        /\ stage' = [stage EXCEPT ![t] = y.stage] /\ readSet' = [readSet EXCEPT ![t] = y.readSet]
    BY <1>1, <1>3 DEF EndOperation
  <2>2. phase' = [phase EXCEPT ![t] = ph] /\ response' = [response EXCEPT ![t] = resp]
    <3>1. CASE ends
      BY <1>1, <3>1 DEF EndOperation, Fail
    <3>2. CASE ~ends
      <4>1. UNCHANGED <<phase, response>>
        BY <3>2 DEF EndOperation
      <4>2. ph = phase[t] /\ resp = response[t]
        BY <1>1, <3>2
      <4>3. QED
        BY <1>0, <4>1, <4>2, Stays DEF Inv
    <3>3. QED
      BY <3>1, <3>2
  <2>3. y.snapshot = snapshot[t] /\ y.main = main[t] /\ y.invoked = invoked[t]
    BY <1>1, <1>3
  <2>4. UNCHANGED <<snapshot, main, invoked>>
    BY DEF EndOperation
  <2>5. /\ snapshot' = [snapshot EXCEPT ![t] = y.snapshot] /\ main' = [main EXCEPT ![t] = y.main]
        /\ invoked' = [invoked EXCEPT ![t] = y.invoked]
    BY <1>0, <2>3, <2>4, Stays DEF Inv
  <2> HIDE DEF ph, resp
  <2>6. QED
    BY <1>3, <2>1, <2>2, <2>5 DEF Moves
<1>7. UNCHANGED <<world, version>> /\ y.snapshot = snapshot[t]
  BY <1>1, <1>3 DEF EndOperation
<1>8. QED
  BY <1>0, <1>4, <1>5, <1>6, <1>7, MovesKeepInv

\* The pipeline of the transaction itself ends with a response that is not a Success.
LEMMA FailsKeepsInv ==
  ASSUME Inv, NEW t \in Tx, phase[t] = "running", sandbox[t] = NoSandbox,
         NEW ph \in {"endorsed", "refused"}, NEW resp \in {"Success", "Error"},
         ph = "refused" \/ resp = "Error" \/ t \in DryRuns,
         phase' = [phase EXCEPT ![t] = ph], response' = [response EXCEPT ![t] = resp],
         NEW rs \in Seq(Results), results' = [results EXCEPT ![t] = rs],
         rs = results[t] \/ (t \notin Batches /\ rs = <<"error">>),
         NEW read \in SUBSET Keys, readSet[t] \subseteq read,
         readSet' = [readSet EXCEPT ![t] = read],
         t \notin Batches \cup DryRuns /\ Operations[t][1] \notin Wrapped /\ invoked[t] # {} =>
           ph = "refused",
         UNCHANGED <<world, version, stage, snapshot, main, sandbox, invoked>>
  PROVE  Inv'
<1> DEFINE x == State(t)
           y == [x EXCEPT !.phase = ph, !.response = resp, !.results = rs, !.readSet = read]
<1>1. /\ x \in States /\ Sound(t, x) /\ x.snapshot = snapshot[t] /\ x.sandbox = sandbox[t]
      /\ x.main = main[t] /\ x.results = results[t] /\ x.phase = phase[t] /\ x.stage = stage[t]
      /\ x.readSet = readSet[t] /\ x.invoked = invoked[t] /\ x.response = response[t]
  BY StateParts
<1> HIDE DEF x
<1>2. /\ y.phase = ph /\ y.stage = x.stage /\ y.snapshot = x.snapshot /\ y.main = x.main
      /\ y.sandbox = x.sandbox /\ y.results = rs /\ y.readSet = read
      /\ y.invoked = x.invoked /\ y.response = resp
  BY <1>1 DEF States
<1>3. y \in States
  BY <1>1 DEF States
<1> HIDE DEF y
<1>4. Sound(t, y)
  <2>1. ~Alive(t, y)
    BY <1>2 DEF Alive
  <2>2. QED
    BY <1>1, <1>2, <1>3, <2>1, FailsIsSound
<1>5. Moves(t, y)
  <2>1. /\ y.stage = stage[t] /\ y.snapshot = snapshot[t] /\ y.main = main[t]
        /\ y.sandbox = sandbox[t] /\ y.invoked = invoked[t]
    BY <1>1, <1>2
  <2>2. /\ stage' = [stage EXCEPT ![t] = y.stage] /\ snapshot' = [snapshot EXCEPT ![t] = y.snapshot]
        /\ main' = [main EXCEPT ![t] = y.main] /\ sandbox' = [sandbox EXCEPT ![t] = y.sandbox]
        /\ invoked' = [invoked EXCEPT ![t] = y.invoked]
    BY <2>1, Stays DEF Inv
  <2>3. QED
    BY <1>2, <2>2 DEF Moves
<1>6. QED
  BY <1>1, <1>2, <1>3, <1>4, <1>5, MovesKeepInv

LEMMA ReturnErrorKeepsInv ==
  ASSUME Inv, NEW t \in Tx, ReturnError(t)
  PROVE  Inv'
<1>0. /\ phase[t] = "running" /\ stage[t] = "return" /\ Current(t) \in Wrapped
      /\ UNCHANGED readSet
  BY DEF ReturnError
<1>1. Sound(t, State(t)) /\ State(t).phase = "running" /\ State(t).stage = "return"
      /\ State(t).sandbox = sandbox[t] /\ State(t).results = results[t]
  BY <1>0, StateParts
<1>2. readSet[t] \in SUBSET Keys /\ readSet' = [readSet EXCEPT ![t] = readSet[t]]
  BY <1>0, Stays DEF Inv, TypeOK
<1>3. CASE sandbox[t] # NoSandbox
  <2>1. t \in Batches
    BY <1>1, <1>3 DEF Sound, Control
  <2>2. EndOperation(t, "error")
    BY <1>3 DEF ReturnError, InSandbox
  <2>3. QED
    BY <1>0, <1>2, <1>3, <2>1, <2>2, EndOperationKeepsInv
<1>4. CASE sandbox[t] = NoSandbox
  <2>1. t \notin Batches /\ results[t] = << >>
    BY <1>1, <1>4 DEF Sound, Control
  <2>2. Operations[t][1] \in Wrapped
    BY <1>0, <2>1 DEF Current, Index
  <2>3. <<"error">> \in Seq(Results)
    BY DEF Results
  <2> DEFINE resp == IF t \in DryRuns THEN "Success" ELSE "Error"
  <2>4. /\ phase' = [phase EXCEPT ![t] = "endorsed"] /\ response' = [response EXCEPT ![t] = resp]
        /\ results' = [results EXCEPT ![t] = <<"error">>]
        /\ UNCHANGED <<world, version, stage, snapshot, main, sandbox, invoked>>
    BY <1>4 DEF ReturnError, InSandbox, Endorse
  <2>5. resp \in {"Success", "Error"} /\ (resp = "Error" \/ t \in DryRuns)
    OBVIOUS
  <2> HIDE DEF resp
  <2>6. QED
    BY <1>0, <1>2, <1>4, <2>1, <2>2, <2>3, <2>4, <2>5, FailsKeepsInv
<1>5. QED
  BY <1>3, <1>4

LEMMA WriteLimitExceededKeepsInv ==
  ASSUME Inv, NEW t \in Tx, WriteLimitExceeded(t)
  PROVE  Inv'
<1>1. /\ phase[t] = "running" /\ stage[t] = "loop" /\ Index(t) <= Len(Operations[t])
      /\ WritesCount(main[t]) >= WritesLimit /\ EndOperation(t, "limit") /\ UNCHANGED readSet
  BY DEF WriteLimitExceeded
<1>2. t \in Batches /\ sandbox[t] = NoSandbox
  BY <1>1, StateParts DEF Sound, Control
<1>3. readSet[t] \in SUBSET Keys /\ readSet' = [readSet EXCEPT ![t] = readSet[t]]
  BY <1>1, Stays DEF Inv, TypeOK
<1>4. QED
  BY <1>1, <1>2, <1>3, EndOperationKeepsInv

\* The pipeline reads keys.
LEMMA NextReadType ==
  ASSUME Inv, NEW t \in Tx, phase[t] = "running"
  PROVE  NextRead(t) \in SUBSET Keys
<1> DEFINE x == State(t)
<1>1. /\ x \in States /\ Control(t, x) /\ x.phase = "running" /\ x.stage = stage[t]
      /\ x.sandbox = sandbox[t] /\ Current(t) = Operations[t][Len(x.results) + 1]
  BY StateParts DEF Sound, OpOf
<1>2. t \in Batches => BatchKey[t] \in Keys
  BY ParametersAssumption
<1>3. t \notin Batches \/ x.sandbox # NoSandbox =>
        UniqueKey[Current(t)] \in Keys /\ Slot[Current(t)] \in Keys
  BY <1>1, OpType
<1>4. stage[t] = "unique" => Key(t) \in Keys
  BY <1>1, <1>2, <1>3 DEF Key, InBatchSubmit, InSandbox
<1>5. stage[t] = "body" => Slot[Current(t)] \in Keys
  BY <1>1, <1>3 DEF Control
<1>6. QED
  BY <1>4, <1>5 DEF NextRead, FromFabric

LEMMA ThrowKeepsInv ==
  ASSUME Inv, NEW t \in Tx, Throw(t)
  PROVE  Inv'
<1>0. phase[t] = "running" /\ stage[t] # "loop"
  BY DEF Throw
<1>1. PICK read \in {{}, NextRead(t)} : readSet' = [readSet EXCEPT ![t] = @ \cup read]
  BY DEF Throw
<1> DEFINE more == readSet[t] \cup read
<1>2. /\ more \in SUBSET Keys /\ readSet[t] \subseteq more
      /\ readSet' = [readSet EXCEPT ![t] = more]
  BY <1>0, <1>1, NextReadType DEF Inv, TypeOK
<1> HIDE DEF more
<1>3. CASE t \in Batches /\ sandbox[t] # NoSandbox
  <2>1. EndOperation(t, "error")
    BY <1>3 DEF Throw, InSandbox
  <2>2. QED
    BY <1>0, <1>2, <1>3, <2>1, EndOperationKeepsInv
<1>4. CASE ~(t \in Batches /\ sandbox[t] # NoSandbox)
  <2>1. sandbox[t] = NoSandbox
    BY <1>4, StateParts DEF Sound, Control
  <2> DEFINE ph == IF invoked[t] = {} THEN "endorsed" ELSE "refused"
             resp == IF t \in DryRuns /\ stage[t] # "dryRun" /\ invoked[t] = {} THEN "Success" ELSE "Error"
             rs == IF t \in Batches THEN results[t] ELSE <<"error">>
  <2>2. /\ phase' = [phase EXCEPT ![t] = ph] /\ response' = [response EXCEPT ![t] = resp]
        /\ results' = [results EXCEPT ![t] = rs]
        /\ UNCHANGED <<world, version, stage, snapshot, main, sandbox, invoked>>
    <3>1. /\ IF t \in DryRuns /\ stage[t] # "dryRun" THEN FailInside(t) ELSE Fail(t)
          /\ results' = [results EXCEPT ![t] = IF t \in Batches THEN @ ELSE <<"error">>]
          /\ UNCHANGED <<world, version, stage, snapshot, main, sandbox, invoked>>
      BY <1>4 DEF Throw, InSandbox
    <3>2. results' = [results EXCEPT ![t] = rs]
      BY <3>1
    <3>3. phase' = [phase EXCEPT ![t] = ph] /\ response' = [response EXCEPT ![t] = resp]
      BY <3>1 DEF Fail, FailInside
    <3>4. QED
      BY <3>1, <3>2, <3>3
  <2>3. rs \in Seq(Results) /\ (rs = results[t] \/ (t \notin Batches /\ rs = <<"error">>))
    <3>1. results[t] \in Seq(Results)
      BY DEF Inv, TypeOK
    <3>2. <<"error">> \in Seq(Results)
      BY DEF Results
    <3>3. QED
      BY <3>1, <3>2
  <2>4. ph \in {"endorsed", "refused"} /\ resp \in {"Success", "Error"}
        /\ (resp = "Error" \/ t \in DryRuns) /\ (invoked[t] # {} => ph = "refused")
    OBVIOUS
  <2> HIDE DEF ph, resp, rs
  <2>5. QED
    BY <1>0, <1>2, <2>1, <2>2, <2>3, <2>4, FailsKeepsInv
<1>5. QED
  BY <1>3, <1>4

\* The keys that a commit does not write keep their values.
LEMMA FlushOfWriteSet ==
  ASSUME Inv, NEW t \in Tx
  PROVE  /\ WriteSet(t) \in Caches /\ FlushWrites(WriteSet(t), world) \in Ledgers
         /\ \A k \in Keys \ Written(t) : FlushWrites(WriteSet(t), world)[k] = world[k]
<1>1. main[t] \in Caches /\ EmptyCache \in Caches /\ world \in Ledgers
  BY EmptyCacheKept, StateParts DEF Inv, TypeOK
<1>2. WriteSet(t) \in Caches
  BY <1>1 DEF WriteSet
<1>3. FlushWrites(WriteSet(t), world) \in Ledgers
  <2>1. /\ WriteSet(t).deletes \in SUBSET Keys
        /\ \A k \in DOMAIN WriteSet(t).writes : WriteSet(t).writes[k] \in Values
    BY <1>2, CacheParts
  <2>2. QED
    BY <1>1, <2>1, ValuesType DEF FlushWrites, Ledgers
<1>4. QED
  BY <1>2, <1>3 DEF FlushWrites, Written

LEMMA CommitKeepsInv ==
  ASSUME Inv, NEW t \in Tx, Commit(t)
  PROVE  Inv'
<1> DEFINE x == State(t)
           y == [x EXCEPT !.phase = "committed"]
<1>1. x \in States /\ Sound(t, x) /\ x.phase = "endorsed"
  BY StateParts DEF Commit
<1>2. y \in States /\ Sound(t, y)
  BY <1>1, ClosedIsSound
<1>3. /\ y.phase = "committed" /\ y.stage = x.stage /\ y.snapshot = x.snapshot /\ y.main = x.main
      /\ y.sandbox = x.sandbox /\ y.results = x.results /\ y.readSet = x.readSet
      /\ y.invoked = x.invoked /\ y.response = x.response
  BY <1>1 DEF States
<1> HIDE DEF y
<1>4. Moves(t, y)
  BY <1>3, Stays, StateParts DEF Moves, Commit, Inv
<1>5. /\ world' = FlushWrites(WriteSet(t), world) /\ UNCHANGED snapshot
      /\ version' = [k \in Keys |-> IF k \in Written(t) THEN version[k] + 1 ELSE version[k]]
  BY DEF Commit
<1>6. world' \in Ledgers /\ version' \in [Keys -> Nat]
  BY <1>5, FlushOfWriteSet DEF Inv, TypeOK
<1>7. TypeOK'
  BY <1>2, <1>4, <1>6, MovesType DEF Inv, Sound, Control
<1>8. \A u \in Tx : Versioned(snapshot[u], world, version)'
  <2> SUFFICES ASSUME NEW u \in Tx, NEW k \in Keys
               PROVE  /\ snapshot[u].version[k] <= version'[k]
                      /\ snapshot[u].version[k] = version'[k] => snapshot[u].world[k] = world'[k]
    BY <1>5 DEF Versioned
  <2>1. /\ snapshot[u].version[k] <= version[k]
        /\ snapshot[u].version[k] = version[k] => snapshot[u].world[k] = world[k]
    BY DEF Inv, Versioned
  <2>2. snapshot[u].version[k] \in Nat /\ version[k] \in Nat
    BY DEF Inv, TypeOK
  <2>3. CASE k \in Written(t)
    BY <1>5, <2>1, <2>2, <2>3
  <2>4. CASE k \notin Written(t)
    <3>1. version'[k] = version[k] /\ world'[k] = world[k]
      BY <1>5, <2>4, FlushOfWriteSet
    <3>2. QED
      BY <2>1, <3>1
  <2>5. QED
    BY <2>3, <2>4
<1>9. \A u \in Tx : Sound(u, State(u))'
  <2>1. State(t)' = y /\ \A u \in Tx \ {t} : State(u)' = State(u)
    BY <1>2, <1>4, MovesOne DEF Inv
  <2>2. Sound(t, State(t))'
    BY <1>2, <2>1 DEF Sound, Control, Coherence, Limited, InvokedOnce, Outcome, Replay
  <2>3. QED
    BY <2>1, <2>2 DEF Inv
<1>10. QED
  BY <1>7, <1>8, <1>9 DEF Inv

LEMMA InitInv ==
  ASSUME Init
  PROVE  Inv
<1>1. world \in Ledgers /\ version \in [Keys -> Nat]
  BY ValuesType DEF Init, Ledgers
<1>2. EmptyCache \in Caches
  BY <1>1, EmptyCacheCoherent
<1>3. ASSUME NEW t \in Tx PROVE Operations[t] \in Seq(Ops) /\ Len(Operations[t]) \in Nat
  BY ParametersAssumption
<1>4. << >> \in Seq(Results) /\ Len(<< >>) = 0
  OBVIOUS
<1>5. TypeOK
  <2>1. \A t \in Tx : Len(results[t]) <= Len(Operations[t])
    BY <1>3, <1>4 DEF Init
  <2>2. results \in [Tx -> Seq(Results)]
    BY <1>4 DEF Init
  <2>3. /\ phase \in [Tx -> {"idle", "running", "endorsed", "refused", "committed", "invalid"}]
        /\ stage \in [Tx -> {"dryRun", "unique", "body", "return", "loop"}]
        /\ snapshot \in [Tx -> [world : Ledgers, version : [Keys -> Nat]]]
        /\ main \in [Tx -> Caches] /\ sandbox \in [Tx -> Caches \cup {NoSandbox}]
        /\ readSet \in [Tx -> SUBSET Keys] /\ invoked \in [Tx -> SUBSET Nat]
        /\ response \in [Tx -> {"none", "Success", "Error"}]
    BY <1>1, <1>2 DEF Init
  <2>4. QED
    BY <1>1, <2>1, <2>2, <2>3 DEF TypeOK
<1>6. \A t \in Tx : Versioned(snapshot[t], world, version)
  BY <1>1 DEF Init, Versioned
<1>7. ASSUME NEW t \in Tx PROVE Sound(t, State(t))
  <2> DEFINE x == State(t)
  <2>1. x \in States
    BY <1>5, StateType
  <2>2. /\ x.phase = "idle" /\ x.stage = (IF t \in DryRuns THEN "dryRun" ELSE "unique")
        /\ x.main = EmptyCache /\ x.sandbox = NoSandbox /\ x.results = << >>
        /\ x.readSet = {} /\ x.invoked = {}
    BY DEF State, Init
  <2> HIDE DEF x
  <2>3. Control(t, x)
    BY <1>3, <1>4, <2>2, ParametersAssumption DEF Control
  <2>4. Coherence(t, x)
    BY <2>1, <2>2, EmptyCacheKept DEF Coherence
  <2>5. Limited(t, x)
    BY <2>1, <2>2, EmptyCacheKept, ParametersAssumption DEF Limited
  <2>6. InvokedOnce(t, x)
    BY <2>2 DEF InvokedOnce
  <2>7. Outcome(t, x) /\ Replay(t, x)
    BY <2>2 DEF Outcome, Replay, Alive
  <2>8. QED
    BY <2>3, <2>4, <2>5, <2>6, <2>7 DEF Sound, x
<1>8. QED
  BY <1>5, <1>6, <1>7 DEF Inv

LEMMA NextKeepsInv ==
  ASSUME Inv, [Next]_vars
  PROVE  Inv'
<1>1. CASE Next
  <2>1. PICK t \in Tx :
          \/ BeginTransaction(t)
          \/ DryRun(t) \/ EnsureUniqueTransaction(t) \/ RunMethod(t)
          \/ Throw(t) \/ ReturnError(t) \/ Return(t)
          \/ BeginOperation(t) \/ WriteLimitExceeded(t) \/ EndBatch(t)
          \/ Commit(t) \/ Invalidate(t)
    BY <1>1 DEF Next
  <2>2. QED
    BY <2>1, BeginTransactionKeepsInv, DryRunKeepsInv, EnsureUniqueTransactionKeepsInv,
       RunMethodKeepsInv, ThrowKeepsInv, ReturnErrorKeepsInv, ReturnKeepsInv, BeginOperationKeepsInv,
       WriteLimitExceededKeepsInv, EndBatchKeepsInv, CommitKeepsInv, InvalidateKeepsInv
<1>2. CASE UNCHANGED vars
  <2>1. TypeOK'
    BY <1>2 DEF vars, Inv, TypeOK
  <2>2. \A t \in Tx : Versioned(snapshot[t], world, version)'
    BY <1>2 DEF vars, Inv, Versioned
  <2>3. \A t \in Tx : Sound(t, State(t))'
    <3>1. ASSUME NEW t \in Tx PROVE State(t)' = State(t)
      BY <1>2 DEF vars, State
    <3>2. QED
      BY <3>1 DEF Inv, Sound, Control, Coherence, Limited, InvokedOnce, Outcome, Replay
  <2>4. QED
    BY <2>1, <2>2, <2>3 DEF Inv
<1>3. QED
  BY <1>1, <1>2

\* The inductive invariant of the transactions.
THEOREM InvariantHolds == Spec => []Inv
BY InitInv, NextKeepsInv, PTL DEF Spec

-----------------------------------------------------------------------------
(* The invariants that the runs check.                                     *)

\* The variables of the transactions have their types.
THEOREM TypeCorrect == Spec => []TypeOK
<1>1. Inv => TypeOK
  BY DEF Inv
<1>2. QED
  BY <1>1, InvariantHolds, PTL

(***************************************************************************)
(* Once an operation of a batch has found the limit of writes reached, all *)
(* that follow it fail the same way (BatchSubmit in GalaContract.ts), and  *)
(* no batch writes more than one key over its limit: whatever its          *)
(* operations are, and however many they are.                              *)
(***************************************************************************)
THEOREM LimitCorrect == Spec => []LimitStopsBatch
<1>1. Inv => LimitStopsBatch
  <2> SUFFICES ASSUME Inv, NEW t \in Batches
               PROVE  /\ \A i, j \in DOMAIN results[t] :
                           i < j /\ results[t][i] = "limit" => results[t][j] = "limit"
                      /\ WritesCount(main[t]) <= WritesLimit + 1
    BY DEF LimitStopsBatch
  <2>1. t \in Tx
    BY ParametersAssumption
  <2>2. Limited(t, State(t)) /\ State(t).results = results[t] /\ State(t).main = main[t]
    BY <2>1, StateParts DEF Sound
  <2>3. QED
    BY <2>2 DEF Limited
<1>2. QED
  BY <1>1, InvariantHolds, PTL

\* It is the first operation of a transaction with one that calls the external chaincode.
OnlyOne == \A t \in Tx \ Batches : invoked[t] \subseteq {1}

LEMMA OnlyOneHolds == Spec => []OnlyOne
<1>1. Init => OnlyOne
  BY DEF Init, OnlyOne
<1>2. ASSUME Inv, OnlyOne, [Next]_vars PROVE OnlyOne'
  <2>1. CASE UNCHANGED invoked
    BY <1>2, <2>1 DEF OnlyOne
  <2>2. ASSUME NEW t \in Tx, RunMethod(t) PROVE OnlyOne'
    <3>1. invoked \in [Tx -> SUBSET Nat] /\ phase[t] = "running"
      BY <1>2, <2>2 DEF Inv, TypeOK, RunMethod
    <3>2. t \notin Batches => Index(t) = 1
      <4>1. t \notin Batches => results[t] = << >>
        BY <1>2, <3>1, StateParts DEF Sound, Control
      <4>2. QED
        BY <4>1 DEF Index
    <3>3. invoked' = [invoked EXCEPT ![t] = IF Current(t) \in External THEN @ \cup {Index(t)} ELSE @]
      BY <2>2 DEF RunMethod
    <3>4. QED
      BY <1>2, <3>1, <3>2, <3>3 DEF OnlyOne
  <2>3. ASSUME NEW t \in Tx,
               \/ BeginTransaction(t) \/ DryRun(t) \/ EnsureUniqueTransaction(t)
               \/ Throw(t) \/ ReturnError(t) \/ Return(t)
               \/ BeginOperation(t) \/ WriteLimitExceeded(t) \/ EndBatch(t)
               \/ Commit(t) \/ Invalidate(t)
        PROVE  UNCHANGED invoked
    BY <2>3 DEF BeginTransaction, DryRun, EnsureUniqueTransaction, Throw, ReturnError, Return,
                EndOperation, BeginOperation, WriteLimitExceeded, EndBatch, Commit, Invalidate
  <2>4. CASE UNCHANGED vars
    BY <2>1, <2>4 DEF vars
  <2>5. QED
    BY <1>2, <2>1, <2>2, <2>3, <2>4 DEF Next
<1>3. QED
  BY <1>1, <1>2, InvariantHolds, PTL DEF Spec

(***************************************************************************)
(* What the external chaincode wrote for a transaction with one operation  *)
(* is committed with the operation or not at all (the catch block of       *)
(* @GalaTransaction), if the method throws its errors.                     *)
(***************************************************************************)
THEOREM ExternalCorrect == Spec => []ExternalAtomic
<1>1. Inv /\ OnlyOne => ExternalAtomic
  <2> SUFFICES ASSUME Inv, OnlyOne, NEW e \in Tx \X Positions, phase[e[1]] = "committed", e[2] \in invoked[e[1]],
                      e[1] \notin Batches \cup DryRuns, Operations[e[1]][e[2]] \notin Wrapped
               PROVE  e \in Applied
    BY DEF ExternalAtomic, ExternalEffects
  <2> DEFINE t == e[1]
             x == State(t)
  <2>1. /\ t \in Tx /\ Sound(t, x) /\ x.phase = "committed" /\ x.invoked = invoked[t]
        /\ x.results = results[t] /\ x.response = response[t]
    BY StateParts
  <2>2. e[2] = 1
    BY <2>1 DEF OnlyOne
  <2>3. results[t] = <<"ok">> /\ response[t] = "Success"
    BY <2>1, <2>2 DEF Sound, InvokedOnce
  <2>4. 1 \in DOMAIN results[t] /\ results[t][1] = "ok"
    BY <2>3
  <2>5. QED
    BY <2>1, <2>2, <2>3, <2>4 DEF Applied, Completed
<1>2. QED
  BY <1>1, InvariantHolds, OnlyOneHolds, PTL

-----------------------------------------------------------------------------
(* The transactions take effect one after the other.                       *)

\* A set of natural numbers that is not empty has a least element.
LEMMA LeastElement ==
  ASSUME NEW T \in SUBSET Nat, T # {}
  PROVE  \E i \in T : \A j \in T : i <= j
<1>1. PICK i \in T : \A j \in T : <<j, i>> \notin OpToRel(<, Nat)
  BY NatLessThanWellFounded, WFMin
<1>2. ASSUME NEW j \in T PROVE i <= j
  <2>1. i \in Nat /\ j \in Nat
    BY <1>1, <1>2
  <2>2. j < i => <<j, i>> \in OpToRel(<, Nat)
    BY <2>1 DEF OpToRel
  <2>3. ~(j < i)
    BY <1>1, <1>2, <2>2
  <2>4. QED
    BY <2>1, <2>3
<1>3. QED
  BY <1>1, <1>2

\* The world states from start on, if the operations at the positions S run.
RunsThrough(f, start, t, S) ==
  /\ f \in [0 .. Len(Operations[t]) -> Ledgers]
  /\ f[0] = start
  /\ \A i \in 1 .. Len(Operations[t]) :
       f[i] = IF i \in S THEN AO!Run(f[i - 1], Operations[t][i]) ELSE f[i - 1]

\* They are the States of AtomicOperations: its equations have one solution.
LEMMA StatesAre ==
  ASSUME NEW t \in Tx, NEW start, NEW S, NEW f, RunsThrough(f, start, t, S)
  PROVE  AO!States(start, t, S) = f
<1> DEFINE n == Len(Operations[t])
           Step(g, i) == IF i = 0 THEN start
                         ELSE IF i \in S THEN AO!Run(g[i - 1], Operations[t][i]) ELSE g[i - 1]
           Solves(g) == g = [i \in 0 .. n |-> Step(g, i)]
<1>0. /\ f = [i \in 0 .. n |-> f[i]] /\ f[0] = start
      /\ \A i \in 1 .. n : f[i] = IF i \in S THEN AO!Run(f[i - 1], Operations[t][i]) ELSE f[i - 1]
  BY DEF RunsThrough
<1>1. n \in Nat
  BY ParametersAssumption
<1>2. Solves(f)
  <2>1. \A i \in 0 .. n : f[i] = Step(f, i)
    <3>1. f[0] = Step(f, 0)
      BY <1>0
    <3>2. ASSUME NEW i \in 1 .. n PROVE f[i] = Step(f, i)
      BY <1>0, <1>1
    <3>3. \A i \in 0 .. n : i = 0 \/ i \in 1 .. n
      BY <1>1
    <3> HIDE DEF Step, n
    <3>4. QED
      BY <3>1, <3>2, <3>3
  <2>2. f = [i \in 0 .. n |-> f[i]]
    BY <1>0
  <2> HIDE DEF Step, n
  <2>3. QED
    BY <2>1, <2>2
<1>3. AO!States(start, t, S) = CHOOSE g : Solves(g)
  BY DEF AO!States
<1>4. ASSUME NEW g, Solves(g) PROVE g = f
  <2>1. \A i \in 0 .. n : g[i] = Step(g, i) /\ f[i] = Step(f, i)
    BY <1>2, <1>4
  <2>2. g = [i \in 0 .. n |-> g[i]]
    BY <1>4
  <2> HIDE DEF Solves, Step, n
  <2>3. \A i \in 0 .. n : g[i] = f[i]
    <3> DEFINE T == {i \in 0 .. n : g[i] # f[i]}
    <3> SUFFICES ASSUME T # {} PROVE FALSE
      OBVIOUS
    <3>1. PICK i \in T : \A j \in T : i <= j
      <4>1. T \in SUBSET Nat
        BY <1>1
      <4> HIDE DEF T
      <4>2. QED
        BY <4>1, LeastElement
    <3>2. i # 0
      BY <1>1, <2>1, <3>1 DEF Step
    <3>3. i - 1 \in 0 .. n /\ ~(i <= i - 1)
      BY <1>1, <3>1, <3>2
    <3>4. g[i - 1] = f[i - 1]
      BY <3>1, <3>3
    <3>5. Step(g, i) = Step(f, i)
      BY <3>4 DEF Step
    <3>6. QED
      BY <2>1, <3>1, <3>5
  <2>4. QED
    BY <1>0, <2>2, <2>3 DEF n
<1> HIDE DEF Solves
<1>5. QED
  BY <1>2, <1>3, <1>4

\* What a commit of a Success makes of the world state.
LEMMA CommitOnWorld ==
  ASSUME Inv, NEW t \in Tx \ DryRuns, Commit(t), response[t] = "Success"
  PROVE  LET x == State(t)
         IN  /\ x \in States /\ Sound(t, x) /\ Agrees(x, world) /\ Alive(t, x)
             /\ world' = View(x.main, world)
<1> DEFINE x == State(t)
<1>1. /\ x \in States /\ Sound(t, x) /\ x.phase = phase[t] /\ x.snapshot = snapshot[t]
      /\ x.main = main[t] /\ x.readSet = readSet[t] /\ x.response = response[t]
  BY StateParts
<1> HIDE DEF x
<1>2. world \in Ledgers /\ main[t] \in Caches
  BY DEF Inv, TypeOK
<1>3. Agrees(x, world)
  <2>1. ASSUME NEW k \in readSet[t] PROVE snapshot[t].world[k] = world[k]
    <3>1. k \in Keys
      BY <2>1 DEF Inv, TypeOK
    <3>2. version[k] = snapshot[t].version[k]
      BY <2>1 DEF Commit, Valid
    <3>3. QED
      BY <3>1, <3>2 DEF Inv, Versioned
  <2>2. QED
    BY <1>1, <1>2, <2>1 DEF Agrees
<1>4. Alive(t, x)
  BY <1>1 DEF Alive, Commit
<1>5. world' = View(x.main, world)
  <2>1. Kept(x.main, x)
    BY <1>1 DEF Sound, Coherence
  <2>2. WritesApartFromDeletes(x.main) /\ ReadsAreCurrent(x.main, world)
    BY <1>3, <2>1, KeptOnAgreeing DEF Kept
  <2>3. WriteSet(t) = x.main
    BY <1>1 DEF WriteSet
  <2>4. world' = FlushWrites(x.main, world)
    BY <2>3 DEF Commit
  <2>5. QED
    BY <1>1, <1>2, <2>2, <2>4, FlushWritesIsView
<1>6. QED
  BY <1>1, <1>3, <1>4, <1>5 DEF x

LEMMA CommitIsExecute ==
  ASSUME Inv, NEW t \in Tx \ DryRuns, Commit(t), response[t] = "Success"
  PROVE  \E S \in SUBSET DOMAIN Operations[t] : AO!Execute(t, S)
<1> DEFINE x == State(t)
           n == Len(Operations[t])
<1>1. /\ x \in States /\ Sound(t, x) /\ Agrees(x, world) /\ Alive(t, x) /\ x.phase = "endorsed"
      /\ world' = View(x.main, world)
  BY CommitOnWorld, StateParts DEF Commit
<1> HIDE DEF x
<1>2. Operations[t] \in Seq(Ops) /\ n \in Nat /\ DOMAIN Operations[t] = 1 .. n /\ world \in Ledgers
  BY ParametersAssumption DEF Inv, TypeOK
<1>3. world = [k \in Keys |-> world[k]]
  BY <1>2 DEF Ledgers
<1>4. CASE t \notin Batches
  <2>1. n = 1
    BY <1>2, <1>4, ParametersAssumption
  <2> DEFINE op == Operations[t][1]
             S == 1 .. n
  <2>2. AO!CanRun(world, op) /\ world' = AO!Run(world, op)
    BY <1>1, <1>4 DEF Sound, Outcome, Replay, Progress
  <2>3. PICK f \in [0 .. n -> Ledgers] : f[0] = world /\ f[1] = AO!Run(world, op)
    <3>1. AO!Run(world, op) \in Ledgers
      BY <1>2, <2>1, <2>2, RunType
    <3>2. [i \in 0 .. n |-> IF i = 0 THEN world ELSE AO!Run(world, op)] \in [0 .. n -> Ledgers]
      BY <1>2, <3>1
    <3>3. \E f \in [0 .. n -> Ledgers] : f = [i \in 0 .. n |-> IF i = 0 THEN world ELSE AO!Run(world, op)]
      BY <3>2
    <3>4. QED
      BY <2>1, <3>3
  <2>4. \A i \in 1 .. n : i = 1 /\ i - 1 = 0 /\ i \in S
    BY <2>1
  <2> HIDE DEF S
  <2>5. \A i \in 1 .. n : f[i] = IF i \in S THEN AO!Run(f[i - 1], Operations[t][i]) ELSE f[i - 1]
    BY <2>3, <2>4
  <2>6. AO!States(world, t, S) = f
    <3>1. RunsThrough(f, world, t, S)
      BY <2>3, <2>5 DEF RunsThrough
    <3>2. QED
      BY <3>1, StatesAre
  <2>7. AO!Execute(t, S)
    BY <1>2, <1>4, <2>1, <2>2, <2>3, <2>4, <2>6 DEF AO!Execute, S
  <2>8. QED
    BY <1>2, <2>7 DEF S
<1>5. CASE t \in Batches
  <2> DEFINE S == {i \in 1 .. n : x.results[i] = "ok"}
             start == [world EXCEPT ![BatchKey[t]] = 1]
  <2>1. x.stage = "loop" /\ Len(x.results) = n /\ x.results \in Seq(Results)
    BY <1>1, <1>5 DEF Sound, Outcome, States
  <2>2. t \in NoPartialSuccess => S = 1 .. n
    BY <1>1, <1>5, <2>1 DEF Sound, Outcome
  <2>3. ReplayOfBatch(t, x, world)
    BY <1>1, <1>5 DEF Sound, Replay
  <2>4. world[BatchKey[t]] = NoValue
    BY <2>1, <2>3 DEF ReplayOfBatch
  <2>5. PICK states : Replays(t, x, world, states)
    BY <2>1, <2>3 DEF ReplayOfBatch
  <2>6. /\ states \in [0 .. n -> Ledgers] /\ states[0] = start
        /\ \A i \in 1 .. n : IF i \in S THEN AO!CanRun(states[i - 1], Operations[t][i])
                                             /\ states[i] = AO!Run(states[i - 1], Operations[t][i])
                                        ELSE states[i] = states[i - 1]
        /\ states[n] = world'
    BY <1>1, <2>1, <2>5 DEF Replays
  <2> HIDE DEF S, start
  <2>7. AO!States(start, t, S) = states
    <3>1. RunsThrough(states, start, t, S)
      BY <2>6 DEF RunsThrough
    <3>2. QED
      BY <3>1, StatesAre
  <2>8. S \subseteq 1 .. n
    BY DEF S
  <2>9. AO!Execute(t, S)
    BY <1>2, <1>5, <2>2, <2>4, <2>6, <2>7, <2>8 DEF AO!Execute, start
  <2>10. QED
    BY <1>2, <2>8, <2>9
<1>6. QED
  BY <1>4, <1>5

\* A commit of anything else writes nothing.
LEMMA OtherCommits ==
  ASSUME Inv, NEW t \in Tx, Commit(t), response[t] # "Success" \/ t \in DryRuns
  PROVE  world' = world
<1>1. WriteSet(t) = EmptyCache
  BY DEF WriteSet
<1>2. world \in Ledgers
  BY DEF Inv, TypeOK
<1>3. FlushWrites(EmptyCache, world) = world
  BY <1>2 DEF FlushWrites, EmptyCache, NoEntries, Ledgers
<1>4. QED
  BY <1>1, <1>3 DEF Commit

(***************************************************************************)
(* Optimistic transactions, each computed on a snapshot and in sandboxes,  *)
(* do what AtomicOperations does: one transaction at a time, each of its   *)
(* operations as a whole and in order, on the world state of that moment.  *)
(* For any operations, batches and transactions, and any interleaving.     *)
(***************************************************************************)
THEOREM Serializable == Spec => ImplementsAtomicOperations
<1>1. Init => AO!Init
  BY DEF Init, AO!Init
<1>2. ASSUME Inv, [Next]_vars PROVE [AO!Next]_world
  <2>1. CASE UNCHANGED world
    BY <2>1
  <2>2. ASSUME NEW t \in Tx, Commit(t) PROVE [AO!Next]_world
    <3>1. CASE response[t] = "Success" /\ t \notin DryRuns
      BY <1>2, <2>2, <3>1, CommitIsExecute DEF AO!Next
    <3>2. CASE response[t] # "Success" \/ t \in DryRuns
      BY <1>2, <2>2, <3>2, OtherCommits
    <3>3. QED
      BY <3>1, <3>2
  <2>3. ASSUME NEW t \in Tx,
               \/ BeginTransaction(t)
               \/ DryRun(t) \/ EnsureUniqueTransaction(t) \/ RunMethod(t)
               \/ Throw(t) \/ ReturnError(t) \/ Return(t)
               \/ BeginOperation(t) \/ WriteLimitExceeded(t) \/ EndBatch(t)
               \/ Invalidate(t)
        PROVE  UNCHANGED world
    BY <2>3 DEF BeginTransaction, DryRun, EnsureUniqueTransaction, RunMethod, Throw, ReturnError, Return,
                EndOperation, BeginOperation, WriteLimitExceeded, EndBatch, Invalidate
  <2>4. CASE UNCHANGED vars
    BY <2>1, <2>4 DEF vars
  <2>5. QED
    BY <1>2, <2>1, <2>2, <2>3, <2>4 DEF Next
<1>3. QED
  BY <1>1, <1>2, InvariantHolds, PTL DEF Spec, ImplementsAtomicOperations, AO!Spec
-----------------------------------------------------------------------------
(***************************************************************************)
(* The queue of saved requests (RequestQueue).  What the invariant adds to *)
(* QueueTypeOK is what an endorsement knows of the state it was made in,   *)
(* of which only `queued` may have changed: the requests it applies are    *)
(* the first it has read.                                                  *)
(***************************************************************************)
Knows(e) ==
  /\ e.read \subseteq Saved
  /\ DOMAIN e.succeeded \subseteq e.read
  /\ \A r \in DOMAIN e.succeeded, s \in e.read \ DOMAIN e.succeeded : Before(r, s)
  /\ \A r \in e.read : savedAt[r] <= e.cutoff

Effects == \A r \in Requests : applied[r] > 0 => r \in Saved /\ (Rounds = 1 => applied[r] = 1 /\ r \notin queued)

QueueInv == /\ QueueTypeOK
            /\ \A c \in Curators : endorsement[c] # None => Knows(endorsement[c])
            /\ Effects

LEMMA InitQueueInv == InitQueue => QueueInv
  BY DEF InitQueue, QueueInv, QueueTypeOK, Effects, Saved

\* A request that is saved keeps its time, and so its place in the order.
LEMMA SaveInv ==
  ASSUME QueueInv, NEW r \in Requests, NEW now \in SaveTimes, SaveRequest(r, now)
  PROVE  QueueInv'
<1>1. QueueTypeOK'
  BY NumbersAssumption DEF QueueInv, QueueTypeOK, SaveRequest, Saved
<1>2. ASSUME NEW c \in Curators, endorsement'[c] # None PROVE Knows(endorsement[c])'
  <2>1. endorsement' = endorsement /\ Knows(endorsement[c])
    BY <1>2 DEF QueueInv, SaveRequest
  <2>2. \A s \in Saved : s \in Saved' /\ savedAt'[s] = savedAt[s]
    BY DEF QueueInv, QueueTypeOK, SaveRequest, Saved
  <2> QED BY <2>1, <2>2 DEF Knows, Before
<1>3. Effects'
  BY DEF QueueInv, QueueTypeOK, Effects, SaveRequest, Saved
<1> QED BY <1>1, <1>2, <1>3 DEF QueueInv

LEMMA ApplyInv ==
  ASSUME QueueInv, NEW c \in Curators, NEW now \in ApplyTimes, ApplySavedRequests(c, now)
  PROVE  QueueInv'
<1> DEFINE Endorsement(read, first, succeeded) ==
      [cutoff |-> CutoffTime(now), ended |-> first = read, read |-> read, succeeded |-> succeeded]
<1> PICK read \in FirstOf(MaxRequests + 1, ApplyRange(now)) : \E first \in FirstOf(MaxRequests, read) :
      \E succeeded \in [first -> 0 .. Rounds] :
        endorsement' = [endorsement EXCEPT ![c] = Endorsement(read, first, succeeded)]
  BY DEF ApplySavedRequests
<1> PICK first \in FirstOf(MaxRequests, read) : \E succeeded \in [first -> 0 .. Rounds] :
      endorsement' = [endorsement EXCEPT ![c] = Endorsement(read, first, succeeded)]
  OBVIOUS
<1> PICK succeeded \in [first -> 0 .. Rounds] :
      endorsement' = [endorsement EXCEPT ![c] = Endorsement(read, first, succeeded)]
  OBVIOUS
<1> DEFINE e == Endorsement(read, first, succeeded)
<1>1. /\ read \subseteq ApplyRange(now) /\ first \subseteq read
      /\ \A r \in first, s \in read \ first : Before(r, s)
      /\ Cardinality(first) <= MaxRequests
  BY NumbersAssumption DEF FirstOf
<1>2. UNCHANGED <<savedAt, queued, applied>>
  BY DEF ApplySavedRequests
<1>3. /\ read \subseteq Saved /\ \A r \in read : savedAt[r] <= CutoffTime(now)
  BY <1>1 DEF ApplyRange, QueueInv, QueueTypeOK
<1>4. e \in Endorsements
  <2>1. CutoffTime(now) \in Nat
    BY NumbersAssumption DEF CutoffTime
  <2>2. read \in SUBSET Requests /\ first \in SUBSET Requests
    BY <1>1, <1>3 DEF Saved
  <2>3. succeeded \in UNION {[requests -> 0 .. Rounds] : requests \in SUBSET Requests}
    BY <2>2
  <2> QED BY <2>1, <2>2, <2>3 DEF Endorsements
<1>5. endorsement' = [endorsement EXCEPT ![c] = e]
  OBVIOUS
<1>6. DOMAIN e.succeeded = first
  OBVIOUS
<1>7. Knows(e)
  BY <1>1, <1>3, <1>6 DEF Knows
<1> HIDE DEF e
<1>8. \A d \in Curators : endorsement'[d] = IF d = c THEN e ELSE endorsement[d]
  BY <1>5 DEF QueueInv, QueueTypeOK
<1>9. QueueTypeOK'
  BY <1>1, <1>2, <1>4, <1>5, <1>6, <1>8 DEF QueueInv, QueueTypeOK, Saved
<1>10. ASSUME NEW d \in Curators, endorsement'[d] # None PROVE Knows(endorsement[d])'
  BY <1>2, <1>7, <1>8, <1>10 DEF QueueInv, Knows, Before, Saved
<1>11. Effects'
  BY <1>2 DEF QueueInv, Effects, Saved
<1> QED BY <1>9, <1>10, <1>11 DEF QueueInv

\* What a valid call applies is still in the queue, and has had no effects.
LEMMA CommitInv ==
  ASSUME QueueInv, NEW c \in Curators, CommitEndorsement(c)
  PROVE  QueueInv'
<1> DEFINE e == endorsement[c]
<1>1. /\ e \in Endorsements /\ Knows(e) /\ ValidEndorsement(e)
      /\ queued' = queued \ DOMAIN e.succeeded
      /\ applied' = [r \in Requests |->
           IF r \in DOMAIN e.succeeded THEN applied[r] + e.succeeded[r] ELSE applied[r]]
      /\ endorsement' = [endorsement EXCEPT ![c] = None]
      /\ savedAt' = savedAt
  BY DEF CommitEndorsement, QueueInv, QueueTypeOK
<1>2. \A r \in DOMAIN e.succeeded : r \in queued /\ r \in Requests /\ e.succeeded[r] \in 0 .. Rounds
  <2>1. DOMAIN e.succeeded \subseteq queued
    BY <1>1 DEF Knows, ValidEndorsement
  <2>2. \A r \in DOMAIN e.succeeded : e.succeeded[r] \in 0 .. Rounds
    BY <1>1 DEF Endorsements
  <2> QED BY <2>1, <2>2 DEF QueueInv, QueueTypeOK, Saved
<1> HIDE DEF e
<1>3. \A d \in Curators : endorsement'[d] = IF d = c THEN None ELSE endorsement[d]
  BY <1>1 DEF QueueInv, QueueTypeOK
<1>4. QueueTypeOK'
  <2>1. applied' \in [Requests -> Nat]
    BY <1>1, <1>2, NumbersAssumption DEF QueueInv, QueueTypeOK
  <2> QED BY <2>1, <1>1, <1>3 DEF QueueInv, QueueTypeOK, Saved
<1>5. ASSUME NEW d \in Curators, endorsement'[d] # None PROVE Knows(endorsement[d])'
  BY <1>1, <1>3, <1>5 DEF QueueInv, Knows, Before, Saved
<1>6. Effects'
  <2> SUFFICES ASSUME NEW r \in Requests, applied'[r] > 0
               PROVE  r \in Saved' /\ (Rounds = 1 => applied'[r] = 1 /\ r \notin queued')
    BY DEF Effects
  <2>1. CASE r \in DOMAIN e.succeeded
    <3>1. r \in queued /\ r \notin queued' /\ applied'[r] = applied[r] + e.succeeded[r]
      BY <1>1, <1>2, <2>1
    <3>2. r \in Saved'
      BY <1>1, <3>1 DEF QueueInv, QueueTypeOK, Saved
    <3>3. ASSUME Rounds = 1 PROVE applied'[r] = 1
      <4>1. applied[r] = 0
        BY <3>1, <3>3 DEF QueueInv, QueueTypeOK, Effects
      <4>2. e.succeeded[r] \in 0 .. 1
        BY <1>2, <2>1, <3>3
      <4> QED BY <3>1, <4>1, <4>2
    <3> QED BY <3>1, <3>2, <3>3
  <2>2. CASE r \notin DOMAIN e.succeeded
    BY <1>1, <2>2 DEF QueueInv, Effects, Saved
  <2> QED BY <2>1, <2>2
<1> QED BY <1>4, <1>5, <1>6 DEF QueueInv

LEMMA InvalidateInv ==
  ASSUME QueueInv, NEW c \in Curators, InvalidateEndorsement(c)
  PROVE  QueueInv'
<1>1. /\ endorsement' = [endorsement EXCEPT ![c] = None]
      /\ UNCHANGED <<savedAt, queued, applied>>
  BY DEF InvalidateEndorsement
<1>2. \A d \in Curators : endorsement'[d] = IF d = c THEN None ELSE endorsement[d]
  BY <1>1 DEF QueueInv, QueueTypeOK
<1>3. QueueTypeOK'
  BY <1>1, <1>2 DEF QueueInv, QueueTypeOK, Saved
<1>4. ASSUME NEW d \in Curators, endorsement'[d] # None PROVE Knows(endorsement[d])'
  BY <1>1, <1>2, <1>4 DEF QueueInv, Knows, Before, Saved
<1>5. Effects'
  BY <1>1 DEF QueueInv, Effects, Saved
<1> QED BY <1>3, <1>4, <1>5 DEF QueueInv

LEMMA NextQueueInv == QueueInv /\ [NextQueue]_queueVars => QueueInv'
<1> SUFFICES ASSUME QueueInv, [NextQueue]_queueVars PROVE QueueInv'
  OBVIOUS
<1>1. CASE UNCHANGED queueVars
  BY <1>1 DEF queueVars, QueueInv, QueueTypeOK, Knows, Before, Effects, Saved
<1>2. CASE NextQueue
  BY <1>2, SaveInv, ApplyInv, CommitInv, InvalidateInv DEF NextQueue
<1> QED BY <1>1, <1>2

THEOREM QueueInvariant == QueueSpec => []QueueInv
  BY InitQueueInv, NextQueueInv, PTL DEF QueueSpec

(***************************************************************************)
(* The types, and the limit that maxRequests sets, for any requests, times *)
(* and curators, batched or not.                                           *)
(***************************************************************************)
THEOREM QueueTypeCorrect == QueueSpec => []QueueTypeOK
<1>1. QueueInv => QueueTypeOK
  BY DEF QueueInv
<1> QED BY <1>1, QueueInvariant, PTL

(***************************************************************************)
(* Unless ApplyRequests is called more than once in a batch, a request     *)
(* takes effect at most once, and none that is still queued has.           *)
(***************************************************************************)
THEOREM AppliedOnceAlways ==
  ASSUME Rounds = 1
  PROVE  QueueSpec => []AppliedOnce
<1>1. QueueInv => AppliedOnce
  BY Rounds = 1 DEF QueueInv, QueueTypeOK, Effects, AppliedOnce
<1> QED BY <1>1, QueueInvariant, PTL

(***************************************************************************)
(* Requests leave the queue in the order of their keys, however calls of   *)
(* clients and curators interleave: what comes before the requests that a  *)
(* call applies was read by it, or makes it invalid.                       *)
(***************************************************************************)
LEMMA CommitInOrder ==
  ASSUME QueueInv, NEW c \in Curators, CommitEndorsement(c), NEW r \in queued \ queued', NEW s \in queued'
  PROVE  Before(r, s)
<1> DEFINE e == endorsement[c]
<1>1. /\ e \in Endorsements /\ Knows(e) /\ ValidEndorsement(e) /\ queued' = queued \ DOMAIN e.succeeded
  BY DEF CommitEndorsement, QueueInv, QueueTypeOK
<1>2. r \in DOMAIN e.succeeded /\ r \in e.read /\ s \in queued /\ s \notin DOMAIN e.succeeded
  BY <1>1 DEF Knows
<1>3. r \in Requests /\ s \in Requests /\ savedAt[r] \in Nat /\ savedAt[s] \in Nat /\ r \in Nat /\ s \in Nat
  BY <1>2, NumbersAssumption DEF QueueInv, QueueTypeOK, Saved
<1>4. CASE s \in e.read
  BY <1>1, <1>2, <1>4 DEF Knows
<1>5. CASE s \notin e.read /\ e.ended
  <2>1. ~(savedAt[s] <= e.cutoff) /\ savedAt[r] <= e.cutoff /\ e.cutoff \in Nat
    BY <1>1, <1>2, <1>5 DEF ValidEndorsement, Knows, Endorsements
  <2> QED BY <2>1, <1>3 DEF Before
<1>6. CASE s \notin e.read /\ ~e.ended
  <2>1. ~(s = r \/ Before(s, r))
    BY <1>1, <1>2, <1>6 DEF ValidEndorsement
  <2> QED BY <2>1, <1>3 DEF Before
<1> QED BY <1>4, <1>5, <1>6

THEOREM ServedInOrder == QueueSpec => FirstComeFirstServed
<1> DEFINE InOrder == \A r \in queued \ queued' : \A s \in queued' : Before(r, s)
<1>1. QueueInv /\ [NextQueue]_queueVars => [InOrder]_queueVars
  <2> SUFFICES ASSUME QueueInv, NextQueue PROVE InOrder
    OBVIOUS
  <2>1. ASSUME NEW c \in Curators, CommitEndorsement(c) PROVE InOrder
    BY <2>1, CommitInOrder
  <2>2. ASSUME queued \subseteq queued' PROVE InOrder
    BY <2>2
  <2>3. \/ \E c \in Curators : CommitEndorsement(c)
        \/ queued \subseteq queued'
    BY DEF NextQueue, SaveRequest, ApplySavedRequests, InvalidateEndorsement
  <2> QED BY <2>1, <2>2, <2>3
<1> QED BY <1>1, QueueInvariant, PTL DEF QueueSpec, FirstComeFirstServed

-----------------------------------------------------------------------------
(***************************************************************************)
(* Users.                                                                  *)
(***************************************************************************)

Addresses == KeyPairs \cup ClientAliases

IsSound(profile) == IsMultisig(profile) => profile.quorum \in 1 .. Cardinality(profile.signers)

UserInv ==
  /\ UserTypeOK
  /\ \A x \in Addresses : IsSound(profiles[x])

-----------------------------------------------------------------------------
(* Aliases and the profiles that users stand for.                          *)

LEMMA AliasesFinite == IsFiniteSet(Aliases)
<1>1. IsFiniteSet(EthAliases)
  <2> DEFINE f == [k \in KeyPairs |-> Eth(k)]
  <2>1. f \in Surjection(KeyPairs, EthAliases)
    BY DEF Surjection, EthAliases
  <2>2. QED
    BY <2>1, FS_Surjection, KeysAssumption
<1>2. IsFiniteSet(ClientAliases)
  <2> DEFINE f == [name \in ClientNames |-> Client(name)]
  <2>1. f \in Surjection(ClientNames, ClientAliases)
    BY DEF Surjection, ClientAliases
  <2>2. QED
    BY <2>1, FS_Surjection, KeysAssumption
<1>3. IsFiniteSet(EthAliases \cup ClientAliases)
  BY <1>1, <1>2, FS_Union
<1>4. QED
  BY <1>3, FS_AddElement DEF Aliases

LEMMA SignersFinite ==
  ASSUME NEW signers \in SUBSET Aliases
  PROVE  IsFiniteSet(signers) /\ Cardinality(signers) \in Nat
BY AliasesFinite, FS_Subset, FS_CardinalityType

LEMMA DefaultType ==
  ASSUME NEW k \in KeyPairs
  PROVE  DefaultProfile(k) \in Profiles /\ DefaultProfile(k).signers = Absent
BY DEF DefaultProfile, SingleSigned, Profiles, Roles, DefaultRoles, Aliases, EthAliases

LEMMA AdminType == AdminProfile \in Profiles /\ AdminProfile.signers = Absent
BY KeysAssumption
DEF AdminProfile, SingleSigned, Profiles, Roles, Aliases, ClientAliases

LEMMA InvalidatedType == InvalidatedProfile \in Profiles /\ InvalidatedProfile.signers = Absent
BY DEF InvalidatedProfile, SingleSigned, Profiles, Aliases

LEMMA UserProfileType ==
  ASSUME UserInv, NEW x \in Addresses, GetUserProfile(x) # Absent
  PROVE  GetUserProfile(x) \in Profiles /\ IsSound(GetUserProfile(x))
BY AdminType DEF GetUserProfile, UserInv, UserTypeOK, Addresses, IsSound, IsMultisig

LEMMA ProfileOfType ==
  ASSUME UserInv, NEW k \in KeyPairs
  PROVE  ProfileOf(k) \in Profiles
BY UserProfileType, DefaultType DEF ProfileOf, Addresses

LEMMA EthAliasType ==
  ASSUME NEW a \in EthAliases
  PROVE  a[2] \in KeyPairs
BY DEF EthAliases, Eth

LEMMA ResolvedType ==
  ASSUME UserInv, NEW ref \in Refs
  PROVE  ResolveUserAlias(ref) \in Aliases
<1>1. CASE ref \in EthAliases
  BY <1>1, EthAliasType, ProfileOfType DEF ResolveUserAlias, Profiles
<1>2. CASE ref \notin EthAliases
  BY <1>2, BoundsAssumption DEF ResolveUserAlias, Refs, Aliases, ClientAliases
<1>3. QED
  BY <1>1, <1>2

\* Who signed an authenticated call has a profile.
LEMMA SenderType ==
  ASSUME UserInv, NEW call \in Calls, IsAuthenticated(call)
  PROVE  SenderProfile(call) \in Profiles
<1>1. CASE call.signerAddress = Absent
  <2>1. call.keys \in SUBSET KeyPairs /\ call.keys # {}
    BY DEF Calls
  <2>2. (CHOOSE k \in call.keys : TRUE) \in KeyPairs
    BY <2>1
  <2>3. QED
    BY <1>1, <2>2, ProfileOfType DEF SenderProfile
<1>2. CASE call.signerAddress # Absent
  BY <1>2, UserProfileType DEF SenderProfile, Calls, IsAuthenticated, IsMultisig, Addresses
<1>3. QED
  BY <1>1, <1>2

-----------------------------------------------------------------------------
(* The calls.                                                              *)

LEMMA InitUserInv == InitUsers => UserInv
BY DEF InitUsers, UserInv, UserTypeOK, Addresses, IsSound, IsMultisig

\* A call that saves one profile.
LEMMA PutInv ==
  ASSUME UserInv, NEW address, NEW profile \in Profiles, IsSound(profile),
         PutUserProfile(address, profile),
         publicKeys' \in [Aliases -> KeyPairs \cup {Absent}], last' \in Calls
  PROVE  UserInv'
BY DEF UserInv, UserTypeOK, PutUserProfile, Addresses, IsSound, IsMultisig

LEMMA RegisterUserInv ==
  ASSUME UserInv, NEW call \in Calls, NEW alias \in ClientAliases, NEW k \in KeyPairs,
         RegisterUser(call, alias, k)
  PROVE  UserInv'
<1> DEFINE profile == SingleSigned(alias, k, DefaultRoles, 1)
<1>1. profile \in Profiles /\ profile.signers = Absent
  BY DEF SingleSigned, Profiles, Roles, DefaultRoles, Aliases
<1>2. publicKeys' \in [Aliases -> KeyPairs \cup {Absent}] /\ last' \in Calls
  BY DEF RegisterUser, Authorized, UserInv, UserTypeOK
<1>3. PutUserProfile(k, profile)
  BY DEF RegisterUser
<1>4. IsSound(profile)
  BY <1>1 DEF IsSound, IsMultisig
<1>5. QED
  BY <1>1, <1>2, <1>3, <1>4, PutInv

LEMMA RegisterMultisigInv ==
  ASSUME UserInv, NEW call \in Calls, NEW alias \in ClientAliases,
         NEW refs \in SignersToRegister, NEW quorum \in Quorums,
         RegisterMultisig(call, alias, refs, quorum)
  PROVE  UserInv'
<1> DEFINE signers == {ResolveUserAlias(r) : r \in refs}
           profile == Multisig(alias, DefaultRoles, signers, quorum)
<1>1. signers \in SUBSET Aliases
  BY ResolvedType DEF SignersToRegister
<1>2. profile \in Profiles
  BY <1>1, BoundsAssumption DEF Multisig, Profiles, Roles, Aliases, Quorums
<1>3. IsSound(profile)
  BY DEF RegisterMultisig, IsSound, Multisig
<1>4. publicKeys' \in [Aliases -> KeyPairs \cup {Absent}] /\ last' \in Calls
  BY DEF RegisterMultisig, Authorized, UserInv, UserTypeOK
<1>5. PutUserProfile(alias, profile)
  BY DEF RegisterMultisig
<1>6. QED
  BY <1>2, <1>3, <1>4, <1>5, PutInv

LEMMA UpdatePublicKeyInv ==
  ASSUME UserInv, NEW call \in Calls, IsAuthenticated(call), NEW dto \in UpdatePublicKeyDtos,
         UpdatePublicKey(call, dto)
  PROVE  UserInv'
<1> DEFINE user == CallingUser(call)
           old  == SenderProfile(call).ethAddress
           k    == dto.publicKey
           new  == SingleSigned(user, k, ProfileOf(old).roles, ProfileOf(old).quorum)
<1>1. user \in Aliases /\ old \in KeyPairs /\ k \in KeyPairs
  BY SenderType DEF CallingUser, Profiles, UpdatePublicKey, UpdatePublicKeyDtos
<1>2. new \in Profiles /\ new.signers = Absent
  BY <1>1, ProfileOfType DEF SingleSigned, Profiles
<1>3. /\ publicKeys' = [publicKeys EXCEPT ![user] = k]
      /\ profiles' = [profiles EXCEPT ![old] = InvalidatedProfile, ![k] = new]
      /\ last' = call
  BY DEF UpdatePublicKey, Authorized
<1>4. UserTypeOK'
  BY <1>1, <1>2, <1>3, InvalidatedType DEF UserInv, UserTypeOK
<1>5. \A x \in Addresses : profiles'[x] \in {profiles[x], InvalidatedProfile, new}
  BY <1>3 DEF UserInv, UserTypeOK, Addresses
<1>6. QED
  BY <1>2, <1>4, <1>5, InvalidatedType DEF UserInv, IsSound, IsMultisig

LEMMA WithRoles ==
  ASSUME NEW profile \in Profiles, NEW user, NEW roles
  PROVE  [profile EXCEPT !.alias = user, !.roles = roles] =
           [alias |-> user, ethAddress |-> profile.ethAddress, roles |-> roles,
            signers |-> profile.signers, quorum |-> profile.quorum]
<1> DEFINE renamed == [profile EXCEPT !.alias = user]
<1>1. renamed = [alias |-> user, ethAddress |-> profile.ethAddress, roles |-> profile.roles,
                 signers |-> profile.signers, quorum |-> profile.quorum]
  BY DEF Profiles
<1>2. [profile EXCEPT !.alias = user, !.roles = roles] = [renamed EXCEPT !.roles = roles]
  BY DEF Profiles
<1> HIDE DEF renamed
<1>3. [renamed EXCEPT !.roles = roles] =
        [alias |-> user, ethAddress |-> profile.ethAddress, roles |-> roles,
         signers |-> profile.signers, quorum |-> profile.quorum]
  BY <1>1
<1>4. QED
  BY <1>2, <1>3

LEMMA UpdateUserRolesInv ==
  ASSUME UserInv, NEW call \in Calls, NEW ref \in Refs, NEW roles \in RolesToUpdate,
         UpdateUserRoles(call, ref, roles)
  PROVE  UserInv'
<1> DEFINE user    == ResolveUserAlias(ref)
           profile == ProfileToUpdate(user)
           new     == [profile EXCEPT !.alias = user, !.roles = roles]
           address == IF profile.ethAddress # Absent THEN profile.ethAddress ELSE user
<1>1. user \in Aliases /\ user # Invalidated /\ profile # Absent
  BY ResolvedType DEF UpdateUserRoles
<1>2. AddressOf(user) \in Addresses
  <2>1. GetPublicKey(user) \in KeyPairs \cup {Absent}
    BY <1>1, KeysAssumption DEF GetPublicKey, UserInv, UserTypeOK
  <2>2. user \in EthAliases \cup ClientAliases
    BY <1>1 DEF Aliases
  <2>3. QED
    BY <2>1, <2>2, EthAliasType DEF AddressOf, Addresses
<1>3. profile \in Profiles /\ IsSound(profile)
  <2>1. CASE GetUserProfile(AddressOf(user)) = Absent /\ user \in EthAliases
    <3>1. AddressOf(user) \in KeyPairs
      BY <2>1, <1>1, EthAliasType, KeysAssumption DEF AddressOf, GetPublicKey, UserInv, UserTypeOK
    <3>2. QED
      BY <2>1, <3>1, DefaultType DEF ProfileToUpdate, IsSound, IsMultisig
  <2>2. CASE ~(GetUserProfile(AddressOf(user)) = Absent /\ user \in EthAliases)
    BY <2>2, <1>1, <1>2, UserProfileType DEF ProfileToUpdate
  <2>3. QED
    BY <2>1, <2>2
<1>4. new = [alias |-> user, ethAddress |-> profile.ethAddress, roles |-> roles,
             signers |-> profile.signers, quorum |-> profile.quorum]
  BY <1>3, WithRoles
<1>5. new \in Profiles
  BY <1>1, <1>3, <1>4 DEF Profiles, RolesToUpdate
<1>6. IsSound(new)
  <2>1. CASE profile.signers = Absent
    BY <2>1, <1>4 DEF IsSound, IsMultisig
  <2>2. CASE profile.signers # Absent
    BY <2>2, <1>1, <1>3, <1>4 DEF IsSound, IsMultisig
  <2>3. QED
    BY <2>1, <2>2
<1>7. publicKeys' \in [Aliases -> KeyPairs \cup {Absent}] /\ last' \in Calls
  BY DEF UpdateUserRoles, Authorized, UserInv, UserTypeOK
<1>8. PutUserProfile(address, new)
  BY DEF UpdateUserRoles, PutRoles
<1>9. QED
  BY <1>5, <1>6, <1>7, <1>8, PutInv

-----------------------------------------------------------------------------
(* The calls of a multisig user.                                           *)

LEMMA MultisigCaller ==
  ASSUME UserInv, NEW call \in Calls, MultisigCall(call)
  PROVE  LET user == CallingUser(call)
         IN  /\ user \in Addresses
             /\ profiles[user] \in Profiles /\ profiles[user].signers \in SUBSET Aliases
             /\ profiles[user].quorum \in 1 .. Cardinality(profiles[user].signers)
             /\ Cardinality(profiles[user].signers) \in Nat
             /\ publicKeys' = publicKeys /\ last' = call
<1> DEFINE user == CallingUser(call)
<1>1. /\ user \in Addresses /\ publicKeys' = publicKeys /\ last' = call
      /\ IsMultisig(GetUserProfile(user))
  BY DEF MultisigCall, Authorized, Addresses
<1>2. GetUserProfile(user) = profiles[user]
  BY <1>1, AdminType DEF GetUserProfile, IsMultisig
<1>3. profiles[user] \in Profiles /\ profiles[user].signers # Absent /\ IsSound(profiles[user])
  BY <1>1, <1>2, UserProfileType DEF IsMultisig
<1>4. profiles[user].signers \in SUBSET Aliases
  BY <1>3 DEF Profiles
<1>5. QED
  BY <1>1, <1>2, <1>3, <1>4, SignersFinite DEF IsSound

LEMMA PutSignersInv ==
  ASSUME UserInv, NEW call \in Calls, MultisigCall(call), NEW signers \in SUBSET Aliases,
         PutSigners(CallingUser(call), signers),
         Cardinality(signers) >= profiles[CallingUser(call)].quorum
  PROVE  UserInv'
<1> DEFINE user == CallingUser(call)
           new  == [profiles[user] EXCEPT !.signers = signers]
<1>1. /\ user \in Addresses /\ profiles[user] \in Profiles
      /\ profiles[user].quorum \in Nat \ {0}
      /\ publicKeys' = publicKeys /\ last' = call
  BY MultisigCaller, SignersFinite DEF Profiles
<1>2. new = [alias |-> profiles[user].alias, ethAddress |-> profiles[user].ethAddress,
             roles |-> profiles[user].roles, signers |-> signers, quorum |-> profiles[user].quorum]
  BY <1>1 DEF Profiles
<1>3. new \in Profiles
  BY <1>1, <1>2 DEF Profiles
<1>4. IsSound(new)
  BY <1>1, <1>2, SignersFinite DEF IsSound
<1>5. PutUserProfile(user, new)
  BY DEF PutSigners, PutUserProfile
<1>6. publicKeys' \in [Aliases -> KeyPairs \cup {Absent}] /\ last' \in Calls
  BY <1>1 DEF UserInv, UserTypeOK
<1>7. QED
  BY <1>3, <1>4, <1>5, <1>6, PutInv

LEMMA AddSignerInv ==
  ASSUME UserInv, NEW call \in Calls, NEW ref \in Refs, AddSigner(call, ref)
  PROVE  UserInv'
<1> DEFINE signers == profiles[CallingUser(call)].signers
           signer  == ResolveUserAlias(ref)
<1>1. /\ MultisigCall(call) /\ signer \notin signers
      /\ PutSigners(CallingUser(call), signers \cup {signer})
  BY DEF AddSigner
<1>2. signers \in SUBSET Aliases /\ profiles[CallingUser(call)].quorum \in 1 .. Cardinality(signers)
  BY <1>1, MultisigCaller
<1>3. signers \cup {signer} \in SUBSET Aliases
  BY <1>2, ResolvedType
<1>4. Cardinality(signers \cup {signer}) = Cardinality(signers) + 1 /\ Cardinality(signers) \in Nat
  BY <1>1, <1>2, SignersFinite, FS_AddElement
<1>5. QED
  BY <1>1, <1>2, <1>3, <1>4, PutSignersInv

\* Each removal leaves a quorum.
LEMMA RemovalLeavesQuorum ==
  ASSUME NEW signers \in SUBSET Aliases, NEW quorum \in Nat, NEW signedBy, NEW signer,
         CanRemoveSigner(signers, quorum, signedBy, signer)
  PROVE  Cardinality(signers \ {signer}) >= quorum
<1>1. IsFiniteSet(signers) /\ Cardinality(signers) \in Nat
  BY SignersFinite
<1>2. Cardinality(signers \ {signer}) \in {Cardinality(signers), Cardinality(signers) - 1}
  BY <1>1, FS_RemoveElement
<1>3. QED
  BY <1>1, <1>2 DEF CanRemoveSigner

LEMMA RemoveSignerInv ==
  ASSUME UserInv, NEW call \in Calls, NEW ref \in Refs, RemoveSigner(call, ref)
  PROVE  UserInv'
<1> DEFINE profile == profiles[CallingUser(call)]
           signer  == ResolveUserAlias(ref)
<1>1. /\ MultisigCall(call)
      /\ CanRemoveSigner(profile.signers, profile.quorum, SignedBy(call), signer)
      /\ PutSigners(CallingUser(call), profile.signers \ {signer})
  BY DEF RemoveSigner
<1>2. profile.signers \in SUBSET Aliases /\ profile.quorum \in Nat
  BY <1>1, MultisigCaller
<1>3. profile.signers \ {signer} \in SUBSET Aliases
  BY <1>2
<1>4. Cardinality(profile.signers \ {signer}) >= profile.quorum
  BY <1>1, <1>2, RemovalLeavesQuorum
<1>5. QED
  BY <1>1, <1>3, <1>4, PutSignersInv

(***************************************************************************)
(* Of several removals the last leaves a quorum, and what is added then    *)
(* does not make the signers fewer.                                        *)
(***************************************************************************)
LEMMA UpdateSignersInv ==
  ASSUME UserInv, NEW call \in Calls, NEW dto \in SignersToUpdate,
         UpdateSigners(call, dto.toRemove, dto.toAdd)
  PROVE  UserInv'
<1> DEFINE user      == CallingUser(call)
           toRemove  == dto.toRemove
           toAdd     == dto.toAdd
           removed   == [i \in DOMAIN toRemove |-> ResolveUserAlias(toRemove[i])]
           added     == [i \in DOMAIN toAdd |-> ResolveUserAlias(toAdd[i])]
           KeptBefore(i) == profiles[user].signers \ {removed[j] : j \in 1 .. i - 1}
           kept      == KeptBefore(Len(toRemove) + 1)
           new       == kept \cup {added[i] : i \in DOMAIN toAdd}
<1>1. /\ MultisigCall(call) /\ PutSigners(user, new)
      /\ \A i \in DOMAIN toRemove :
           CanRemoveSigner(KeptBefore(i), profiles[user].quorum, SignedBy(call), removed[i])
  BY DEF UpdateSigners
<1>2. profiles[user].signers \in SUBSET Aliases /\ profiles[user].quorum \in Nat
  BY <1>1, MultisigCaller
<1>3. /\ toRemove \in Refs \X Refs /\ Len(toRemove) = 2 /\ DOMAIN toRemove = 1 .. 2
      /\ toAdd \in Seq(Refs)
  <2>1. toRemove \in Refs \X Refs /\ toAdd \in {<<r>> : r \in Refs}
    BY DEF SignersToUpdate
  <2> HIDE DEF toRemove, toAdd
  <2>2. toAdd \in Seq(Refs)
    <3>1. PICK r \in Refs : toAdd = <<r>>
      BY <2>1
    <3>2. QED
      BY <3>1
  <2>3. Len(toRemove) = 2 /\ DOMAIN toRemove = 1 .. 2
    <3>1. PICK r \in Refs, s \in Refs : toRemove = <<r, s>>
      BY <2>1
    <3>2. QED
      BY <3>1
  <2>4. QED
    BY <2>1, <2>2, <2>3
<1>4. KeptBefore(2) \in SUBSET Aliases /\ kept = KeptBefore(2) \ {removed[2]}
  <2>1. 1 .. (Len(toRemove) + 1) - 1 = 1 .. 2 /\ 1 .. 2 - 1 = {1} /\ 1 .. 2 = {1, 2}
    BY <1>3
  <2>2. QED
    BY <1>2, <2>1
<1>5. CanRemoveSigner(KeptBefore(2), profiles[user].quorum, SignedBy(call), removed[2])
  BY <1>1, <1>3
<1>6. Cardinality(kept) >= profiles[user].quorum
  BY <1>2, <1>4, <1>5, RemovalLeavesQuorum
<1>7. new \in SUBSET Aliases
  <2>1. \A i \in DOMAIN toAdd : toAdd[i] \in Refs
    BY <1>3
  <2>2. \A i \in DOMAIN toAdd : added[i] \in Aliases
    BY <2>1, ResolvedType
  <2>3. kept \in SUBSET Aliases
    BY <1>4
  <2>4. QED
    BY <2>2, <2>3
<1>8. Cardinality(new) >= Cardinality(kept) /\ Cardinality(new) \in Nat /\ Cardinality(kept) \in Nat
  BY <1>4, <1>7, SignersFinite, FS_Subset
<1>9. Cardinality(new) >= profiles[user].quorum
  BY <1>2, <1>6, <1>8
<1>10. QED
  BY <1>1, <1>7, <1>9, PutSignersInv

LEMMA UpdateQuorumInv ==
  ASSUME UserInv, NEW call \in Calls, NEW quorum \in Quorums, UpdateQuorum(call, quorum)
  PROVE  UserInv'
<1> DEFINE user == CallingUser(call)
           new  == [profiles[user] EXCEPT !.quorum = quorum]
<1>1. /\ MultisigCall(call) /\ quorum \in 1 .. Cardinality(profiles[user].signers)
      /\ profiles' = [profiles EXCEPT ![user].quorum = quorum]
  BY DEF UpdateQuorum
<1>2. /\ user \in Addresses /\ profiles[user] \in Profiles
      /\ publicKeys' = publicKeys /\ last' = call
  BY <1>1, MultisigCaller
<1>3. new = [alias |-> profiles[user].alias, ethAddress |-> profiles[user].ethAddress,
             roles |-> profiles[user].roles, signers |-> profiles[user].signers, quorum |-> quorum]
  BY <1>2 DEF Profiles
<1>4. new \in Profiles /\ IsSound(new)
  BY <1>1, <1>2, <1>3, BoundsAssumption DEF Profiles, IsSound, Quorums
<1>5. PutUserProfile(user, new)
  BY <1>1 DEF PutUserProfile
<1>6. publicKeys' \in [Aliases -> KeyPairs \cup {Absent}] /\ last' \in Calls
  BY <1>2 DEF UserInv, UserTypeOK
<1>7. QED
  BY <1>4, <1>5, <1>6, PutInv

LEMMA NextInv == UserInv /\ [NextUsers]_userVars => UserInv'
<1> SUFFICES ASSUME UserInv, [NextUsers]_userVars
             PROVE  UserInv'
  OBVIOUS
<1>1. CASE UNCHANGED userVars
  BY <1>1 DEF userVars, UserInv, UserTypeOK, IsSound, IsMultisig
<1>2. ASSUME NEW call \in Calls, IsAuthenticated(call), UserCall(call)
      PROVE  UserInv'
  BY <1>2, RegisterUserInv, RegisterMultisigInv, UpdatePublicKeyInv, UpdateUserRolesInv,
     AddSignerInv, RemoveSignerInv, UpdateSignersInv, UpdateQuorumInv DEF UserCall
<1>3. QED
  BY <1>1, <1>2 DEF NextUsers

LEMMA AlwaysInv == UserSpec => []UserInv
BY InitUserInv, NextInv, PTL DEF UserSpec

-----------------------------------------------------------------------------

(***************************************************************************)
(* The keys and profiles that are saved have their types, and so has the   *)
(* last call.                                                              *)
(***************************************************************************)
THEOREM UserTypeCorrect == UserSpec => []UserTypeOK
<1>1. UserInv => UserTypeOK
  BY DEF UserInv
<1>2. QED
  BY <1>1, AlwaysInv, PTL

(***************************************************************************)
(* No sequence of calls leaves a multisig user with a quorum that its      *)
(* signers cannot meet, or that none of them needs to.                     *)
(***************************************************************************)
THEOREM QuorumAlwaysReachable == UserSpec => []QuorumIsReachable
<1>1. UserInv => QuorumIsReachable
  BY DEF UserInv, QuorumIsReachable, IsSound, Addresses
<1>2. QED
  BY <1>1, AlwaysInv, PTL

-----------------------------------------------------------------------------
(***************************************************************************)
(* Keys.  PublicKey objects lead from users to keys, UserProfile objects   *)
(* from keys to users: the invariant says how far each follows from the    *)
(* other.                                                                  *)
(***************************************************************************)

\* The profile of a key is that of a user with this key, or of nobody any more.
SavedRight(k) ==
  GetUserProfile(k) # Absent =>
    /\ GetUserProfile(k).signers = Absent
    /\ GetUserProfile(k).alias = Invalidated =>
         GetUserProfile(k).ethAddress = Absent /\ GetUserProfile(k).roles = {}
    /\ GetUserProfile(k).alias # Invalidated =>
         /\ GetUserProfile(k).ethAddress = k
         /\ GetPublicKey(GetUserProfile(k).alias) # k =>
              GetPublicKey(GetUserProfile(k).alias) = Absent /\ GetUserProfile(k).alias = Eth(k)

\* The key of a user has a profile of the user.
KeyRight(a) ==
  GetPublicKey(a) # Absent =>
    GetUserProfile(GetPublicKey(a)) # Absent /\ GetUserProfile(GetPublicKey(a)).alias = a

\* Who has a new key in place of k has left a profile of k behind.
EthRight(k) == GetPublicKey(Eth(k)) # Absent => GetUserProfile(k) # Absent

MultisigRight(a) == profiles[a] # Absent => profiles[a].ethAddress = Absent

KeysInv == /\ \A k \in KeyPairs : SavedRight(k) /\ EthRight(k)
           /\ \A a \in Aliases : KeyRight(a)
           /\ \A a \in ClientAliases : MultisigRight(a)

-----------------------------------------------------------------------------
(* What is saved is found again.                                           *)

LEMMA AliasesDiffer ==
  /\ \A j, k \in KeyPairs : Eth(j) = Eth(k) => j = k
  /\ \A k \in KeyPairs : Eth(k) \in EthAliases
  /\ \A a \in EthAliases : a[2] \in KeyPairs /\ a = Eth(a[2])
  /\ EthAliases \cap ClientAliases = {} /\ KeyPairs \cap ClientAliases = {}
  /\ Invalidated \notin EthAliases /\ Invalidated \notin ClientAliases
<1>1. \A j, k \in KeyPairs : Eth(j) = Eth(k) => j = k
  BY DEF Eth
<1>2. /\ \A k \in KeyPairs : Eth(k) \in EthAliases
      /\ \A a \in EthAliases : a[2] \in KeyPairs /\ a = Eth(a[2])
  BY DEF Eth, EthAliases
<1>3. EthAliases \cap ClientAliases = {} /\ Invalidated \notin EthAliases
  BY DEF Eth, EthAliases, Client, ClientAliases, Invalidated
<1>4. Invalidated \notin ClientAliases
  BY KeysAssumption DEF Client, ClientAliases, Invalidated
<1>5. KeyPairs \cap ClientAliases = {}
  BY KeysAssumption DEF Client, ClientAliases
<1>6. QED
  BY <1>1, <1>2, <1>3, <1>4, <1>5

LEMMA KeyType ==
  ASSUME UserInv, NEW a \in Aliases
  PROVE  GetPublicKey(a) \in KeyPairs \cup {Absent}
BY KeysAssumption DEF GetPublicKey, UserInv, UserTypeOK

LEMMA SavedProfile ==
  ASSUME UserInv, NEW address \in Addresses, NEW profile \in Profiles,
         PutUserProfile(address, profile)
  PROVE  \A x \in Addresses : GetUserProfile(x)' = IF x = address THEN profile ELSE GetUserProfile(x)
BY NoneAssumption DEF UserInv, UserTypeOK, PutUserProfile, GetUserProfile, Addresses

LEMMA SavedKey ==
  ASSUME UserInv, NEW a \in Aliases, NEW k \in KeyPairs, publicKeys' = [publicKeys EXCEPT ![a] = k]
  PROVE  \A b \in Aliases : GetPublicKey(b)' = IF b = a THEN k ELSE GetPublicKey(b)
BY KeysAssumption DEF UserInv, UserTypeOK, GetPublicKey

\* Multisig profiles have nothing to do with keys.
LEMMA MultisigSaved ==
  ASSUME UserInv, KeysInv, NEW a \in ClientAliases, NEW profile,
         profile.ethAddress = Absent, PutUserProfile(a, profile), publicKeys' = publicKeys
  PROVE  KeysInv'
<1>1. \A k \in KeyPairs : GetUserProfile(k)' = GetUserProfile(k)
  BY AliasesDiffer DEF UserInv, UserTypeOK, PutUserProfile, GetUserProfile
<1>2. \A b : GetPublicKey(b)' = GetPublicKey(b)
  BY DEF GetPublicKey
<1>3. \A b \in Aliases : GetPublicKey(b) \in KeyPairs \cup {Absent}
  BY KeyType
<1>4. \A k \in KeyPairs : SavedRight(k)' /\ EthRight(k)'
  BY <1>1, <1>2 DEF KeysInv, SavedRight, EthRight
<1>5. \A b \in Aliases : KeyRight(b)'
  BY <1>1, <1>2, <1>3 DEF KeysInv, KeyRight
<1>6. \A b \in ClientAliases : MultisigRight(b)'
  BY DEF KeysInv, MultisigRight, PutUserProfile, UserInv, UserTypeOK
<1>7. QED
  BY <1>4, <1>5, <1>6 DEF KeysInv

-----------------------------------------------------------------------------
(* The calls that save keys.                                               *)

LEMMA InitKeysInv == InitUsers => KeysInv
<1> SUFFICES ASSUME InitUsers
             PROVE  KeysInv
  OBVIOUS
<1>1. \A k \in KeyPairs : GetUserProfile(k) = IF k = AdminKey THEN AdminProfile ELSE Absent
  BY DEF InitUsers, GetUserProfile
<1>2. \A a \in Aliases : GetPublicKey(a) = IF a = Client(AdminName) THEN AdminKey ELSE Absent
  BY DEF InitUsers, GetPublicKey
<1>3. /\ AdminProfile \in Profiles /\ AdminProfile.signers = Absent
      /\ AdminProfile.alias = Client(AdminName) /\ AdminProfile.ethAddress = AdminKey
      /\ AdminProfile # Absent
  BY AdminType, NoneAssumption DEF AdminProfile, SingleSigned
<1>4. Client(AdminName) \in ClientAliases /\ Client(AdminName) \in Aliases
  BY KeysAssumption DEF ClientAliases, Aliases
<1>5. \A k \in KeyPairs : Eth(k) \in Aliases /\ Eth(k) # Client(AdminName)
  BY <1>4, AliasesDiffer DEF Aliases
<1>6. \A k \in KeyPairs : SavedRight(k)
  BY <1>1, <1>2, <1>3, <1>4, AliasesDiffer DEF SavedRight
<1>7. \A k \in KeyPairs : EthRight(k)
  BY <1>2, <1>5 DEF EthRight
<1>8. \A a \in Aliases : KeyRight(a)
  BY <1>1, <1>2, <1>3, KeysAssumption DEF KeyRight
<1>9. \A a \in ClientAliases : MultisigRight(a)
  BY DEF InitUsers, MultisigRight
<1>10. QED
  BY <1>6, <1>7, <1>8, <1>9 DEF KeysInv

LEMMA RegisterUserKeys ==
  ASSUME UserInv, KeysInv, NEW call \in Calls, NEW alias \in ClientAliases, NEW k \in KeyPairs,
         RegisterUser(call, alias, k)
  PROVE  KeysInv'
<1> DEFINE new == SingleSigned(alias, k, DefaultRoles, 1)
<1>1. /\ new \in Profiles /\ new # Absent
      /\ new.alias = alias /\ new.ethAddress = k /\ new.signers = Absent
  BY NoneAssumption DEF SingleSigned, Profiles, Roles, DefaultRoles, Aliases
<1>2. /\ alias \in Aliases /\ GetPublicKey(alias) = Absent /\ GetUserProfile(k) = Absent
      /\ publicKeys' = [publicKeys EXCEPT ![alias] = k] /\ PutUserProfile(k, new)
  BY DEF RegisterUser, Aliases
<1>3. \A j \in KeyPairs : GetUserProfile(j)' = IF j = k THEN new ELSE GetUserProfile(j)
  BY <1>1, <1>2, SavedProfile DEF Addresses
<1>4. \A b \in Aliases : GetPublicKey(b)' = IF b = alias THEN k ELSE GetPublicKey(b)
  BY <1>2, SavedKey
<1> HIDE DEF new
<1>5. ASSUME NEW j \in KeyPairs
      PROVE  SavedRight(j)'
  <2>1. CASE j = k
    BY <2>1, <1>1, <1>2, <1>3, <1>4, AliasesDiffer DEF SavedRight
  <2>2. CASE j # k /\ GetUserProfile(j) # Absent
    <3>1. SavedRight(j) /\ GetUserProfile(j)' = GetUserProfile(j)
      BY <2>2, <1>3 DEF KeysInv
    <3>2. GetUserProfile(j).alias \in Aliases
      BY <2>2, UserProfileType DEF Addresses, Profiles
    <3>3. GetUserProfile(j).alias # alias
      BY <2>2, <3>1, <1>2, AliasesDiffer, KeysAssumption DEF SavedRight
    <3>4. GetPublicKey(GetUserProfile(j).alias)' = GetPublicKey(GetUserProfile(j).alias)
      BY <3>1, <3>2, <3>3, <1>4
    <3>5. QED
      BY <3>1, <3>4 DEF SavedRight
  <2>3. CASE j # k /\ GetUserProfile(j) = Absent
    BY <2>3, <1>3 DEF SavedRight
  <2>4. QED
    BY <2>1, <2>2, <2>3
<1>6. ASSUME NEW j \in KeyPairs
      PROVE  EthRight(j)'
  <2>1. Eth(j) \in Aliases /\ Eth(j) # alias
    BY AliasesDiffer DEF Aliases
  <2>2. QED
    BY <2>1, <1>1, <1>3, <1>4 DEF KeysInv, EthRight
<1>7. ASSUME NEW b \in Aliases
      PROVE  KeyRight(b)'
  BY KeyType, <1>1, <1>2, <1>3, <1>4, KeysAssumption DEF KeysInv, KeyRight
<1>8. \A a \in ClientAliases : MultisigRight(a)'
  BY <1>2, AliasesDiffer DEF KeysInv, MultisigRight, PutUserProfile, UserInv, UserTypeOK
<1>9. QED
  BY <1>5, <1>6, <1>7, <1>8 DEF KeysInv

\* Who signs with one key that was not given up is the user of this key.
LEMMA CallerHasKey ==
  ASSUME UserInv, KeysInv, NEW call \in Calls, IsAuthenticated(call),
         SenderProfile(call).ethAddress # Absent
  PROVE  LET old == SenderProfile(call).ethAddress
         IN  /\ old \in KeyPairs /\ CallingUser(call) = ProfileOf(old).alias
             /\ CallingUser(call) # Invalidated /\ CallingUser(call) \in Aliases
             /\ GetPublicKey(CallingUser(call)) # old =>
                  GetPublicKey(CallingUser(call)) = Absent /\ CallingUser(call) = Eth(old)
<1> DEFINE old  == SenderProfile(call).ethAddress
           user == CallingUser(call)
<1>1. call.signerAddress = Absent
  <2> SUFFICES ASSUME call.signerAddress # Absent
               PROVE  FALSE
    OBVIOUS
  <2>1. call.signerAddress \in ClientAliases /\ IsMultisig(GetUserProfile(call.signerAddress))
    BY DEF Calls, IsAuthenticated, SenderProfile
  <2>2. SenderProfile(call) = profiles[call.signerAddress] /\ profiles[call.signerAddress] # Absent
    BY <2>1, AliasesDiffer, KeysAssumption DEF SenderProfile, GetUserProfile, IsMultisig
  <2>3. QED
    BY <2>1, <2>2 DEF KeysInv, MultisigRight
<1>2. PICK k \in KeyPairs : SenderProfile(call) = ProfileOf(k)
  <2>1. call.keys \in SUBSET KeyPairs /\ call.keys # {}
    BY DEF Calls
  <2>2. (CHOOSE k \in call.keys : TRUE) \in KeyPairs
    BY <2>1
  <2>3. QED
    BY <1>1, <2>2 DEF SenderProfile
<1>3. user = ProfileOf(k).alias /\ old = ProfileOf(k).ethAddress
  BY <1>2 DEF CallingUser
<1>4. user \in Aliases
  BY <1>3, ProfileOfType DEF Profiles
<1>5. CASE GetUserProfile(k) = Absent
  <2>1. user = Eth(k) /\ old = k
    BY <1>3, <1>5 DEF ProfileOf, DefaultProfile, SingleSigned
  <2>2. GetPublicKey(user) = Absent
    BY <1>5, <2>1 DEF KeysInv, EthRight
  <2>3. QED
    BY <1>3, <1>4, <2>1, <2>2, AliasesDiffer
<1>6. CASE GetUserProfile(k) # Absent
  <2>1. ProfileOf(k) = GetUserProfile(k) /\ SavedRight(k)
    BY <1>6 DEF ProfileOf, KeysInv
  <2>2. user # Invalidated /\ old = k
    BY <1>3, <1>6, <2>1 DEF SavedRight
  <2>3. QED
    BY <1>3, <1>4, <1>6, <2>1, <2>2 DEF SavedRight
<1>7. QED
  BY <1>5, <1>6

LEMMA UpdatePublicKeyKeys ==
  ASSUME UserInv, KeysInv, NEW call \in Calls, IsAuthenticated(call), NEW dto \in UpdatePublicKeyDtos,
         UpdatePublicKey(call, dto)
  PROVE  KeysInv'
<1> DEFINE user == CallingUser(call)
           old  == SenderProfile(call).ethAddress
           k    == dto.publicKey
           new  == SingleSigned(user, k, ProfileOf(old).roles, ProfileOf(old).quorum)
<1>1. /\ k \in KeyPairs /\ k # old /\ GetUserProfile(k) = Absent
      /\ publicKeys' = [publicKeys EXCEPT ![user] = k]
      /\ profiles' = [profiles EXCEPT ![old] = InvalidatedProfile, ![k] = new]
      /\ old # Absent
  BY DEF UpdatePublicKey, UpdatePublicKeyDtos
<1>2. /\ old \in KeyPairs /\ user = ProfileOf(old).alias /\ user # Invalidated /\ user \in Aliases
      /\ GetPublicKey(user) # old => GetPublicKey(user) = Absent /\ user = Eth(old)
  BY <1>1, CallerHasKey
<1>3. /\ new \in Profiles /\ new # Absent
      /\ new.alias = user /\ new.ethAddress = k /\ new.signers = Absent
  BY <1>1, <1>2, ProfileOfType, NoneAssumption DEF SingleSigned, Profiles
<1>4. /\ InvalidatedProfile # Absent /\ InvalidatedProfile.alias = Invalidated
      /\ InvalidatedProfile.signers = Absent /\ InvalidatedProfile.ethAddress = Absent
      /\ InvalidatedProfile.roles = {}
  BY InvalidatedType, NoneAssumption DEF InvalidatedProfile, SingleSigned
<1> HIDE DEF new, user, old, k
<1>5. \A j \in KeyPairs : GetUserProfile(j)' =
        IF j = k THEN new ELSE IF j = old THEN InvalidatedProfile ELSE GetUserProfile(j)
  BY <1>1, <1>2, <1>3, <1>4 DEF UserInv, UserTypeOK, GetUserProfile
<1>6. \A b \in Aliases : GetPublicKey(b)' = IF b = user THEN k ELSE GetPublicKey(b)
  BY <1>1, <1>2, SavedKey
<1>7. ASSUME NEW j \in KeyPairs, j # old, GetUserProfile(j) # Absent
      PROVE  GetUserProfile(j).alias # user
  BY <1>2, <1>7, AliasesDiffer, KeysAssumption DEF KeysInv, SavedRight
<1>8. ASSUME NEW j \in KeyPairs
      PROVE  SavedRight(j)'
  <2>1. CASE j = k
    BY <2>1, <1>2, <1>3, <1>5, <1>6 DEF SavedRight
  <2>2. CASE j = old
    BY <2>2, <1>1, <1>4, <1>5 DEF SavedRight
  <2>3. CASE j # k /\ j # old /\ GetUserProfile(j) # Absent
    <3>1. SavedRight(j) /\ GetUserProfile(j)' = GetUserProfile(j)
      BY <2>3, <1>5 DEF KeysInv
    <3>2. GetUserProfile(j).alias \in Aliases
      BY <2>3, UserProfileType DEF Addresses, Profiles
    <3>3. GetPublicKey(GetUserProfile(j).alias)' = GetPublicKey(GetUserProfile(j).alias)
      BY <2>3, <3>1, <3>2, <1>6, <1>7
    <3>4. QED
      BY <3>1, <3>3 DEF SavedRight
  <2>4. CASE j # k /\ j # old /\ GetUserProfile(j) = Absent
    BY <2>4, <1>5 DEF SavedRight
  <2>5. QED
    BY <2>1, <2>2, <2>3, <2>4
<1>9. ASSUME NEW j \in KeyPairs
      PROVE  EthRight(j)'
  <2>1. CASE j = k \/ j = old
    BY <2>1, <1>3, <1>4, <1>5 DEF EthRight
  <2>2. CASE j # k /\ j # old
    <3>1. EthRight(j) /\ Eth(j) \in Aliases /\ GetUserProfile(j)' = GetUserProfile(j)
      BY <2>2, <1>5, AliasesDiffer DEF KeysInv, Aliases
    <3>2. CASE Eth(j) = user
      BY <2>2, <3>1, <3>2, <1>2, AliasesDiffer, KeysAssumption DEF EthRight
    <3>3. CASE Eth(j) # user
      BY <3>1, <3>3, <1>6 DEF EthRight
    <3>4. QED
      BY <3>2, <3>3
  <2>3. QED
    BY <2>1, <2>2
<1>10. ASSUME NEW b \in Aliases
       PROVE  KeyRight(b)'
  <2>1. CASE b = user
    BY <2>1, <1>1, <1>3, <1>5, <1>6 DEF KeyRight
  <2>2. CASE b # user /\ GetPublicKey(b) # Absent
    <3> DEFINE j == GetPublicKey(b)
    <3>1. /\ j \in KeyPairs /\ GetUserProfile(j) # Absent /\ GetUserProfile(j).alias = b
          /\ GetPublicKey(b)' = j
      BY <2>2, <1>6, KeyType DEF KeysInv, KeyRight
    <3>2. j # k /\ j # old
      BY <2>2, <3>1, <1>1, <1>2 DEF ProfileOf
    <3>3. GetUserProfile(j)' = GetUserProfile(j)
      BY <3>1, <3>2, <1>5
    <3>4. GetUserProfile(GetPublicKey(b))' = GetUserProfile(j)'
      BY <3>1 DEF GetUserProfile
    <3>5. QED
      BY <3>1, <3>3, <3>4 DEF KeyRight
  <2>3. CASE b # user /\ GetPublicKey(b) = Absent
    BY <2>3, <1>6 DEF KeyRight
  <2>4. QED
    BY <2>1, <2>2, <2>3
<1>11. \A a \in ClientAliases : MultisigRight(a)'
  BY <1>1, <1>2, AliasesDiffer DEF KeysInv, MultisigRight, UserInv, UserTypeOK
<1>12. QED
  BY <1>8, <1>9, <1>10, <1>11 DEF KeysInv

(***************************************************************************)
(* Whose roles are updated: a user with a key, registered or not, whose    *)
(* profile is found, or a multisig user.                                   *)
(***************************************************************************)
LEMMA UserToUpdate ==
  ASSUME UserInv, KeysInv, NEW ref \in Refs, ResolveUserAlias(ref) # Invalidated,
         ProfileToUpdate(ResolveUserAlias(ref)) # Absent
  PROVE  LET user    == ResolveUserAlias(ref)
             profile == ProfileToUpdate(user)
         IN  \/ /\ user \in ClientAliases
                /\ profile \in Profiles /\ profile.ethAddress = Absent
             \/ \E k \in KeyPairs :
                  /\ profile = ProfileOf(k) /\ profile.alias = user
                  /\ profile.ethAddress = k /\ profile.signers = Absent
                  /\ GetPublicKey(user) # k => GetPublicKey(user) = Absent /\ user = Eth(k)
<1> DEFINE user    == ResolveUserAlias(ref)
           profile == ProfileToUpdate(user)
<1>1. user \in Aliases
  BY ResolvedType
<1>2. CASE GetPublicKey(user) # Absent
  <2> DEFINE k == GetPublicKey(user)
  <2>1. k \in KeyPairs /\ GetUserProfile(k) # Absent /\ GetUserProfile(k).alias = user
    BY <1>1, <1>2, KeyType DEF KeysInv, KeyRight
  <2>2. profile = GetUserProfile(k) /\ ProfileOf(k) = GetUserProfile(k)
    BY <1>2, <2>1 DEF ProfileToUpdate, AddressOf, ProfileOf
  <2>3. SavedRight(k)
    BY <2>1 DEF KeysInv
  <2>4. GetUserProfile(k).ethAddress = k /\ GetUserProfile(k).signers = Absent
    BY <2>1, <2>3 DEF SavedRight
  <2>5. QED
    BY <2>1, <2>2, <2>4
<1>3. CASE GetPublicKey(user) = Absent /\ user \in EthAliases
  <2> DEFINE k == user[2]
  <2>1. k \in KeyPairs /\ user = Eth(k) /\ AddressOf(user) = k
    BY <1>3, AliasesDiffer DEF AddressOf
  <2>2. ref \in EthAliases
    BY <1>3 DEF ResolveUserAlias
  <2>3. PICK j \in KeyPairs : user = ProfileOf(j).alias
    BY <2>2, AliasesDiffer DEF ResolveUserAlias
  <2>4. j = k
    <3>1. CASE GetUserProfile(j) = Absent
      BY <3>1, <2>1, <2>3, AliasesDiffer DEF ProfileOf, DefaultProfile, SingleSigned
    <3>2. CASE GetUserProfile(j) # Absent
      BY <3>2, <1>3, <2>1, <2>3, AliasesDiffer, KeysAssumption DEF ProfileOf, KeysInv, SavedRight
    <3>3. QED
      BY <3>1, <3>2
  <2>5. profile = ProfileOf(k)
    BY <1>3, <2>1 DEF ProfileToUpdate, ProfileOf
  <2>6. ProfileOf(k).ethAddress = k /\ ProfileOf(k).signers = Absent
    <3>1. CASE GetUserProfile(k) = Absent
      BY <3>1 DEF ProfileOf, DefaultProfile, SingleSigned
    <3>2. CASE GetUserProfile(k) # Absent
      BY <3>2, <2>1, <2>3, <2>4 DEF ProfileOf, KeysInv, SavedRight
    <3>3. QED
      BY <3>1, <3>2
  <2>7. QED
    BY <1>3, <2>1, <2>3, <2>4, <2>5, <2>6
<1>4. CASE GetPublicKey(user) = Absent /\ user \notin EthAliases
  <2>1. user \in ClientAliases /\ AddressOf(user) = user
    BY <1>1, <1>4 DEF Aliases, AddressOf
  <2>2. profile = GetUserProfile(user) /\ GetUserProfile(user) = profiles[user]
    BY <1>4, <2>1, AliasesDiffer, KeysAssumption DEF ProfileToUpdate, GetUserProfile
  <2>3. profile \in Profiles /\ profile.ethAddress = Absent
    BY <2>1, <2>2, UserProfileType DEF Addresses, KeysInv, MultisigRight
  <2>4. QED
    BY <2>1, <2>3
<1>5. QED
  BY <1>2, <1>3, <1>4

\* The roles of the profile of a key change, and nothing else.
LEMMA UpdateUserRolesSaved ==
  ASSUME UserInv, KeysInv, NEW call \in Calls, NEW ref \in Refs, NEW roles \in RolesToUpdate,
         UpdateUserRoles(call, ref, roles), ResolveUserAlias(ref) \notin ClientAliases \/
           ProfileToUpdate(ResolveUserAlias(ref)).ethAddress # Absent
  PROVE  \E k \in KeyPairs, profile \in Profiles :
           /\ PutUserProfile(k, profile) /\ publicKeys' = publicKeys
           /\ profile # Absent /\ profile.signers = Absent /\ profile.ethAddress = k
           /\ profile.alias = ProfileOf(k).alias /\ profile.alias # Invalidated
           /\ GetPublicKey(profile.alias) # k =>
                GetPublicKey(profile.alias) = Absent /\ profile.alias = Eth(k)
<1> DEFINE user    == ResolveUserAlias(ref)
           profile == ProfileToUpdate(user)
           new     == [profile EXCEPT !.alias = user, !.roles = roles]
<1>1. user # Invalidated /\ profile # Absent /\ publicKeys' = publicKeys
  BY DEF UpdateUserRoles
<1>2. PICK k \in KeyPairs :
        /\ profile = ProfileOf(k) /\ profile.alias = user
        /\ profile.ethAddress = k /\ profile.signers = Absent
        /\ GetPublicKey(user) # k => GetPublicKey(user) = Absent /\ user = Eth(k)
  BY <1>1, UserToUpdate
<1>3. profile \in Profiles /\ user \in Aliases
  BY <1>2, ProfileOfType, ResolvedType
<1>4. new = [alias |-> user, ethAddress |-> k, roles |-> roles,
             signers |-> Absent, quorum |-> profile.quorum]
  <2>1. new = [alias |-> user, ethAddress |-> profile.ethAddress, roles |-> roles,
               signers |-> profile.signers, quorum |-> profile.quorum]
    BY <1>3, WithRoles
  <2>2. profile.ethAddress = k /\ profile.signers = Absent
    BY <1>2
  <2>3. QED
    BY <2>1, <2>2
<1>5. new \in Profiles /\ new # Absent
  BY <1>2, <1>3, <1>4, NoneAssumption DEF Profiles, RolesToUpdate
<1>6. PutUserProfile(k, new)
  BY <1>2, KeysAssumption DEF UpdateUserRoles, PutRoles
<1>7. QED
  BY <1>1, <1>2, <1>4, <1>5, <1>6

LEMMA UpdateUserRolesMultisig ==
  ASSUME UserInv, KeysInv, NEW call \in Calls, NEW ref \in Refs, NEW roles \in RolesToUpdate,
         UpdateUserRoles(call, ref, roles), ResolveUserAlias(ref) \in ClientAliases,
         ProfileToUpdate(ResolveUserAlias(ref)).ethAddress = Absent
  PROVE  \E a \in ClientAliases : \E profile :
           PutUserProfile(a, profile) /\ profile.ethAddress = Absent /\ publicKeys' = publicKeys
<1> DEFINE user    == ResolveUserAlias(ref)
           profile == ProfileToUpdate(user)
           new     == [profile EXCEPT !.alias = user, !.roles = roles]
<1>1. user # Invalidated /\ profile # Absent /\ publicKeys' = publicKeys
  BY DEF UpdateUserRoles
<1>2. profile \in Profiles
  BY <1>1, UserToUpdate, ProfileOfType
<1>3. new = [alias |-> user, ethAddress |-> Absent, roles |-> roles,
             signers |-> profile.signers, quorum |-> profile.quorum]
  BY <1>2, WithRoles
<1>4. new \in Profiles
  BY <1>2, <1>3, ResolvedType DEF Profiles, RolesToUpdate
<1>5. PutUserProfile(user, new)
  BY DEF UpdateUserRoles, PutRoles
<1>6. QED
  BY <1>1, <1>3, <1>4, <1>5

LEMMA UpdateUserRolesKeys ==
  ASSUME UserInv, KeysInv, NEW call \in Calls, NEW ref \in Refs, NEW roles \in RolesToUpdate,
         UpdateUserRoles(call, ref, roles)
  PROVE  KeysInv'
<1>1. CASE /\ ResolveUserAlias(ref) \in ClientAliases
           /\ ProfileToUpdate(ResolveUserAlias(ref)).ethAddress = Absent
  BY <1>1, UpdateUserRolesMultisig, MultisigSaved
<1>2. CASE ~(/\ ResolveUserAlias(ref) \in ClientAliases
             /\ ProfileToUpdate(ResolveUserAlias(ref)).ethAddress = Absent)
  <2>1. PICK k \in KeyPairs, profile \in Profiles :
          /\ PutUserProfile(k, profile) /\ publicKeys' = publicKeys
          /\ profile # Absent /\ profile.signers = Absent /\ profile.ethAddress = k
          /\ profile.alias = ProfileOf(k).alias /\ profile.alias # Invalidated
          /\ GetPublicKey(profile.alias) # k =>
               GetPublicKey(profile.alias) = Absent /\ profile.alias = Eth(k)
    BY <1>2, UpdateUserRolesSaved
  <2>2. \A j \in KeyPairs : GetUserProfile(j)' = IF j = k THEN profile ELSE GetUserProfile(j)
    BY <2>1, SavedProfile DEF Addresses
  <2>3. \A b : GetPublicKey(b)' = GetPublicKey(b)
    BY <2>1 DEF GetPublicKey
  <2>4. \A b \in Aliases : GetPublicKey(b) \in KeyPairs \cup {Absent}
    BY KeyType
  <2>5. \A j \in KeyPairs : SavedRight(j)'
    BY <2>1, <2>2, <2>3 DEF KeysInv, SavedRight
  <2>6. \A j \in KeyPairs : EthRight(j)'
    BY <2>1, <2>2, <2>3 DEF KeysInv, EthRight
  <2>7. \A b \in Aliases : KeyRight(b)'
    BY <2>1, <2>2, <2>3, <2>4 DEF KeysInv, KeyRight, ProfileOf
  <2>8. \A b \in ClientAliases : MultisigRight(b)'
    BY <2>1, AliasesDiffer DEF KeysInv, MultisigRight, PutUserProfile, UserInv, UserTypeOK
  <2>9. QED
    BY <2>5, <2>6, <2>7, <2>8 DEF KeysInv
<1>3. QED
  BY <1>1, <1>2

-----------------------------------------------------------------------------
(* The calls that save a multisig profile.                                 *)

LEMMA RegisterMultisigSaved ==
  ASSUME UserInv, NEW call \in Calls, NEW alias \in ClientAliases, NEW refs \in SignersToRegister,
         NEW quorum \in Quorums, RegisterMultisig(call, alias, refs, quorum)
  PROVE  \E a \in ClientAliases : \E profile :
           PutUserProfile(a, profile) /\ profile.ethAddress = Absent /\ publicKeys' = publicKeys
<1> DEFINE signers == {ResolveUserAlias(r) : r \in refs}
           profile == Multisig(alias, DefaultRoles, signers, quorum)
<1>1. signers \in SUBSET Aliases
  BY ResolvedType DEF SignersToRegister
<1>2. profile \in Profiles /\ profile.ethAddress = Absent
  BY <1>1, BoundsAssumption DEF Multisig, Profiles, Roles, Aliases, Quorums
<1>3. PutUserProfile(alias, profile) /\ publicKeys' = publicKeys
  BY DEF RegisterMultisig
<1>4. QED
  BY <1>2, <1>3

\* What a multisig user changes of its profile is not the address.
LEMMA MultisigCallSaved ==
  ASSUME UserInv, KeysInv, NEW call \in Calls, MultisigCall(call), NEW profile,
         profile.ethAddress = profiles[CallingUser(call)].ethAddress,
         PutUserProfile(CallingUser(call), profile)
  PROVE  \E a \in ClientAliases : \E p :
           PutUserProfile(a, p) /\ p.ethAddress = Absent /\ publicKeys' = publicKeys
<1> DEFINE user == CallingUser(call)
<1>1. user \in ClientAliases /\ publicKeys' = publicKeys /\ IsMultisig(GetUserProfile(user))
  BY DEF MultisigCall
<1>2. profiles[user] # Absent
  BY <1>1, AliasesDiffer, KeysAssumption DEF GetUserProfile, IsMultisig
<1>3. profiles[user].ethAddress = Absent
  BY <1>1, <1>2 DEF KeysInv, MultisigRight
<1>4. QED
  BY <1>1, <1>3

LEMMA PutSignersSaved ==
  ASSUME UserInv, KeysInv, NEW call \in Calls, MultisigCall(call), NEW signers,
         PutSigners(CallingUser(call), signers)
  PROVE  \E a \in ClientAliases : \E p :
           PutUserProfile(a, p) /\ p.ethAddress = Absent /\ publicKeys' = publicKeys
<1> DEFINE user == CallingUser(call)
           new  == [profiles[user] EXCEPT !.signers = signers]
<1>1. profiles[user] \in Profiles
  BY MultisigCaller
<1>2. new.ethAddress = profiles[user].ethAddress
  BY <1>1 DEF Profiles
<1>3. PutUserProfile(user, new)
  BY DEF PutSigners, PutUserProfile
<1>4. QED
  BY <1>2, <1>3, MultisigCallSaved

LEMMA UpdateQuorumSaved ==
  ASSUME UserInv, KeysInv, NEW call \in Calls, NEW quorum, UpdateQuorum(call, quorum)
  PROVE  \E a \in ClientAliases : \E p :
           PutUserProfile(a, p) /\ p.ethAddress = Absent /\ publicKeys' = publicKeys
<1> DEFINE user == CallingUser(call)
           new  == [profiles[user] EXCEPT !.quorum = quorum]
<1>1. MultisigCall(call) /\ profiles' = [profiles EXCEPT ![user].quorum = quorum]
  BY DEF UpdateQuorum
<1>2. profiles[user] \in Profiles
  BY <1>1, MultisigCaller
<1>3. new.ethAddress = profiles[user].ethAddress
  BY <1>2 DEF Profiles
<1>4. PutUserProfile(user, new)
  BY <1>1 DEF PutUserProfile
<1>5. QED
  BY <1>1, <1>3, <1>4, MultisigCallSaved

\* The calls of UserCall that save no key: what a multisig user is.
MultisigUserCall(call) ==
  \/ \E alias \in ClientAliases, refs \in SignersToRegister, quorum \in Quorums :
       RegisterMultisig(call, alias, refs, quorum)
  \/ \E ref \in Refs : AddSigner(call, ref) \/ RemoveSigner(call, ref)
  \/ \E dto \in SignersToUpdate : UpdateSigners(call, dto.toRemove, dto.toAdd)
  \/ \E quorum \in Quorums : UpdateQuorum(call, quorum)

LEMMA MultisigUserSaved ==
  ASSUME UserInv, KeysInv, NEW call \in Calls, MultisigUserCall(call)
  PROVE  \E a \in ClientAliases : \E p :
           PutUserProfile(a, p) /\ p.ethAddress = Absent /\ publicKeys' = publicKeys
<1>1. ASSUME NEW alias \in ClientAliases, NEW refs \in SignersToRegister, NEW quorum \in Quorums,
             RegisterMultisig(call, alias, refs, quorum)
      PROVE  \E a \in ClientAliases : \E p :
               PutUserProfile(a, p) /\ p.ethAddress = Absent /\ publicKeys' = publicKeys
  BY <1>1, RegisterMultisigSaved
<1>2. ASSUME NEW ref \in Refs, AddSigner(call, ref) \/ RemoveSigner(call, ref)
      PROVE  MultisigCall(call) /\ \E signers : PutSigners(CallingUser(call), signers)
  BY <1>2 DEF AddSigner, RemoveSigner
<1>3. ASSUME NEW dto \in SignersToUpdate, UpdateSigners(call, dto.toRemove, dto.toAdd)
      PROVE  MultisigCall(call) /\ \E signers : PutSigners(CallingUser(call), signers)
  BY <1>3 DEF UpdateSigners
<1>4. QED
  BY <1>1, <1>2, <1>3, PutSignersSaved, UpdateQuorumSaved DEF MultisigUserCall

LEMMA NextKeysInv == UserInv /\ KeysInv /\ [NextUsers]_userVars => KeysInv'
<1> SUFFICES ASSUME UserInv, KeysInv, [NextUsers]_userVars
             PROVE  KeysInv'
  OBVIOUS
<1>1. CASE UNCHANGED userVars
  BY <1>1 DEF userVars, KeysInv, SavedRight, EthRight, KeyRight, MultisigRight, GetUserProfile, GetPublicKey
<1>2. ASSUME NEW call \in Calls, IsAuthenticated(call), UserCall(call)
      PROVE  KeysInv'
  <2>1. CASE MultisigUserCall(call)
    BY <2>1, MultisigUserSaved, MultisigSaved
  <2>2. CASE \E alias \in ClientAliases, k \in KeyPairs : RegisterUser(call, alias, k)
    BY <2>2, RegisterUserKeys
  <2>3. CASE \E dto \in UpdatePublicKeyDtos : UpdatePublicKey(call, dto)
    BY <1>2, <2>3, UpdatePublicKeyKeys
  <2>4. CASE \E ref \in Refs, roles \in RolesToUpdate : UpdateUserRoles(call, ref, roles)
    BY <2>4, UpdateUserRolesKeys
  <2>5. QED
    BY <1>2, <2>1, <2>2, <2>3, <2>4 DEF UserCall, MultisigUserCall
<1>3. QED
  BY <1>1, <1>2 DEF NextUsers

LEMMA AlwaysKeysInv == UserSpec => [](UserInv /\ KeysInv)
<1>1. UserInv /\ KeysInv /\ [NextUsers]_userVars => (UserInv /\ KeysInv)'
  BY NextInv, NextKeysInv
<1>2. InitUsers => UserInv /\ KeysInv
  BY InitUserInv, InitKeysInv
<1>3. QED
  BY <1>1, <1>2, PTL DEF UserSpec

-----------------------------------------------------------------------------

LEMMA KeyOfUser ==
  ASSUME UserInv, KeysInv, NEW k \in KeyPairs, ProfileOf(k).alias # Invalidated
  PROVE  GetPublicKey(ProfileOf(k).alias) # k =>
           GetPublicKey(ProfileOf(k).alias) = Absent /\ ProfileOf(k).alias = Eth(k)
<1>1. CASE GetUserProfile(k) = Absent
  BY <1>1 DEF KeysInv, EthRight, ProfileOf, DefaultProfile, SingleSigned
<1>2. CASE GetUserProfile(k) # Absent
  BY <1>2 DEF KeysInv, SavedRight, ProfileOf
<1>3. QED
  BY <1>1, <1>2

(***************************************************************************)
(* Whatever is registered and updated in which order, a user signs with    *)
(* one key, and the saved key of the user is this one.                     *)
(***************************************************************************)
THEOREM AlwaysOneKeyPerUser == UserSpec => []OneKeyPerUser
<1>1. UserInv /\ KeysInv => OneKeyPerUser
  <2> SUFFICES ASSUME UserInv, KeysInv, NEW k \in KeyPairs, ProfileOf(k).alias # Invalidated
               PROVE  /\ \A j \in KeyPairs : ProfileOf(j).alias = ProfileOf(k).alias => j = k
                      /\ GetPublicKey(ProfileOf(k).alias) \in {k, Absent}
    BY DEF OneKeyPerUser
  <2>1. GetPublicKey(ProfileOf(k).alias) \in {k, Absent}
    BY KeyOfUser
  <2>2. ASSUME NEW j \in KeyPairs, ProfileOf(j).alias = ProfileOf(k).alias
        PROVE  j = k
    BY <2>2, KeyOfUser, AliasesDiffer, KeysAssumption
  <2>3. QED
    BY <2>1, <2>2
<1>2. QED
  BY <1>1, AlwaysKeysInv, PTL

-----------------------------------------------------------------------------
(* Keys that were given up.                                                *)

LEMMA GivenUp ==
  ASSUME UserInv, KeysInv, NEW k \in KeyPairs, ProfileOf(k).alias = Invalidated
  PROVE  /\ GetUserProfile(k) # Absent /\ GetUserProfile(k).alias = Invalidated
         /\ ProfileOf(k) = GetUserProfile(k) /\ GetUserProfile(k).roles = {}
<1>1. GetUserProfile(k) # Absent
  BY AliasesDiffer DEF ProfileOf, DefaultProfile, SingleSigned
<1>2. QED
  BY <1>1 DEF ProfileOf, KeysInv, SavedRight

LEMMA StaysGivenUp ==
  ASSUME UserInv, KeysInv, NEW call \in Calls, IsAuthenticated(call), UserCall(call),
         NEW k \in KeyPairs, ProfileOf(k).alias = Invalidated
  PROVE  ProfileOf(k)'.alias = Invalidated
<1>1. /\ GetUserProfile(k) # Absent /\ GetUserProfile(k).alias = Invalidated
      /\ ProfileOf(k) = GetUserProfile(k)
  BY GivenUp
<1>2. InvalidatedProfile # Absent /\ InvalidatedProfile.alias = Invalidated
  BY InvalidatedType, NoneAssumption DEF InvalidatedProfile, SingleSigned
<1>3. SUFFICES GetUserProfile(k)' \in {GetUserProfile(k), InvalidatedProfile}
  BY <1>1, <1>2 DEF ProfileOf
<1>4. CASE MultisigUserCall(call)
  <2>1. PICK a \in ClientAliases : \E p : PutUserProfile(a, p)
    BY <1>4, MultisigUserSaved
  <2>2. profiles'[k] = profiles[k]
    BY <2>1, AliasesDiffer DEF PutUserProfile, UserInv, UserTypeOK
  <2>3. QED
    BY <2>2 DEF GetUserProfile
<1>5. CASE \E alias \in ClientAliases, j \in KeyPairs : RegisterUser(call, alias, j)
  <2>1. PICK j \in KeyPairs : GetUserProfile(j) = Absent /\ \E p : PutUserProfile(j, p)
    BY <1>5 DEF RegisterUser
  <2>2. profiles'[k] = profiles[k]
    BY <2>1, <1>1 DEF PutUserProfile, UserInv, UserTypeOK
  <2>3. QED
    BY <2>2 DEF GetUserProfile
<1>6. CASE \E dto \in UpdatePublicKeyDtos : UpdatePublicKey(call, dto)
  <2>1. PICK dto \in UpdatePublicKeyDtos : UpdatePublicKey(call, dto)
    BY <1>6
  <2> DEFINE old == SenderProfile(call).ethAddress
             new == SingleSigned(CallingUser(call), dto.publicKey,
                                 ProfileOf(old).roles, ProfileOf(old).quorum)
  <2>2. /\ GetUserProfile(dto.publicKey) = Absent
        /\ profiles' = [profiles EXCEPT ![old] = InvalidatedProfile, ![dto.publicKey] = new]
    BY <2>1 DEF UpdatePublicKey
  <2>3. profiles'[k] = profiles[k] \/ profiles'[k] = InvalidatedProfile
    BY <2>2, <1>1 DEF UserInv, UserTypeOK
  <2>4. QED
    BY <2>3, <1>2 DEF GetUserProfile
<1>7. CASE \E ref \in Refs, roles \in RolesToUpdate : UpdateUserRoles(call, ref, roles)
  <2>1. PICK ref \in Refs, roles \in RolesToUpdate : UpdateUserRoles(call, ref, roles)
    BY <1>7
  <2>2. CASE /\ ResolveUserAlias(ref) \in ClientAliases
             /\ ProfileToUpdate(ResolveUserAlias(ref)).ethAddress = Absent
    <3>1. PICK a \in ClientAliases : \E p : PutUserProfile(a, p)
      BY <2>1, <2>2, UpdateUserRolesMultisig
    <3>2. profiles'[k] = profiles[k]
      BY <3>1, AliasesDiffer DEF PutUserProfile, UserInv, UserTypeOK
    <3>3. QED
      BY <3>2 DEF GetUserProfile
  <2>3. CASE ~(/\ ResolveUserAlias(ref) \in ClientAliases
               /\ ProfileToUpdate(ResolveUserAlias(ref)).ethAddress = Absent)
    <3>1. PICK j \in KeyPairs : ProfileOf(j).alias # Invalidated /\ \E p : PutUserProfile(j, p)
      BY <2>1, <2>3, UpdateUserRolesSaved
    <3>2. profiles'[k] = profiles[k]
      BY <3>1 DEF PutUserProfile, UserInv, UserTypeOK
    <3>3. QED
      BY <3>2 DEF GetUserProfile
  <2>4. QED
    BY <2>2, <2>3
<1>8. QED
  BY <1>4, <1>5, <1>6, <1>7 DEF UserCall, MultisigUserCall

LEMMA IsAuthorized ==
  ASSUME NEW call \in Calls, UserCall(call)
  PROVE  \E role : Authorized(call, role)
BY DEF UserCall, RegisterUser, RegisterMultisig, UpdatePublicKey, UpdateUserRoles, AddSigner,
       RemoveSigner, UpdateSigners, UpdateQuorum, MultisigCall

\* A key that was given up signs for a multisig user only.
LEMMA GivenUpSigns ==
  ASSUME UserInv, KeysInv, NEW call \in Calls, UserCall(call),
         NEW k \in KeyPairs, ProfileOf(k).alias = Invalidated, k \in call.keys
  PROVE  \E a \in ClientAliases : IsMultisig(profiles[a]) /\ Invalidated \in profiles[a].signers
<1>1. PICK role : IsAuthenticated(call) /\ role \in SenderProfile(call).roles
  BY IsAuthorized DEF Authorized, HasRole
<1>2. call.signerAddress # Absent
  <2> SUFFICES ASSUME call.signerAddress = Absent
               PROVE  FALSE
    OBVIOUS
  <2>1. call.keys \in SUBSET KeyPairs /\ ~(Cardinality(call.keys) > 1)
    BY DEF Calls
  <2>2. IsFiniteSet(call.keys) /\ Cardinality(call.keys) \in Nat
    BY <2>1, KeysAssumption, FS_Subset, FS_CardinalityType
  <2>3. Cardinality(call.keys) = 1
    BY <2>1, <2>2, FS_EmptySet
  <2>4. call.keys = {k}
    BY <2>2, <2>3, FS_Singleton
  <2>5. (CHOOSE j \in call.keys : TRUE) = k
    BY <2>4
  <2>6. SenderProfile(call) = ProfileOf(k)
    BY <2>5 DEF SenderProfile
  <2>7. QED
    BY <1>1, <2>6, GivenUp
<1>3. /\ call.signerAddress \in ClientAliases
      /\ SenderProfile(call) = GetUserProfile(call.signerAddress)
      /\ IsMultisig(SenderProfile(call)) /\ SignedBy(call) \subseteq SenderProfile(call).signers
  BY <1>1, <1>2 DEF Calls, IsAuthenticated, SenderProfile
<1>4. SenderProfile(call) = profiles[call.signerAddress]
  BY <1>3, AliasesDiffer, KeysAssumption DEF GetUserProfile
<1>5. Invalidated \in SignedBy(call)
  BY DEF SignedBy
<1>6. QED
  BY <1>3, <1>4, <1>5

(***************************************************************************)
(* No call brings a key back that its user has given up, and none is       *)
(* authorized by it, but for a multisig user who has the invalidated alias *)
(* among the signers.                                                      *)
(***************************************************************************)
THEOREM OldKeysAlwaysStayOld == UserSpec => OldKeysStayOld
<1> DEFINE A == \A k \in KeyPairs : ProfileOf(k).alias = Invalidated =>
                  /\ ProfileOf(k)'.alias = Invalidated
                  /\ k \in last'.keys =>
                       \E a \in ClientAliases : IsMultisig(profiles[a]) /\ Invalidated \in profiles[a].signers
<1>1. UserInv /\ KeysInv /\ [NextUsers]_userVars => [A]_userVars
  <2> SUFFICES ASSUME UserInv, KeysInv, NextUsers, NEW k \in KeyPairs, ProfileOf(k).alias = Invalidated
               PROVE  /\ ProfileOf(k)'.alias = Invalidated
                      /\ k \in last'.keys =>
                           \E a \in ClientAliases :
                             IsMultisig(profiles[a]) /\ Invalidated \in profiles[a].signers
    OBVIOUS
  <2>1. PICK call \in Calls : IsAuthenticated(call) /\ UserCall(call)
    BY DEF NextUsers
  <2>2. last' = call
    BY <2>1, IsAuthorized DEF Authorized
  <2>3. QED
    BY <2>1, <2>2, StaysGivenUp, GivenUpSigns
<1>2. QED
  BY <1>1, AlwaysKeysInv, PTL DEF UserSpec, OldKeysStayOld

-----------------------------------------------------------------------------
(* Signers who change their profile.                                       *)

LEMMA MultisigSigned ==
  ASSUME UserInv, NEW call \in Calls, IsAuthenticated(call), NEW a \in ClientAliases, call.signerAddress = a
  PROVE  /\ profiles[a] \in Profiles /\ profiles[a] # Absent
         /\ profiles[a].signers \in SUBSET Aliases
         /\ SignedBy(call) \in SUBSET profiles[a].signers
         /\ Cardinality(SignedBy(call)) \in Nat
         /\ Cardinality(SignedBy(call)) = Cardinality(call.keys)
         /\ Cardinality(SignedBy(call)) >= profiles[a].quorum
         /\ GetUserProfile(a) = profiles[a] /\ SenderProfile(call) = profiles[a]
<1>1. GetUserProfile(a) = profiles[a] /\ a # Absent
  BY AliasesDiffer, KeysAssumption, NoneAssumption DEF GetUserProfile, Aliases
<1>2. SenderProfile(call) = profiles[a]
  BY <1>1 DEF SenderProfile
<1>3. /\ IsMultisig(profiles[a]) /\ SignedBy(call) \subseteq profiles[a].signers
      /\ Cardinality(SignedBy(call)) = Cardinality(call.keys)
      /\ Cardinality(SignedBy(call)) >= profiles[a].quorum
  BY <1>1, <1>2 DEF IsAuthenticated
<1>4. profiles[a] \in Profiles /\ profiles[a] # Absent
  BY <1>3 DEF IsMultisig, UserInv, UserTypeOK
<1>5. profiles[a].signers \in SUBSET Aliases
  BY <1>3, <1>4 DEF IsMultisig, Profiles
<1>6. Cardinality(SignedBy(call)) \in Nat
  BY <1>3, <1>5, SignersFinite
<1>7. QED
  BY <1>1, <1>2, <1>3, <1>4, <1>5, <1>6

Keeps(call, a) ==
  /\ profiles'[a] \in Profiles
  /\ SignedBy(call) \in SUBSET profiles'[a].signers
  /\ profiles'[a].signers \in SUBSET Aliases

\* A profile that is changed keeps those who signed for the change.
LEMMA KeepsSigners ==
  ASSUME UserInv, KeysInv, NEW call \in Calls, IsAuthenticated(call), UserCall(call),
         NEW a \in ClientAliases, call.signerAddress = a, profiles'[a] # profiles[a]
  PROVE  /\ \A k \in KeyPairs : GetUserProfile(k)' = GetUserProfile(k)
         /\ Keeps(call, a)
<1> DEFINE signers == profiles[a].signers
<1>1. /\ profiles[a] \in Profiles /\ profiles[a] # Absent /\ signers \in SUBSET Aliases
      /\ SignedBy(call) \in SUBSET signers /\ GetUserProfile(a) = profiles[a]
  BY MultisigSigned
<1>2. SUFFICES ASSUME \A k \in KeyPairs : profiles'[k] = profiles[k]
               PROVE  Keeps(call, a)
  <2>1. \A k, p : k \in KeyPairs /\ PutUserProfile(k, p) => profiles'[a] = profiles[a]
    BY AliasesDiffer DEF PutUserProfile, UserInv, UserTypeOK
  <2>2. \A b, p : b \in ClientAliases /\ PutUserProfile(b, p) => \A k \in KeyPairs : profiles'[k] = profiles[k]
    BY AliasesDiffer DEF PutUserProfile, UserInv, UserTypeOK
  <2>3. CASE MultisigUserCall(call)
    BY <2>2, <2>3, <1>2, MultisigUserSaved DEF GetUserProfile
  <2>4. CASE \E alias \in ClientAliases, k \in KeyPairs : RegisterUser(call, alias, k)
    BY <2>1, <2>4 DEF RegisterUser
  <2>5. CASE \E dto \in UpdatePublicKeyDtos : UpdatePublicKey(call, dto)
    <3>1. PICK dto \in UpdatePublicKeyDtos : UpdatePublicKey(call, dto)
      BY <2>5
    <3>2. SenderProfile(call).ethAddress \in KeyPairs /\ dto.publicKey \in KeyPairs
      BY <3>1, CallerHasKey DEF UpdatePublicKey, UpdatePublicKeyDtos
    <3>3. profiles'[a] = profiles[a]
      BY <3>1, <3>2, AliasesDiffer DEF UpdatePublicKey, UserInv, UserTypeOK
    <3>4. QED
      BY <3>3
  <2>6. CASE \E ref \in Refs, roles \in RolesToUpdate : UpdateUserRoles(call, ref, roles)
    BY <2>1, <2>2, <2>6, <1>2, UpdateUserRolesSaved, UpdateUserRolesMultisig DEF GetUserProfile
  <2>7. QED
    BY <2>3, <2>4, <2>5, <2>6 DEF UserCall, MultisigUserCall
<1>3. \A b, p : b # a /\ PutUserProfile(b, p) => profiles'[a] = profiles[a]
  BY DEF PutUserProfile, UserInv, UserTypeOK
<1>4. ASSUME NEW new \in SUBSET Aliases, PutSigners(CallingUser(call), new),
             CallingUser(call) = a => SignedBy(call) \in SUBSET new
      PROVE  Keeps(call, a)
  <2>1. CallingUser(call) = a
    BY <1>4, <1>3 DEF PutSigners, PutUserProfile
  <2>2. profiles'[a] = [profiles[a] EXCEPT !.signers = new]
    BY <1>4, <2>1 DEF PutSigners, UserInv, UserTypeOK, Addresses
  <2>3. profiles'[a].signers = new /\ profiles'[a] \in Profiles
    BY <1>1, <2>2 DEF Profiles
  <2>4. QED
    BY <1>4, <2>1, <2>3 DEF Keeps
<1>5. ASSUME NEW ref \in Refs, AddSigner(call, ref)
      PROVE  Keeps(call, a)
  <2> DEFINE new == profiles[CallingUser(call)].signers \cup {ResolveUserAlias(ref)}
  <2>1. MultisigCall(call) /\ PutSigners(CallingUser(call), new)
    BY <1>5 DEF AddSigner
  <2>2. new \in SUBSET Aliases
    BY <2>1, MultisigCaller, ResolvedType
  <2>3. QED
    BY <2>1, <2>2, <1>1, <1>4
<1>6. ASSUME NEW ref \in Refs, RemoveSigner(call, ref)
      PROVE  Keeps(call, a)
  <2> DEFINE new == profiles[CallingUser(call)].signers \ {ResolveUserAlias(ref)}
  <2>1. /\ MultisigCall(call) /\ PutSigners(CallingUser(call), new)
        /\ ResolveUserAlias(ref) \notin SignedBy(call)
    BY <1>6 DEF RemoveSigner, CanRemoveSigner
  <2>2. new \in SUBSET Aliases
    BY <2>1, MultisigCaller
  <2>3. QED
    BY <2>1, <2>2, <1>1, <1>4
<1>7. ASSUME NEW dto \in SignersToUpdate, UpdateSigners(call, dto.toRemove, dto.toAdd)
      PROVE  Keeps(call, a)
  <2> DEFINE user      == CallingUser(call)
             toRemove  == dto.toRemove
             toAdd     == dto.toAdd
             removed   == [i \in DOMAIN toRemove |-> ResolveUserAlias(toRemove[i])]
             added     == [i \in DOMAIN toAdd |-> ResolveUserAlias(toAdd[i])]
             KeptBefore(i) == profiles[user].signers \ {removed[j] : j \in 1 .. i - 1}
             kept      == KeptBefore(Len(toRemove) + 1)
             new       == kept \cup {added[i] : i \in DOMAIN toAdd}
  <2>1. /\ MultisigCall(call) /\ PutSigners(user, new)
        /\ \A i \in DOMAIN toRemove : removed[i] \notin SignedBy(call)
    BY <1>7 DEF UpdateSigners, CanRemoveSigner
  <2>2. /\ Len(toRemove) = 2 /\ DOMAIN toRemove = 1 .. 2 /\ toAdd \in Seq(Refs)
    BY DEF SignersToUpdate
  <2>3. kept = profiles[user].signers \ {removed[j] : j \in DOMAIN toRemove}
    <3>1. 1 .. (Len(toRemove) + 1) - 1 = DOMAIN toRemove
      BY <2>2
    <3>2. QED
      BY <3>1
  <2>4. {added[i] : i \in DOMAIN toAdd} \in SUBSET Aliases
    <3>1. \A i \in DOMAIN toAdd : toAdd[i] \in Refs
      BY <2>2
    <3>2. QED
      BY <3>1, ResolvedType
  <2>5. kept \in SUBSET Aliases
    BY <2>1, <2>3, MultisigCaller
  <2>6. user = a => SignedBy(call) \in SUBSET kept
    BY <2>1, <2>3, <1>1
  <2>7. QED
    BY <2>1, <2>4, <2>5, <2>6, <1>4
<1>8. ASSUME NEW quorum \in Quorums, UpdateQuorum(call, quorum)
      PROVE  Keeps(call, a)
  <2>1. profiles' = [profiles EXCEPT ![CallingUser(call)].quorum = quorum]
    BY <1>8 DEF UpdateQuorum
  <2>2. CallingUser(call) = a
    BY <2>1 DEF UserInv, UserTypeOK, Addresses
  <2>3. profiles'[a] = [profiles[a] EXCEPT !.quorum = quorum]
    BY <2>1, <2>2 DEF UserInv, UserTypeOK, Addresses
  <2>4. profiles'[a].signers = signers /\ profiles'[a] \in Profiles
    <3>1. quorum \in Nat
      BY BoundsAssumption DEF Quorums
    <3>2. QED
      BY <1>1, <2>3, <3>1 DEF Profiles
  <2>5. QED
    BY <1>1, <2>4 DEF Keeps
<1>9. ASSUME NEW alias \in ClientAliases, NEW refs \in SignersToRegister, NEW quorum \in Quorums,
             RegisterMultisig(call, alias, refs, quorum)
      PROVE  FALSE
  BY <1>9, <1>1, <1>3 DEF RegisterMultisig
<1>10. ASSUME NEW alias \in ClientAliases, NEW k \in KeyPairs, RegisterUser(call, alias, k)
       PROVE  FALSE
  BY <1>10, <1>3, AliasesDiffer DEF RegisterUser
<1>11. ASSUME NEW dto \in UpdatePublicKeyDtos, UpdatePublicKey(call, dto)
       PROVE  FALSE
  <2>1. SenderProfile(call).ethAddress \in KeyPairs /\ dto.publicKey \in KeyPairs
    BY <1>11, CallerHasKey DEF UpdatePublicKey, UpdatePublicKeyDtos
  <2>2. profiles'[a] = profiles[a]
    BY <1>11, <2>1, AliasesDiffer DEF UpdatePublicKey, UserInv, UserTypeOK
  <2>3. QED
    BY <2>2
<1>12. ASSUME NEW ref \in Refs, NEW roles \in RolesToUpdate, UpdateUserRoles(call, ref, roles)
       PROVE  Keeps(call, a)
  <2> DEFINE user    == ResolveUserAlias(ref)
             profile == ProfileToUpdate(user)
             new     == [profile EXCEPT !.alias = user, !.roles = roles]
  <2>1. user # Invalidated /\ profile # Absent
    BY <1>12 DEF UpdateUserRoles
  <2>2. user = a /\ profile.ethAddress = Absent /\ profile \in Profiles
    <3>1. PutUserProfile(IF profile.ethAddress # Absent THEN profile.ethAddress ELSE user, new)
      BY <1>12 DEF UpdateUserRoles, PutRoles
    <3>2. a = IF profile.ethAddress # Absent THEN profile.ethAddress ELSE user
      BY <3>1, <1>3
    <3>3. QED
      BY <2>1, <3>2, UserToUpdate, AliasesDiffer, KeysAssumption
  <2>3. profile = profiles[a]
    <3>1. a \in Aliases /\ a \notin EthAliases /\ a # Invalidated
      BY AliasesDiffer DEF Aliases
    <3>2. CASE GetPublicKey(a) = Absent
      BY <2>2, <3>1, <3>2, <1>1 DEF ProfileToUpdate, AddressOf
    <3>3. CASE GetPublicKey(a) # Absent
      <4>1. /\ GetPublicKey(a) \in KeyPairs /\ GetUserProfile(GetPublicKey(a)) # Absent
            /\ GetUserProfile(GetPublicKey(a)).alias = a
        BY <3>1, <3>3, KeyType DEF KeysInv, KeyRight
      <4>2. profile = GetUserProfile(GetPublicKey(a))
        BY <2>2, <3>1, <3>3 DEF ProfileToUpdate, AddressOf
      <4>3. profile.ethAddress = GetPublicKey(a)
        BY <3>1, <4>1, <4>2 DEF KeysInv, SavedRight
      <4>4. QED
        BY <2>2, <3>3, <4>3
    <3>4. QED
      BY <3>2, <3>3
  <2>4. new.signers = profile.signers /\ new \in Profiles
    <3>1. user \in Aliases /\ roles \in SUBSET Roles
      BY <2>2, ResolvedType DEF RolesToUpdate, Aliases
    <3>2. profile \in Profiles
      BY <2>2
    <3>3. new = [alias |-> user, ethAddress |-> profile.ethAddress, roles |-> roles,
                 signers |-> profile.signers, quorum |-> profile.quorum]
      BY <3>2, WithRoles
    <3> HIDE DEF new
    <3>4. QED
      BY <3>1, <3>2, <3>3 DEF Profiles
  <2>5. profiles'[a] = new
    BY <1>12, <2>2 DEF UpdateUserRoles, PutRoles, PutUserProfile, UserInv, UserTypeOK
  <2>6. QED
    BY <1>1, <2>3, <2>4, <2>5 DEF Keeps
<1>13. QED
  BY <1>5, <1>6, <1>7, <1>8, <1>9, <1>10, <1>11, <1>12 DEF UserCall

(***************************************************************************)
(* Who changes a multisig profile, and does not ask for more signatures,   *)
(* can go on changing it.                                                  *)
(***************************************************************************)
THEOREM SignersAlwaysKeepControl == UserSpec => SignersKeepControl
<1> DEFINE A == \A call \in {last'} : \A a \in ClientAliases :
                  /\ call.signerAddress = a /\ profiles'[a] # profiles[a]
                  /\ profiles'[a].quorum <= profiles[a].quorum
                  => IsAuthenticated(call)'
<1>1. ASSUME UserInv, KeysInv, NEW call \in Calls, IsAuthenticated(call), UserCall(call),
             NEW a \in ClientAliases, call.signerAddress = a, profiles'[a] # profiles[a],
             profiles'[a].quorum <= profiles[a].quorum
      PROVE  IsAuthenticated(call)'
  <2>1. (\A k \in KeyPairs : GetUserProfile(k)' = GetUserProfile(k)) /\ Keeps(call, a)
    BY <1>1, KeepsSigners
  <2>2. /\ Cardinality(SignedBy(call)) = Cardinality(call.keys)
        /\ Cardinality(SignedBy(call)) >= profiles[a].quorum
        /\ Cardinality(SignedBy(call)) \in Nat /\ profiles[a] \in Profiles
    BY <1>1, MultisigSigned
  <2>3. a # Absent /\ profiles'[a] # Absent /\ profiles'[a].signers # Absent
    BY <2>1, NoneAssumption DEF Keeps, Aliases
  <2>4. SenderProfile(call)' = profiles'[a]
    BY <1>1, <2>3 DEF SenderProfile, GetUserProfile
  <2>5. SignedBy(call)' = SignedBy(call)
    <3>1. \A k \in call.keys : ProfileOf(k)' = ProfileOf(k)
      BY <2>1 DEF ProfileOf, Calls
    <3>2. QED
      BY <3>1 DEF SignedBy
  <2>6. Cardinality(SignedBy(call)) >= profiles'[a].quorum
    <3>1. profiles[a].quorum \in Nat /\ profiles'[a].quorum \in Nat
      BY <2>1, <2>2 DEF Keeps, Profiles
    <3>2. QED
      BY <1>1, <2>2, <3>1
  <2>7. IsMultisig(SenderProfile(call))'
    BY <2>3, <2>4 DEF IsMultisig
  <2>8. QED
    BY <1>1, <2>1, <2>2, <2>3, <2>4, <2>5, <2>6, <2>7 DEF IsAuthenticated, Keeps
<1>2. UserInv /\ KeysInv /\ [NextUsers]_userVars => [A]_userVars
  <2> SUFFICES ASSUME UserInv, KeysInv, NextUsers, NEW call \in {last'}, NEW a \in ClientAliases,
                      call.signerAddress = a, profiles'[a] # profiles[a],
                      profiles'[a].quorum <= profiles[a].quorum
               PROVE  IsAuthenticated(call)'
    OBVIOUS
  <2>1. PICK c \in Calls : IsAuthenticated(c) /\ UserCall(c)
    BY DEF NextUsers
  <2>2. call = c
    BY <2>1, IsAuthorized DEF Authorized
  <2>3. QED
    BY <1>1, <2>1, <2>2
<1>3. QED
  BY <1>2, AlwaysKeysInv, PTL DEF UserSpec, SignersKeepControl
=============================================================================
