--------------------------- MODULE GalaTransaction ---------------------------
(***************************************************************************)
(* Transactions of a GalaChain contract that run at the same time.  Each   *)
(* runs the pipeline of @GalaTransaction (src/chaincode/src/contracts/     *)
(* GalaTransaction.ts) on the cache of its stub: the unique key is checked *)
(* and stored, the method runs, and afterTransaction flushes the cache if  *)
(* the response is a Success.  BatchSubmit (GalaContract.ts) is such a     *)
(* method, that runs the pipeline of each of its operations in a sandbox.  *)
(* DryRun is another, that runs the pipeline of its operation on its own   *)
(* stub: to be evaluated only, but a client may submit it all the same.    *)
(*                                                                         *)
(* Fabric runs a transaction on the world state of the moment it began,    *)
(* and commits it later, if no key it read has been written in between.    *)
(*                                                                         *)
(* The method of an operation reads one slot and increments or clears it,  *)
(* and may invoke one external chaincode.  It may throw at any point.      *)
(***************************************************************************)
EXTENDS StubCache, Naturals, Sequences

CONSTANTS
  Ops,               \* the DTOs of operations
  UniqueKey,         \* [Ops -> Keys]: the uniqueKey of the DTO
  Slot,              \* [Ops -> Keys]: the key its method updates
  Clearing,          \* the operations that delete their slot
  External,          \* the operations that invoke the external chaincode
  Wrapped,           \* the operations whose method returns its errors
  Tx,                \* the submitted transactions
  Operations,        \* [Tx -> Seq(Ops)]: one operation, or those of a batch
  Batches,           \* the transactions that are calls of BatchSubmit
  BatchKey,          \* [Batches -> Keys]: the uniqueKey of the BatchDto
  NoPartialSuccess,  \* the batches that fail if an operation fails
  DryRuns,           \* the transactions that are calls of DryRun
  WritesLimit,       \* Min(writesLimit, WRITES_HARD_LIMIT)
  NoSandbox          \* no operation of a batch is running

ASSUME ParametersAssumption ==
  /\ UniqueKey \in [Ops -> Keys] /\ Slot \in [Ops -> Keys]
  /\ Operations \in [Tx -> Seq(Ops)]
  /\ Batches \subseteq Tx /\ BatchKey \in [Batches -> Keys]
  /\ \A t \in Tx \ Batches : Len(Operations[t]) = 1
  /\ DryRuns \subseteq Tx \ Batches
  /\ WritesLimit \in Nat \ {0}
  /\ NoValue = 0 /\ Values \subseteq Nat /\ 1 \in Values
  /\ NoSandbox \notin Caches \cup Ledgers
  \* The keys of UniqueTransaction objects have an index key of their own.
  /\ \A op \in Ops : UniqueKey[op] # Slot[op]

VARIABLES
  world,      \* the committed world state
  version,    \* the version of each key
  phase,      \* how far each transaction is
  stage,      \* how far the running pipeline of the transaction is
  snapshot,   \* the world state and the versions the transaction runs on
  main,       \* the cache of the transaction's stub
  sandbox,    \* the cache of the running operation's stub, or NoSandbox
  results,    \* the responses of the operations that have ended
  readSet,    \* the keys the transaction has read from Fabric
  invoked,    \* the operations that have invoked the external chaincode
  response    \* the response of the transaction

vars == <<world, version, phase, stage, snapshot, main, sandbox, results, readSet,
          invoked, response>>

InSandbox(t) == sandbox[t] # NoSandbox
Cache(t)     == IF InSandbox(t) THEN sandbox[t] ELSE main[t]

\* The operation whose pipeline runs, or would run next.
Index(t)   == Len(results[t]) + 1
Current(t) == Operations[t][Index(t)]

\* BatchSubmit itself runs, and none of its operations.
InBatchSubmit(t) == t \in Batches /\ ~InSandbox(t)

Key(t) == IF InBatchSubmit(t) THEN BatchKey[t] ELSE UniqueKey[Current(t)]

Read(t, k) == CachedState(Cache(t), snapshot[t].world, k)

CacheRead(t, k) == GetCachedState(Cache(t), snapshot[t].world, k)

FromFabric(t, k) == IF ReachesChain(Cache(t), k) THEN {k} ELSE {}

UpdateCache(t, cache) ==
  IF InSandbox(t) THEN sandbox' = [sandbox EXCEPT ![t] = cache] /\ UNCHANGED main
                  ELSE main' = [main EXCEPT ![t] = cache] /\ UNCHANGED sandbox

Init == /\ world = [k \in Keys |-> NoValue]
        /\ version = [k \in Keys |-> 0]
        /\ phase = [t \in Tx |-> "idle"]
        /\ stage = [t \in Tx |-> IF t \in DryRuns THEN "dryRun" ELSE "unique"]
        /\ snapshot = [t \in Tx |-> [world |-> world, version |-> version]]
        /\ main = [t \in Tx |-> EmptyCache]
        /\ sandbox = [t \in Tx |-> NoSandbox]
        /\ results = [t \in Tx |-> << >>]
        /\ readSet = [t \in Tx |-> {}]
        /\ invoked = [t \in Tx |-> {}]
        /\ response = [t \in Tx |-> "none"]

\* A peer starts to simulate the transaction.
BeginTransaction(t) ==
  /\ phase[t] = "idle"
  /\ phase' = [phase EXCEPT ![t] = "running"]
  /\ snapshot' = [snapshot EXCEPT ![t] = [world |-> world, version |-> version]]
  /\ UNCHANGED <<world, version, stage, main, sandbox, results, readSet, invoked, response>>

-----------------------------------------------------------------------------
(* How the pipeline ends. *)

FailWithoutException(t) ==
  /\ phase' = [phase EXCEPT ![t] = "endorsed"]
  /\ response' = [response EXCEPT ![t] = "Error"]

(***************************************************************************)
(* The catch block of the transaction's own pipeline: an exception if the  *)
(* external chaincode has been invoked, so that Fabric drops everything,   *)
(* and else an Error response, which is stored on chain without writes.    *)
(***************************************************************************)
Fail(t) ==
  /\ phase' = [phase EXCEPT ![t] = IF invoked[t] = {} THEN "endorsed" ELSE "refused"]
  /\ response' = [response EXCEPT ![t] = "Error"]

\* Of a dry run: the Error response is a part of its result.
FailInside(t) ==
  /\ phase' = [phase EXCEPT ![t] = IF invoked[t] = {} THEN "endorsed" ELSE "refused"]
  /\ response' = [response EXCEPT ![t] = IF invoked[t] = {} THEN "Success" ELSE "Error"]

(***************************************************************************)
(* An operation ends with a response that is not a Success.  In a batch    *)
(* its sandbox is dropped and the batch goes on, unless it takes no        *)
(* partial success.                                                        *)
(***************************************************************************)
EndOperation(t, result) ==
  /\ results' = [results EXCEPT ![t] = Append(@, result)]
  /\ sandbox' = [sandbox EXCEPT ![t] = NoSandbox]
  /\ stage' = [stage EXCEPT ![t] = "loop"]
  /\ IF t \in NoPartialSuccess THEN Fail(t) ELSE UNCHANGED <<phase, response>>
  /\ UNCHANGED <<world, version, snapshot, main, invoked>>

\* What the pipeline reads next.
NextRead(t) == CASE stage[t] = "unique" -> FromFabric(t, Key(t))
                 [] stage[t] = "body"   -> FromFabric(t, Slot[Current(t)])
                 [] OTHER               -> {}

\* The pipeline throws, before or after its next read.
Throw(t) ==
  /\ phase[t] = "running" /\ stage[t] # "loop"
  /\ \E read \in {{}, NextRead(t)} : readSet' = [readSet EXCEPT ![t] = @ \cup read]
  /\ IF t \in Batches /\ InSandbox(t)
     THEN EndOperation(t, "error")
     ELSE /\ IF t \in DryRuns /\ stage[t] # "dryRun" THEN FailInside(t) ELSE Fail(t)
          /\ results' = [results EXCEPT ![t] = IF t \in Batches THEN @ ELSE <<"error">>]
          /\ UNCHANGED <<world, version, stage, snapshot, main, sandbox, invoked>>

\* afterTransaction without an exception.
Endorse(t, resp) ==
  /\ phase' = [phase EXCEPT ![t] = "endorsed"]
  /\ response' = [response EXCEPT ![t] = resp]

\* The method catches its error and returns it as the response.
ReturnError(t) ==
  /\ phase[t] = "running" /\ stage[t] = "return" /\ Current(t) \in Wrapped
  /\ IF InSandbox(t)
     THEN EndOperation(t, "error")
     ELSE /\ Endorse(t, IF t \in DryRuns THEN "Success" ELSE "Error")
          /\ results' = [results EXCEPT ![t] = <<"error">>]
          /\ UNCHANGED <<world, version, stage, snapshot, main, sandbox, invoked>>
  /\ UNCHANGED readSet

Return(t) ==
  /\ phase[t] = "running" /\ stage[t] = "return"
  /\ results' = [results EXCEPT ![t] = Append(@, "ok")]
  /\ IF InSandbox(t)
     THEN /\ main' = [main EXCEPT ![t] = MergeSandbox(@, sandbox[t])]
          /\ sandbox' = [sandbox EXCEPT ![t] = NoSandbox]
          /\ stage' = [stage EXCEPT ![t] = "loop"]
          /\ UNCHANGED <<phase, response>>
     ELSE /\ Endorse(t, "Success")
          /\ UNCHANGED <<stage, main, sandbox>>
  /\ UNCHANGED <<world, version, snapshot, readSet, invoked>>

-----------------------------------------------------------------------------
(* The steps of the pipeline. *)

\* A signed DTO, a method or a caller that is not known make it throw (Throw).
DryRun(t) ==
  /\ phase[t] = "running" /\ stage[t] = "dryRun"
  /\ stage' = [stage EXCEPT ![t] = "unique"]
  /\ UNCHANGED <<world, version, phase, snapshot, main, sandbox, results, readSet, invoked, response>>

\* A unique key that is there makes the pipeline throw (Throw).
EnsureUniqueTransaction(t) ==
  /\ phase[t] = "running" /\ stage[t] = "unique"
  /\ Read(t, Key(t)) = NoValue
  /\ UpdateCache(t, PutState(CacheRead(t, Key(t)), Key(t), 1))
  /\ readSet' = [readSet EXCEPT ![t] = @ \cup FromFabric(t, Key(t))]
  /\ stage' = [stage EXCEPT ![t] = IF InBatchSubmit(t) THEN "loop" ELSE "body"]
  /\ UNCHANGED <<world, version, phase, snapshot, results, invoked, response>>

(***************************************************************************)
(* The method: update the slot, and invoke the external chaincode.  The    *)
(* stub refuses a second call of it in the transaction; a slot that is not *)
(* there cannot be cleared.  Both make the method throw.                   *)
(***************************************************************************)
RunMethod(t) ==
  LET op    == Current(t)
      slot  == Slot[op]
      cache == CacheRead(t, slot)
  IN  /\ phase[t] = "running" /\ stage[t] = "body"
      /\ op \in External => invoked[t] = {}
      /\ IF op \in Clearing
         THEN Read(t, slot) # NoValue /\ UpdateCache(t, DeleteState(cache, slot))
         ELSE Read(t, slot) + 1 \in Values /\ UpdateCache(t, PutState(cache, slot, Read(t, slot) + 1))
      /\ readSet' = [readSet EXCEPT ![t] = @ \cup FromFabric(t, slot)]
      /\ invoked' = [invoked EXCEPT ![t] = IF op \in External THEN @ \cup {Index(t)} ELSE @]
      /\ stage' = [stage EXCEPT ![t] = "return"]
      /\ UNCHANGED <<world, version, phase, snapshot, results, response>>

BeginOperationAtLimit(t) ==
  /\ phase[t] = "running" /\ stage[t] = "loop" /\ Index(t) <= Len(Operations[t])
  /\ WritesCount(main[t]) <= WritesLimit
  /\ sandbox' = [sandbox EXCEPT ![t] = SandboxOf(main[t])]
  /\ stage' = [stage EXCEPT ![t] = "unique"]
  /\ UNCHANGED <<world, version, phase, snapshot, main, results, readSet, invoked, response>>

\* BatchSubmit begins its next operation, if the writes are below the limit.
BeginOperation(t) ==
  /\ phase[t] = "running" /\ stage[t] = "loop" /\ Index(t) <= Len(Operations[t])
  /\ WritesCount(main[t]) < WritesLimit
  /\ sandbox' = [sandbox EXCEPT ![t] = SandboxOf(main[t])]
  /\ stage' = [stage EXCEPT ![t] = "unique"]
  /\ UNCHANGED <<world, version, phase, snapshot, main, results, readSet, invoked, response>>

WriteLimitExceeded(t) ==
  /\ phase[t] = "running" /\ stage[t] = "loop" /\ Index(t) <= Len(Operations[t])
  /\ WritesCount(main[t]) >= WritesLimit
  /\ EndOperation(t, "limit")
  /\ UNCHANGED readSet

EndBatch(t) ==
  /\ phase[t] = "running" /\ stage[t] = "loop" /\ Index(t) > Len(Operations[t])
  /\ Endorse(t, "Success")
  /\ UNCHANGED <<world, version, stage, snapshot, main, sandbox, results, readSet, invoked>>

-----------------------------------------------------------------------------
(* Fabric: validate the reads, and apply what the flush handed over. *)

WriteSetOfAnySuccess(t) == IF response[t] = "Success" THEN main[t] ELSE EmptyCache

WriteSet(t) == IF response[t] = "Success" /\ t \notin DryRuns THEN main[t] ELSE EmptyCache

Written(t) == DOMAIN WriteSet(t).writes \cup WriteSet(t).deletes

Valid(t) == \A k \in readSet[t] : version[k] = snapshot[t].version[k]

Commit(t) ==
  /\ phase[t] = "endorsed" /\ Valid(t)
  /\ world' = FlushWrites(WriteSet(t), world)
  /\ version' = [k \in Keys |-> IF k \in Written(t) THEN version[k] + 1 ELSE version[k]]
  /\ phase' = [phase EXCEPT ![t] = "committed"]
  /\ UNCHANGED <<stage, snapshot, main, sandbox, results, readSet, invoked, response>>

Invalidate(t) ==
  /\ phase[t] = "endorsed" /\ ~Valid(t)
  /\ phase' = [phase EXCEPT ![t] = "invalid"]
  /\ UNCHANGED <<world, version, stage, snapshot, main, sandbox, results, readSet, invoked, response>>

Next == \E t \in Tx :
  \/ BeginTransaction(t)
  \/ DryRun(t) \/ EnsureUniqueTransaction(t) \/ RunMethod(t)
  \/ Throw(t) \/ ReturnError(t) \/ Return(t)
  \/ BeginOperation(t) \/ WriteLimitExceeded(t) \/ EndBatch(t)
  \/ Commit(t) \/ Invalidate(t)

Spec == Init /\ [][Next]_vars

-----------------------------------------------------------------------------

Results == {"ok", "error", "limit"}

\* The types of the variables.
TypeOK ==
  /\ world \in Ledgers /\ version \in [Keys -> Nat]
  /\ phase \in [Tx -> {"idle", "running", "endorsed", "refused", "committed", "invalid"}]
  /\ stage \in [Tx -> {"dryRun", "unique", "body", "return", "loop"}]
  /\ snapshot \in [Tx -> [world : Ledgers, version : [Keys -> Nat]]]
  /\ main \in [Tx -> Caches]
  /\ sandbox \in [Tx -> Caches \cup {NoSandbox}]
  /\ results \in [Tx -> Seq(Results)]
  /\ \A t \in Tx : Len(results[t]) <= Len(Operations[t])
  /\ readSet \in [Tx -> SUBSET Keys]
  /\ invoked \in [Tx -> SUBSET Nat]
  /\ response \in [Tx -> {"none", "Success", "Error"}]

Completed(t) == phase[t] = "committed" /\ response[t] = "Success" /\ t \notin DryRuns

Positions == UNION {DOMAIN Operations[t] : t \in Tx}

\* The operations whose effects the world state has.
Applied == {e \in Tx \X Positions :
              Completed(e[1]) /\ e[2] \in DOMAIN results[e[1]] /\ results[e[1]][e[2]] = "ok"}

(***************************************************************************)
(* "If the limit is exceeded, all subsequent operations in batch fail"     *)
(* (BatchDto.writesLimit), and the limit is passed by the writes of one    *)
(* operation at most: its unique key and its slot.                         *)
(***************************************************************************)
LimitStopsBatch ==
  \A t \in Batches :
    /\ \A i, j \in DOMAIN results[t] :
         i < j /\ results[t][i] = "limit" => results[t][j] = "limit"
    /\ WritesCount(main[t]) <= WritesLimit + 1

(***************************************************************************)
(* "If external chaincode call succeeded, but the remaining part of the    *)
(* chaincode failed, we need to throw an error to prevent from the state   *)
(* being updated by the external chaincode" (GalaTransaction.ts): what the *)
(* external chaincode wrote is committed with the effects of the operation *)
(* that called it, or not at all.  Of a transaction with one operation     *)
(* that is not a dry run, and throws its errors: one that is returned does *)
(* not reach the catch block.                                              *)
(***************************************************************************)
ExternalEffects ==
  {e \in Tx \X Positions : phase[e[1]] = "committed" /\ e[2] \in invoked[e[1]]}

ExternalAtomic ==
  \A e \in ExternalEffects :
    e[1] \notin Batches \cup DryRuns /\ Operations[e[1]][e[2]] \notin Wrapped => e \in Applied

(***************************************************************************)
(* The transactions take effect one after the other: a commit runs some    *)
(* of the operations of one transaction, in their order, each as a whole,  *)
(* on the world state of that moment, though it was computed on an older   *)
(* one.  "The results of the `DryRun` will not be written chain"           *)
(* (DryRunDto).                                                            *)
(***************************************************************************)
AO == INSTANCE AtomicOperations WITH db <- world, Tx <- Tx \ DryRuns

ImplementsAtomicOperations == AO!Spec
=============================================================================
