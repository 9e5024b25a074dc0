---------------------------- MODULE GalaChainStub ----------------------------
(***************************************************************************)
(* One chaincode invocation and the GalaChainStub it works on              *)
(* (src/chaincode/src/types/GalaChainStub.ts), as GalaContract drives it:  *)
(* a plain method calls the stub directly; BatchSubmit and ApplyRequests   *)
(* run each operation on a sandbox stub and copy its writes and deletes    *)
(* back when the operation succeeds; afterTransaction flushes the stub of  *)
(* an invocation that succeeded and that is not a dry run.                 *)
(*                                                                         *)
(* Fabric gives the invocation a snapshot of the world state: reads that   *)
(* reach the chain never see the invocation's own writes.                  *)
(***************************************************************************)
EXTENDS StubCache

CONSTANTS
  Ranges,     \* the sets of keys that share a partial composite key
  NoSandbox   \* no operation of a batch is running

ASSUME RangesAssumption    == Ranges \subseteq SUBSET Keys
ASSUME NoSandboxAssumption == NoSandbox \notin Caches \cup Ledgers

VARIABLES
  ledger,   \* the world state the invocation runs on
  main,     \* the cache of the invocation's stub
  sandbox,  \* the cache of the running operation's stub, or NoSandbox
  phase,    \* "direct", "batch" once a sandbox has been made, or how it ended
  resp      \* what the last call returned

vars == <<ledger, main, sandbox, phase, resp>>

Done == [call |-> "done"]

InSandbox == sandbox # NoSandbox

(***************************************************************************)
(* Code that may call the stub: a plain method, or the operation of a      *)
(* batch.  After the first sandbox the outer stub is only handed the       *)
(* results of operations (and the deletes of applied requests).            *)
(***************************************************************************)
Running == phase = "direct" \/ InSandbox

Current == IF InSandbox THEN sandbox ELSE main

UpdateCurrent(cache) ==
  IF InSandbox THEN sandbox' = cache /\ main' = main
               ELSE main' = cache /\ sandbox' = sandbox

Init == /\ ledger \in Ledgers
        /\ main = EmptyCache
        /\ sandbox = NoSandbox
        /\ phase = "direct"
        /\ resp = Done

Get(k) == /\ Running
          /\ resp' = [call |-> "get", key |-> k, value |-> CachedState(Current, ledger, k)]
          /\ UpdateCurrent(GetCachedState(Current, ledger, k))
          /\ UNCHANGED <<ledger, phase>>

Put(k, v) == /\ Running
             /\ UpdateCurrent(PutState(Current, k, v))
             /\ resp' = Done
             /\ UNCHANGED <<ledger, phase>>

Delete(k) == /\ Running
             /\ UpdateCurrent(DeleteState(Current, k))
             /\ resp' = Done
             /\ UNCHANGED <<ledger, phase>>

Query(range) ==
  /\ Running
  /\ resp' = [call |-> "query", entries |-> CachedStateByPartialKey(Current, ledger, range)]
  /\ UNCHANGED <<ledger, main, sandbox, phase>>

\* applySavedRequests deletes each request it took from the queue.
DeleteRequest(k) == /\ phase = "batch" /\ ~InSandbox
                    /\ main' = DeleteState(main, k)
                    /\ resp' = Done
                    /\ UNCHANGED <<ledger, sandbox, phase>>

BeginOperation == /\ phase \in {"direct", "batch"} /\ ~InSandbox
                  /\ sandbox' = SandboxOf(main)
                  /\ phase' = "batch"
                  /\ resp' = Done
                  /\ UNCHANGED <<ledger, main>>

SucceedOperation == /\ phase = "batch" /\ InSandbox
                    /\ main' = MergeSandbox(main, sandbox)
                    /\ sandbox' = NoSandbox
                    /\ resp' = Done
                    /\ UNCHANGED <<ledger, phase>>

FailOperation == /\ phase = "batch" /\ InSandbox
                 /\ sandbox' = NoSandbox
                 /\ resp' = Done
                 /\ UNCHANGED <<ledger, main, phase>>

\* afterTransaction of a Success response; what Fabric then commits.
Flush == /\ phase \in {"direct", "batch"} /\ ~InSandbox
         /\ ledger' = FlushWrites(main, ledger)
         /\ main' = EmptyCache
         /\ phase' = "flushed"
         /\ resp' = Done
         /\ UNCHANGED sandbox

\* An Error response, a dry run, an exception: nothing reaches Fabric.
NoFlush == /\ phase \in {"direct", "batch"}
           /\ main' = EmptyCache
           /\ sandbox' = NoSandbox
           /\ phase' = "dropped"
           /\ resp' = Done
           /\ UNCHANGED ledger

Next == \/ \E k \in Keys : Get(k) \/ Delete(k) \/ DeleteRequest(k)
        \/ \E k \in Keys, v \in Values : Put(k, v)
        \/ \E range \in Ranges : Query(range)
        \/ BeginOperation \/ SucceedOperation \/ FailOperation
        \/ Flush \/ NoFlush

Spec == Init /\ [][Next]_vars

-----------------------------------------------------------------------------

Responses ==
  {Done}
    \cup [call : {"get"}, key : Keys, value : Content]
    \cup [call : {"query"}, entries : SUBSET (Keys \X Content)]

\* The types of the variables.
TypeOK == /\ ledger \in Ledgers
          /\ main \in Caches
          /\ sandbox \in Caches \cup {NoSandbox}
          /\ phase \in {"direct", "batch", "flushed", "dropped"}
          /\ resp \in Responses

(***************************************************************************)
(* The caches are coherent.  The outer stub of a batch may keep a read of  *)
(* a key that an operation then wrote or deleted (setWrites and setDeletes *)
(* leave the reads alone), so ReadsApart is stated only of the stub that   *)
(* running code calls.                                                     *)
(***************************************************************************)
CacheCoherence ==
  /\ WritesApartFromDeletes(main) /\ ReadsAreCurrent(main, ledger)
  /\ phase = "direct" => ReadsApart(main)
  /\ InSandbox => Coherent(sandbox, ledger)

(***************************************************************************)
(* The stub behaves as a private copy of the world state: reads and        *)
(* queries see every earlier put and delete of the invocation, a failed    *)
(* operation of a batch leaves nothing behind, and the flush writes        *)
(* exactly what the code saw.                                              *)
(***************************************************************************)
TV == INSTANCE TransactionView WITH
        chain <- ledger,
        view  <- View(Current, ledger),
        saved <- IF InSandbox THEN View(main, ledger) ELSE NoSandbox

ImplementsView == TV!Spec

=============================================================================
