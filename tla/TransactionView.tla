--------------------------- MODULE TransactionView ---------------------------
(***************************************************************************)
(* What chaincode may assume of GalaChainStub: within one invocation the   *)
(* stub is a private copy of the world state that is read and written      *)
(* directly.  An operation of a batch works on a copy of its own, which    *)
(* replaces the invocation's copy or is thrown away as a whole; at the end *)
(* of the invocation the copy replaces the world state, or is thrown away. *)
(***************************************************************************)
CONSTANTS Keys, Values, NoValue, NoSandbox

VARIABLES
  chain,  \* the world state
  view,   \* the copy the running code sees
  saved,  \* the invocation's copy while an operation of a batch runs
  resp    \* what the last call returned

vars == <<chain, view, saved, resp>>

Content == Values \cup {NoValue}
Done    == [call |-> "done"]

Init == /\ chain \in [Keys -> Content]
        /\ view = chain
        /\ saved = NoSandbox
        /\ resp = Done

Get(k) == /\ resp' = [call |-> "get", key |-> k, value |-> view[k]]
          /\ UNCHANGED <<chain, view, saved>>

Put(k, v) == /\ view' = [view EXCEPT ![k] = v]
             /\ resp' = Done
             /\ UNCHANGED <<chain, saved>>

(***************************************************************************)
(* A query yields every object of the range with its current value.  It    *)
(* may also yield keys that are not there, with the empty value.           *)
(***************************************************************************)
Query(range) ==
  /\ \E absent \in SUBSET {k \in range : view[k] = NoValue} :
       resp' = [call    |-> "query",
                entries |-> {<<k, view[k]>> : k \in {j \in range : view[j] # NoValue} \cup absent}]
  /\ UNCHANGED <<chain, view, saved>>

BeginOperation == /\ saved = NoSandbox
                  /\ saved' = view
                  /\ resp' = Done
                  /\ UNCHANGED <<chain, view>>

SucceedOperation == /\ saved # NoSandbox
                    /\ saved' = NoSandbox
                    /\ resp' = Done
                    /\ UNCHANGED <<chain, view>>

FailOperation == /\ saved # NoSandbox
                 /\ view' = saved
                 /\ saved' = NoSandbox
                 /\ resp' = Done
                 /\ UNCHANGED chain

Commit == /\ saved = NoSandbox
          /\ chain' = view
          /\ resp' = Done
          /\ UNCHANGED <<view, saved>>

Discard == /\ saved' = NoSandbox
           /\ view' = chain
           /\ resp' = Done
           /\ UNCHANGED chain

Next == \/ \E k \in Keys : Get(k)
        \/ \E k \in Keys, v \in Content : Put(k, v)
        \/ \E range \in SUBSET Keys : Query(range)
        \/ BeginOperation \/ SucceedOperation \/ FailOperation
        \/ Commit \/ Discard

Spec == Init /\ [][Next]_vars
=============================================================================
