-------------------------- MODULE AtomicOperations --------------------------
(***************************************************************************)
(* What the clients of a contract may assume: the world state changes only *)
(* by whole transactions that run one at a time.  A transaction runs one   *)
(* operation, or some of the operations of a batch in their order.  Each   *)
(* operation runs as a whole, if its unique key has not been used, and     *)
(* marks it as used.                                                       *)
(***************************************************************************)
EXTENDS Naturals, Sequences, FiniteSets

CONSTANTS Keys, Values, NoValue, Ops, UniqueKey, Slot, Clearing,
          Tx, Operations, Batches, BatchKey, NoPartialSuccess

VARIABLE db

Init == db = [k \in Keys |-> NoValue]

CanRun(state, op) == /\ state[UniqueKey[op]] = NoValue
                     /\ IF op \in Clearing THEN state[Slot[op]] # NoValue
                                           ELSE state[Slot[op]] + 1 \in Values

Run(state, op) ==
  [state EXCEPT ![UniqueKey[op]] = 1,
                ![Slot[op]] = IF op \in Clearing THEN NoValue ELSE @ + 1]

\* The states after none, one, two... of the operations at the positions S.
States(start, t, S) ==
  LET state[i \in 0 .. Len(Operations[t])] ==
        IF i = 0 THEN start
        ELSE IF i \in S THEN Run(state[i - 1], Operations[t][i])
        ELSE state[i - 1]
  IN  state

Execute(t, S) ==
  LET start  == IF t \in Batches THEN [db EXCEPT ![BatchKey[t]] = 1] ELSE db
      states == States(start, t, S)
  IN  /\ t \in Batches => db[BatchKey[t]] = NoValue
      /\ t \in NoPartialSuccess => S = DOMAIN Operations[t]
      /\ \A i \in S : CanRun(states[i - 1], Operations[t][i])
      /\ db' = states[Len(Operations[t])]

Next == \E t \in Tx : \E S \in SUBSET DOMAIN Operations[t] : Execute(t, S)

Spec == Init /\ [][Next]_db
=============================================================================
