---------------------------- MODULE MCTokenSwaps ----------------------------
(* Instances of TokenSwaps for TLC: two users, coins and one instance. *)
EXTENDS TokenSwaps, TLC

CONSTANTS alice, bob, s1, s2, gold

MCInitialCoins == [f \in Fungibles |-> [u \in Users |-> IF u = alice THEN 2 ELSE 0]]

\* One coin for the instance, twice; the instance for one coin; and both.
MCTerms == {[offered |-> (gold :> 1), wanted |-> (1 :> 1), uses |-> 2],
            [offered |-> (1 :> 1), wanted |-> (gold :> 1), uses |-> 1]}

\* Alice has offered one coin for the instance.
MCOldSwaps == {[id |-> s2, offeredBy |-> alice,
                terms |-> [offered |-> (gold :> 1), wanted |-> (1 :> 1), uses |-> 1]]}

\* Bob may fill swaps with tokens of alice.
MCSwapAllowances == {<<alice, bob>>}
=============================================================================
