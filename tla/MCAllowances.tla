---------------------------- MODULE MCAllowances ----------------------------
(* Instances of Allowances for TLC: two grantors, a transfer and a lock. *)
EXTENDS Allowances

CONSTANTS alice, carol, coin, nft

MCOwners == [p \in Permissions |-> IF p \in NFTs THEN {alice} ELSE Grantors]
=============================================================================
