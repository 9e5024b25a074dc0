--------------------------- MODULE MCFungibleToken ---------------------------
(***************************************************************************)
(* Instances of FungibleToken for TLC: a user and the issuer of the class, *)
(* who may hold tokens as well.                                            *)
(***************************************************************************)
EXTENDS FungibleToken

CONSTANTS alice, issuer

MCUsers == {alice, issuer}
MCVestingPeriods == {[start |-> 3, expires |-> 5]}
=============================================================================
