---------------------------- MODULE MCTokenMint -----------------------------
(* Instances of TokenMint for TLC. *)
EXTENDS TokenMint

CONSTANTS root, bob

MCRank == [u \in MintUsers |-> IF u = root THEN 1 ELSE 2]

AtOnce == {"GrantAllowance", "MintToken", "MintTokenWithAllowance"}
HighThroughput == {"GrantAllowance", "RequestMintAllowance", "RequestMint"}

\* Fungible classes are minted in both ways, those of NFTs in one of them.
OneWayForNFTs ==
  {[isNonFungible |-> FALSE, methods |-> AtOnce \cup HighThroughput],
   [isNonFungible |-> TRUE, methods |-> AtOnce],
   [isNonFungible |-> TRUE, methods |-> HighThroughput]}
=============================================================================
