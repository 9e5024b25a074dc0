--------------------------- MODULE MCTokenClasses ---------------------------
(***************************************************************************)
(* Instances of TokenClasses for TLC: a curator and a user.  The supply is *)
(* one allocation with a cliff of a day and two days of vesting, or two    *)
(* allocations of one owner, or none of it is allocated.                   *)
(***************************************************************************)
EXTENDS TokenClasses

CONSTANTS alice, curator, first, second

MCAllocation(owner, quantity, cliff, vestingDays, name) ==
  [owner |-> owner, quantity |-> quantity, cliff |-> cliff, vestingDays |-> vestingDays, name |-> name]

MCAllocations ==
  {<<MCAllocation(alice, 2, 1, 2, first)>>,
   <<MCAllocation(alice, 1, 1, 2, first), MCAllocation(alice, 1, 1, 1, second)>>}

Configuration(preMintBurn, postMintBurn, postMintLock) ==
  [preMintBurn |-> preMintBurn, postMintBurn |-> postMintBurn, postMintLock |-> postMintLock]

\* The last two ask for more than is minted, one by its burn alone.
MCConfigurations ==
  {Configuration(None, 50, 50), Configuration(50, None, 100),
   Configuration(None, 50, 100), Configuration(None, 101, None)}
=============================================================================
