# GalaChain SDK in TLA+

TLA+ specifications of the chaincode half of the GalaChain SDK
(`src/chaincode/src`, with the objects of `src/chain-api/src/types` it works on),
the TLC configurations that check them on small instances, and the theorems that
TLAPS proves for all instances.

## The system

A GalaChain contract is Hyperledger Fabric chaincode. A client signs a DTO and
submits a call; a peer runs the contract method on a snapshot of the world state
and returns the keys it read and what it wrote (the endorsement); the orderer puts
the transaction into a block, and it is committed if no key it read has been
written since (MVCC). Nothing in the chaincode runs concurrently with itself inside
one transaction except through promises that are awaited; concurrency is between
transactions, and so is every retry: a client that gets no answer submits again.

| component | state it keeps | operations | hard behaviour | what makes it correct |
|---|---|---|---|---|
| stub cache (`types/GalaChainStub.ts`) | reads, writes, deletes of one invocation | get, put, delete, range query, flush | stale or absent remembered reads, sandboxes, deletes against puts | it is a private copy of the world state |
| transaction pipeline (`contracts/GalaTransaction.ts`, `services/UniqueTransactionService.ts`) | the set of used unique keys | any method call | concurrent submission, repeated submission, external chaincode that cannot be rolled back | at most one effect per unique key, all or nothing |
| batches (`contracts/GalaContract.ts`) | a sandbox per operation | BatchSubmit, DryRun, BatchEvaluate | partial success, limit of writes | a batch is a sequence of atomic operations |
| request queue (`contracts/GalaTransactionRequest.ts`) | saved requests, ordered by time | save, apply, has-pending | client-given time, failing requests, cutoff | each saved request runs at most once and eventually |
| balances (`chain-api/.../TokenBalance.ts`, `balances`, `transfer`, `locks`, `burns`) | quantity, instance ids, locked and in-use holds per owner | transfer, lock, unlock, burn | expiry of holds, holds split by partial unlock | tokens are conserved, locked tokens are not spendable |
| allowances (`allowances`) | allowance per grantor, with uses and expiry | grant, use, refresh, delete | several allowances consumed by one action, expiry, revocation | no more is used than was granted |
| mint (`mint`, mint configurations) | supply and mint allowance entries by time, burn counters, requests | grant, mint, request and fulfil either, burn, change authorities | counters written in separate transactions, range reads up to a time before the present, instance ids given late | supply and capacity are not exceeded, instance ids are used once, what is minted was allowed |
| swaps (`swaps`) | swap requests, fills, index objects | request, fill, batch fill, terminate, clean, index | expiry, an offer locked in a balance that other calls change, partial fills, swaps older than the index | the offer is held while the swap can be filled, and free when it is over |
| fees (`fees`) | pending fee balances, usage counters, receipts, exemptions | gates, authorize, credit, exempt, reset, settle, fetch | two channels, settled once, keys that order and find receipts | what is charged is the schedule's, what is credited is pending or paid |
| oracle (`oracle`) | definition, price assertions, gas fees | define, assert, delete, charge | authorities that change, assertions that expire | a bridge request pays the gas of a valid assertion |
| users (`services/PublicKeyService.ts`, `authenticate.ts`, `authorize.ts`) | public keys by alias, profiles by address, signers, quorum, roles | register, update key, roles, signers, quorum | two objects per user, keys that were given up, quorum against number of signers | one key per user, and a quorum that can be met |
| token classes (`token`, `nftCollections`, `vesting`) | class, authorizations of collections, vesting allocations | create, update, configure, mint | a supply allocated at creation, what a mint burns and locks | tokens vest on schedule, post-mint burns and locks are covered by the mint |

The client side (`chain-client`, `chain-connect`, `chain-cli`, `chain-test`), the
signature algorithms, DTO validation and (de)serialization are not modelled: they
are input and output of the above. A DTO that is refused is an exception of the
pipeline here.

## Modules

| module | what it models |
|---|---|
| `StubCache` | the cache of `GalaChainStub.ts` as a record `[reads, writes, deletes]` and the functions its methods compute; `SandboxOf` and `MergeSandbox` are what `BatchSubmit` does with two of them. The empty buffer of an absent key is `NoValue` |
| `TransactionView` | abstract: what chaincode may assume of its stub, a private copy of the world state with a saved copy while an operation of a batch runs |
| `GalaChainStub` | one invocation: any calls of the stub, sandboxes, flush or no flush. Refines `TransactionView` |
| `AtomicOperations` | abstract: the world state changes by whole transactions, one at a time, each unique key once |
| `GalaTransaction` | concurrent transactions over Fabric's versioned world state, each the pipeline of `GalaTransaction.ts`, batches included. Refines `AtomicOperations` |
| `RequestQueue` | the queue of `GalaTransactionRequest.ts`: clients save, curators apply, Fabric validates the range that was read |
| `TokenBalance`, `FungibleToken` | what the methods of `TokenBalance.ts` compute on fungible balances and holds, and the operations on one fungible class, one by one and several in a call |
| `NonFungibleToken` | the instances of one class, in `TokenInstance.owner` and in the balances, with their holds; over `TokenBalance` |
| `TokenSwaps` | swaps of coins and instances, over `NonFungibleToken`, whose operations go on in between |
| `TokenAllowance`, `Allowances` | how a list of allowances is checked and used up, and the operations on the allowances of one grantee |
| `RunningSupply`, `TokenMint` | counters kept as entries by time and read in ranges, and every way in which the supply of a class grows and shrinks |
| `TokenClasses` | one class key: creation, collections, vesting allocations, authorities, configuration of its mints |
| `FeeSchedule`, `FeeQueries`, `Oracle`, `CrossChannelFees` | what the gates and the split formulas compute; what the fetch functions find by a partial key; the oracle of the bridge; and, composed, gates, receipts, credits and settlement on both channels |
| `UserProfiles` | public keys, profiles, signers, quorum and roles, and who is authenticated by the signatures of a call |
| `...Proofs` | the theorems about a module, and their lemmas; `TokenBalanceProofs` begins with lemmas about sums over finite sets and sequences, folds and recursive functions, and goes on with those about holds that `FungibleTokenProofs`, `TokenSwapsProofs` and `TokenClassesProofs` share. `GalaTransactionProofs` has those about `RequestQueue` and `UserProfiles` as well |
| `MC...` | the values TLC gives to the constants |

The first five modules are a stack: what `GalaChainStub` proves of one invocation is what
`GalaTransaction` uses of `StubCache`, and what `GalaTransaction` shows - committed
transactions are atomic and in some order - is why each operation of the token,
allowance, mint, swap, fee and user modules is one action.

Definitions named `...ByEmptyValue`, `...WritesOnly`, `...AtLimit`, `...Anew` and so on,
each placed before the definition it resembles, are mutants: the definition with a plausible
bug. No specification uses them; each checked property fails when one of them
takes the place of the definition.

### State and actions against the code

- A `put` or `delete` of a chain object is an update of a function of its key, and an
  absent object is `None` or a member that is missing. Where the chain key matters - two
  grants in one millisecond, two receipts of one transaction - the model has the same key.
- A call that throws changes nothing, so a refused call is an action that is not enabled.
  Only where the code catches the exception (`BatchSubmit`, `applySavedRequests`) is
  failure an outcome of its own.
- Client time (`ctx.txUnixTime`) is an input of each call. It is set by the client's
  proposal, so it may go back from one transaction to the next; only `TokenMint`, where times are
  parts of keys, and `FeeQueries`, where all transactions are of one minute, assume more.
- Orders the code leaves open (the sort of holds with equal expiry, that of allowances with equal
  creation time) are nondeterministic.
- A quantity is an integer in units of the last decimal place, and divisions round as
  `BigNumber` does where they occur (half up).
- The caller is a parameter of the action, except in `UserProfiles`, where it follows from
  the keys that signed the call. A reader who takes the caller of the other modules for granted finds
  there what it rests on.
- A DTO is a record of the fields that matter, from a set named as its class (`LockTokenDtos`,
  `FetchTokenSwapsByInstanceDtos`), with the inputs that validation lets through and, where a
  refusal is of interest, some that it does not.

## Runs

Bounds are those of the `.cfg`; constants named `Max...` and commented "bound of the model"
are the only ones that the code does not have.

| run | instance | what it shows |
|---|---|---|
| `stub` | 2 keys, 2 values, 3 ranges, any sequence of calls | the cache is coherent, and an invocation behaves as a private copy of the world state, with sandboxes. The state space is finite without a bound |
| `transaction_race` | one operation with an external call, alone and in a batch, two batches with the same operations, and a dry run that is submitted by mistake, on one slot, with shared unique keys and a limit of writes | the committed effects are those of whole operations one at a time, each unique key once though it is submitted twice or by two batches at once; a batch stops at the limit and not before; an operation outside a batch that throws its errors never leaves external writes behind |
| `request_queue` | 3 requests, 2 curators, one request per call, 2 times of saving and of applying | each request takes effect once, in order, and is served in the end |
| `fungible` | supply of 2, owner and issuer, 2 quantities in a call, 2 holds per balance, times 2 and 4, expiry 3, vesting from 3 to 5 | conservation; holds stay covered although client times go back; nobody but those entitled releases a hold, and none a vesting one. A supply of 2 gives partial unlocks and transfers of what is left |
| `allowances` | 2 grantors, a coin and an instance, quantities 1, 2 and infinite, uses 0 and 2, 2 allowances at a time, 2 named in a call | nothing is claimed beyond the grants, with several allowances and with one named twice; a check that passes is followed by a use that succeeds, and `fullAllowanceCheck` agrees with it. An action that draws on two allowances and leaves one partly spent needs these numbers and no more |
| `mint` | a fungible class with all methods, an NFT class with those at once or those in two phases; 2 users, supply 2, capacity 3, lookback 2, 5 times, 3 entries of a kind; any request may be fulfilled again, NFTs are burned and transferred | what is minted stays within the supply and what is allowed within the capacity although requests of one burst do not see one another, and no instance id is given twice, burned and transferred ones included, both until a request is fulfilled a second time; a mint spends allowances that were granted to the one who mints, in any run |
| `swaps` | 2 users, 2 coins and 1 instance, 2 swaps of 1 and 2 uses, one of them perhaps older than the index; holds and swaps that expire | a swap that can be filled has its offer, one that is over holds nothing, coins held for one swap do not pay for another, the queries find the swaps there are |
| `token_classes` | a class of supply 2, plain, in a collection, or with 1 or 2 vesting allocations; 3 valid configurations and one of 101 %; a curator and a user, 4 days | at any time what is locked is what has not vested; what a mint burns and locks afterwards is covered by it |
| `cross_channel_fees` | 2 users, 3 fee codes (exponential, custom, additive, logarithmic), 4 transactions that write dated keys, credits of 1 and 4, pages of 2, an oracle with one authority | credits are pending or paid; both receipts of a payment agree through settlement; recorded fees follow the schedule, through exemptions, resets and payers other than the active user; a split payment costs the fee; the gas of a bridge request is that of an assertion |
| `users` | 3 keys, the registrar and an alias for a multisig profile, up to 3 signers; each call signed by any set of keys | a quorum can always be met, keys and aliases agree, old keys stay old, and signers who change their profile keep control of it |

Runs that end in a counterexample, each a disagreement of the code with what the
repository says of it:

| run | what the counterexample shows |
|---|---|
| `settle_fee_balances` | `settleFeeBalances.ts:70`: a settled balance is not put back as zero; it is spendable, and can be settled again |
| `fee_fields_select` | a fetch of fee authorizations or receipts puts the fields of its DTO in places of the chain key where other fields are. The key of a `FeeAuthorization` begins with authority, year, month, day; that of a `FeeChannelPaymentReceipt` with the date, then fee code and payer; that of a `FeeBalanceCreditReceipt` with the date and the time |

The passing runs are limited to instances in which known weaknesses of the code do not
occur. Each of these can be seen by lifting the limit:

- *Fees.* Methods have one gate each: two gates of one transaction write the same
  `FeeUserPaymentReceipt` key (and two of one code the same channel key), and `ReceiptsAgree`
  fails; add `<<bridge, transfer>>` to `MCGates`. The formula burns a part: with
  `burnPercentage` 0 the last receiver is paid twice, and `PayerPaysReceipt` fails; set
  `burn |-> 0` with a transfer of 100 in `MCSplitFormula` (and `InitialBalance` 7).
- *Requests.* The queue is read past the cache, so two `ApplyRequests` in one batch apply
  a request twice (`GalaTransactionRequest.ts:141`); set `Rounds = 2`.
- *Vesting.* An allocation with cliff 0 and start 0 is not locked at all
  (`vesting/vestingToken.ts:144`), so `VestsOnSchedule` fails with one; a vesting period of no length
  divides by zero at that very millisecond, and is not in the instance.
- *Swaps.* `uses` and `usesSpent` are compared with `<=` as objects, so as strings
  (`cleanExpiredSwaps.ts:53`): a swap of 10 uses with 9 spent is cleaned; uses stay below 10. An
  instance is moved once, whatever the uses that are filled by an allowance. A token twice on
  one side makes the cleaning fail. An old swap is indexed by all but what it wants, is
  never found by that, and its cleaning fails; `SwapsAreFound` says so of it. An offerer who unlocks
  the offer makes a swap that can be neither filled nor terminated.
- *Mint.* Transactions are committed in the order of their times, and fewer entries are
  written than the 200 that the lookback reads. One request is fulfilled in a call: two in a call, or a
  class minted in both ways, repeat instance ids. No call reads the objects that say that a request was fulfilled, so a
  client may send one back again, and the model lets it (the history variable `again` says which were). An allowance request
  that is fulfilled again puts its allowance as unspent (`fulfillMintAllowance.ts:221`): one that was fulfilled, spent and fulfilled again
  exceeds the capacity. A mint request that is fulfilled again is given the same ids (`fulfillMint.ts:266`), which works once its
  user has burned or transferred them: an instance is then in two balances, or back after its burn. `LimitsHoldInBursts`
  and `InstancesAreUnique` therefore say *as long as no request was fulfilled a second time* (`GrantedOnce`, `MintedOnce`): in the
  instance of the run both fail without these conditions. `MintsSpendAllowances` needs none, it counts what is put again.
  A request that is made exactly a lookback after another one counts it twice (`fulfillMint.ts:227`), and
  ids repeat if `MaxSupply` is 4. A fulfilment starts from what the first request of its range has seen
  (`fulfillMintAllowance.ts:189`), which need not be all that lies before the range: with a lookback of 2, one allowance
  each requested at the times 1, 2, 3 and 4 and `MaxCapacity` 3, the four are granted, the last one on top of what the request of time 2 has seen,
  nothing. `LimitsHoldInBursts` assumes that this does not happen; the check of
  `WithinLimits` with `MaxEntries` 4, `LookbackTx` 4, `MaxTime` 8, `MaxQuantity` 1, `MaxSupply` 3 and the one deployment
  `[isNonFungible |-> FALSE, methods |-> {"RequestMintAllowance"}]` shows it.
- *Cache.* A range query lists the empty value of a key that was read before and is absent
  (`GalaChainStub.ts:78`); an operation of a batch that fails after its external call does
  not make the batch fail (`GalaContract.ts:257`), a method that returns its error keeps the external call, and
  a failing inner method of a dry run still lists its writes. The view, and `ExternalAtomic`, are stated accordingly:
  `ExternalAtomic` is about operations outside batches, and would not show what a batch swallows.
- *Allowances.* `verifyAndUseAllowances` uses an allowance with no uses left, and puts it
  back, when another one covers the quantity; it makes no difference to what is claimed.
- *Users.* A rotated key of an unregistered user resolves to `client|invalidated`, and an eth signer
  who registers later under another alias no longer signs for a multisig profile:
  `SignersKeepControl` speaks of calls that change the profile itself.

Deadlock is not checked: a queue may be empty, all tokens burnt and all
transactions done, and the bounds stop a model where the system goes on.

## Fairness

Liveness is stated of the request queue only, where something must happen that nobody in the call
waits for. `Fairness` in `RequestQueue` says: a curator's `ApplyRequests` is called
if, from some time on, there is always something to apply - this is what
`HasPendingApplyRequests` is for, which an operator polls - and Fabric at some time
commits or drops what was endorsed. It does not say that any client's request
succeeds, nor that curators take turns. `EveryRequestServed` holds although curators
invalidate each other's endorsements, since only a commit of another
or a request saved in the range invalidates one, and neither happens for ever without the queue emptying
(the model saves finitely many requests).

## Proofs

| module | theorem | argument |
|---|---|---|
| `GalaChainStubProofs` | `TypeCorrect`, `AlwaysCoherent`, `Refinement` | `Inv` joins the types and `CacheCoherence`: a key is not both put and deleted, and what is remembered as read is what the ledger says, in the cache and in the sandbox. Coherence is what makes a read through the cache equal to one of the abstract view, so each call maps to a step of `TransactionView`. It begins with the lemmas on what put, delete and remembered reads do to a cache |
| `GalaTransactionProofs` | `TypeCorrect`, `LimitCorrect`, `ExternalCorrect`, `Serializable` | see below |
| | `QueueTypeCorrect`, `AppliedOnceAlways`, `ServedInOrder` | of `RequestQueue`: `QueueInvariant` adds what an endorsement knows of the state it was made in, of which only the queue may have changed: the requests it applies are the first that it read, none later than its cutoff. If Fabric finds the same requests again, they are still queued and were never applied. `AppliedOnceAlways` assumes `Rounds = 1`; with two calls in one batch a request is applied twice |
| | `UserTypeCorrect`, `QuorumAlwaysReachable` | of `UserProfiles`: the invariant says at every address, not of client aliases alone, that a multisig profile that is saved there is sound. `UpdateSigners` removes one signer after the other, each checked against the quorum; the lemma `RemovalLeavesQuorum` is about the set that all removals leave |
| | `AlwaysOneKeyPerUser`, `OldKeysAlwaysStayOld`, `SignersAlwaysKeepControl` | a user is two objects, the profile at the key's address and the public key of the alias. `KeysInv` says how far each follows from the other: a saved profile of a key is that of a user with this key, or is invalidated and has no roles; it has no signers; its user has the key saved, or is an eth alias with none; and who has a new key has left a profile at the old one. With it, a new key takes the place of the old one in both, an old key has a profile for ever and so is never new, and a change of signers keeps those who signed, whose number was enough |
| `FungibleTokenProofs` | `TypeCorrect`, `ConservationCorrect`, `LockedCorrect`, `HoldsCorrect` | see below; the lemmas on sums, folds and holds are in `TokenBalanceProofs` |
| `TokenSwapsProofs` | `InstancesAreOwned` | of `NonFungibleToken` by itself. Ownership needs the number of the next instance to be unused; that a locked instance stays needs that removal is refused while a hold has not expired, and `latest`, because an instance may leave after its hold expired and be seen at an earlier client time |
| | `OwnershipAlwaysAgrees`, `LockedAlwaysThere`, `CoinsAlwaysCovered`, `OffersAlwaysHeld`, `OverAlwaysFree`, `QueriesFindSwaps` | of `TokenSwaps`, see below |
| `AllowancesProofs` | `TypeCorrect`, `ClaimsCorrect`, `ChecksCorrect` | see below |
| | `MintTypeCorrect`, `MintsAreGranted`, `LimitsAreKept`, `InstancesStayUnique` | of `TokenMint`, whose mint allowances are maps of the same kind, see below |
| `CrossChannelFeesProofs` | `TypeCorrect`, `CreditAccounted`, `ReceiptsAgreeAlways`, `FeesAsScheduled`, `GasPaid`, `PayerPaysReceipts` | see below |
| `TokenClassesProofs` | `TypeCorrect`, `MintCovered`, `VestsAsScheduled` | see below |

*Transactions.* `Serializable` is the refinement of `AtomicOperations`: whatever the interleaving of
endorsements and commits, each commit is the run of some operations of one transaction, in their
order, each as a whole, on the world state of that moment. The operations ran earlier, on a snapshot
that may be stale, each in a sandbox on top of those before it. The invariant therefore speaks of
every world state that agrees with the snapshot on the keys that were read: on it, the operations
that have ended could have run as they did, and made what the cache now shows
(`Replay`). A step of one operation extends such a run, since what it reads is either in the
cache or among the keys that the world state agrees on; MVCC is what makes the world state at the commit one
of those. With it go the coherence of cache and sandbox, for which `GalaTransactionProofs` instantiates the lemmas of `GalaChainStubProofs` on caches, where a transaction
is in its program, and what each result says of the unique key and the external call.
`LimitCorrect` needs besides that an operation writes its unique key and its slot and no more, so that a count
of writes below the limit is at most one above it afterwards.

*Balances.* The holds of a balance are a sequence, and what they lock, what is held for an authority
and how often a vesting hold occurs are sums of a value over that sequence. The lemmas follow such a sum
through the code: the expired holds that are left out have no value (`UnexpiredSum`), each turn of
`unlockQuantity` changes the sum by what it releases (`TurnSum`), the turns visit each
hold once in whatever order the sort leaves them (`VisitsAll`, `UnlockSums`), and a batch is the same
again (`LockAllStays`, `UnlockAllStays`). `IInv` joins the types, conservation, that before the first transaction
there is nothing, and that holds are covered at *every* time from the latest
one on, not only at those that transactions may have. A spending call checks at its own time, which may lie before the latest: what it finds locked then
bounds what is locked later, because a hold, a vesting one with its rounding included, only ever
releases (`HoldReleases`, `VestedGrows`). `LockedCorrect` assumes `NoInstantVesting`, that no class has a vesting period which is over as it
starts: at that millisecond the locked quantity is zero divided by zero, `ensureQuantityIsSpendable` compares with it in vain, and everything
can be spent. The other three theorems do not assume it.

*Swaps.* `Before` joins the types, what is proved of instances, and that coins are covered. The calls of
`TokenSwaps` change balances in one of four ways - they keep, add, take or lock (`KeepStep`,
`AddStep`, `TakeStep`, `LockStep`) - or unlock part of a hold (`UnlockingStep`), and each step says what becomes of the
holds of every name besides that it is covered (`Turns`). A fill takes the offered coins from a balance
just after their unlock, so that what it takes is spendable; the wanted ones are checked against the
total quantity first, and the spendable one when they are taken. `Indexed` says of each swap
that it has all its index objects, or of an old one those that `ensureTokenSwapIndexing` writes, or none, and that there
are no others; a cleaning that would leave one behind fails instead.
The offers need more (`OffersHeld`): every hold with the id of a swap is one of its offer and expires with it
(`SwapHolds`, `SwapLocks`), those of a deleted swap have expired, and together the coins are no more than the uses that remain, and
exactly those while the swap can be filled and nobody unlocked its offer (`IsHeld`). An instance is locked for one
use, and found with its lock, or left over with one that expired (`IsOfferLocked`).
That a swap that is over has nothing locked rests on `CleanedWhenSpent`: the cleaning, which compares strings,
deletes no swap with uses left. `FewUsesAreCompared` proves it of less than ten uses; of 10 it is false.
`TokenSwaps` assumes that ids of swaps are names, that a token is a coin or an instance, that terms name a token, and
that an old swap offered coins its user had.

*Allowances.* `Inv` says that each allowance is sound - of a finite one no more is spent than its
quantity - and, for each permission, that what was claimed and what is left together were granted. What is left is a sum
over the keys (`Left`) in which an infinite allowance counts nothing, so an inequality remains: a
deletion, a refresh or a cleaning may lose something, and a grant in the same millisecond replaces what was there.
A use takes from several allowances one after the other, but reads each as it
was fetched, before any was put: this is sound because no key is named twice (`Deduplicated`), so that what a
turn reads is what the turns before it have left there (`OneMoreTurn`, `UseTakes`). The whole run then takes from
`Left` what it claims. `ChecksCorrect` is about the same turns: as long as finite allowances with enough left
remain in the list, the turns go on to take, and at the end nothing remains to be taken, or an infinite one was
met, which the check lets pass, too (`OneMoreCovered`, `EnoughSucceeds`). That there always is an order in which to visit the
allowances, so that the statement is not empty, is `OrdersExist`.
The number of uses is a limit of its own: it ends an allowance early, and what is left of it then stays in `Left` until it is cleaned.

*Mint.* A call that mints or fulfils folds its mints over a record of what it may write. Of each record on the
way `After` says that it adds to the balances what it counts as minted, and takes as much from the
allowances that the authorities of that moment have granted (`MintIsTaken`, with the lemmas on allowances above). `MintInv` joins the types with two
facts that relate the variables: what is in the balances and what was burned together were minted (`StockOf`), and of the entries
of each kind no two have one time and one user (`IsLog`), without which sums over entries would not grow by what
is added. `StepGranting` adds that what was minted and what can still be minted grow by no more than the requests that the call
grants: those that are new in `fulfilled`, and those whose allowance it puts again (`FulfillAgainStep`). For the authorities this is
`MintsAreGranted`. For all users it is used by the limits, which need that nothing is put again: `LimitsOnce` is `LimitsInv` under
`GrantedOnce`, which no later step restores, since `again` only grows.
`LimitsInv` says what the running totals know: each request and each burn counter knows the sum of the entries up to its own time less an offset, a lookback
or one millisecond (`KnownSince`); all that is burned is in the counters; what is minted or can be is no more than the
granted requests; and, in bursts, each granted request keeps the limits together with all requests before it, granted or not
(`KeptWithin`). The latest granted request then bounds all of them (`WithinBursts`). That `KnownSince` is kept rests on readers
taking all entries: `LookbackTx` of them bound the read, and its oldest entry is the base line. `LimitsAreKept` and `InstancesStayUnique` therefore
assume `MaxEntries <= LookbackTx`. It is a hypothesis about the length of a history, which the code does not bound: with more than
`LookbackTx` entries the oldest that is read contributes what *it* knew, which leaves out those of the lookback before it.
Nothing is claimed of such a history here.
For instances there are two arguments. Minted at once, they are numbered up to `totalSupply` (`Numbered`), and each call goes on
from there (`NumbersOn`), whatever was burned. In two phases,
each request *stands for* as many numbers as it asks for, after those of all requests before it, fulfilled or not (`IdsOf`).
No two requests stand for the same one (`IdsDisjoint`), a later request leaves what the others stand for (`IdsStay`), and what one that is fulfilled by itself
counts from its own base line is the sum of those before it (`CountsAllBefore`): so the `TokenInstance` objects there are belong to requests
that were fulfilled (`Given`), and one that is fulfilled for the first time adds ids that nobody has had. `InstancesStayUnique` has the
hypotheses named under Mint above, one request in a call (`MaxBatch = 1`) and one way of minting NFTs (`OneWayMints`). That no mint request is
fulfilled a second time, and that none looks back exactly to the time of another one, is in the property, as that no allowance request is
fulfilled a second time is in that of `LimitsAreKept`; without them both are false.

*Fees.* A gate works on what its transaction has done so far, and its effects become the state in the end.
The invariants are therefore predicates of what a gate works on: one call of a gate leads from one of the `GateStates` to another (`GateOutcome`), hence so do the calls of a whole method
(`GatesRun`), and `Typed` of the state before gives `Typed` of the state after. `Accounts` adds that the receipts of one user, code and transaction are one, so that a new one takes the place of
nothing and the sum of the receipts grows by what pending loses; this needs that no transaction goes twice through the gate of
one code (`OncePerCode`). `Agreed` needs more, that it goes through one gate at most (`OneGate`), since the key of a
user's receipt has no code in it. Both hypotheses are weaknesses of the code that are named above; the theorems say that
they are the only ones. `OnSchedule` says of the stored uses, whose they are left aside, that their fees are the sum
over the first uses; that what is fetched of a schedule, page after page, is all of it is `PagesCover`, in which a bookmark
is the first key that was not returned. `Gassed` says of each asserted request that its receipt is there
and covers the gas; `GasIsCharged` excludes that a fee for a use is negative and that a Custom rate is below 1, either of
which makes the gas cost less. `PayerPaysReceipts` is an action property: the invariant behind it, `PaysAtOnce`, is of
the states between two gates of one transaction. The parts of a formula are rounded one by one, but what is burnt is the fee
less the transfers, so that they add up to the fee (`AmountsAddUp`); without a burnt
part (`BurnsSome`) they do not, and the last receiver is paid twice.
`Calculable` says that integer powers and logarithms of positive numbers are integers here, that minus infinity is none, and that no
logarithm is taken of a negative number.

*Token classes.* `IInv(H)` is stated of a kind `H` of holds, and proved of two at once: of all holds, for the
types, and of those whose locked quantity is always a number (`RegularHolds`), for the rest. It joins the types; that before
there is a class nobody has a token; that what is on the balances is no more than the supply of the class,
from which it follows that no balance exceeds it; that from the latest transaction on
each balance covers its holds (`Covered`); and that what is due to a user - what of his allocations has not vested -
is no more than what his vesting holds lock (`Scheduled`), at *every* time from the latest on. The last is where the schedule of the documentation,
rounded down, meets the one that a hold computes, rounded half up (`SharesFit`, `UnvestedIsLocked`).
Each call changes a balance in a way that keeps both (`Follows`, with a lemma for
add, spend, lock and unlock); the allocations of a new class are a fold, each turn of which adds to one balance what its hold
locks there (`AllocateStep`, `AllocationsKeep`). A post-mint burn and lock then find what was minted free, because
their parts are no more than the mint together (`PartsType`) and the locks of before are still covered (`MintSuffices`).
`MintCovered` assumes `NoInstantVesting` as above, `VestsAsScheduled` the stronger `VestsGradually`: each allocation has a cliff and
vests over some days. Of one without a cliff the code releases everything at the start, so that the property does not hold.

*How.* The provers cannot instantiate the induction theorems of the library. Where a proof
needs induction - on the size of a set, the length of a sequence, the turns of a loop - it takes the least
counterexample, which the library's theorems on well-founded orders give for a set
(`LeastElement`, `UpTo` in `TokenBalanceProofs`), and a recursive function or a fold is first shown to exist
(`RecursionExists`, `FoldExists`).

The theorems hold for all values of the constants that the named assumptions of the modules allow:
finite sets of users, keys, names and permissions, tokens for absent values that are none of the others, and
the numbers being numbers. `users` checks `KeysAssumption`, `BoundsAssumption` and
`NoneAssumption` of its instance, `transaction_race` the `ParametersAssumption` of the transactions (each
operation has its own place for its unique key and its slot), `fungible` `SupplyAssumption`,
`AuthoritiesAssumption` and `TimesAssumption`, `swaps` those of `NonFungibleToken` and `TokenSwaps`,
`allowances` those of `Allowances`, `mint` those of `RunningSupply` and `TokenMint`, `token_classes` `ClassAssumption` and `NoneAssumption` of `TokenClasses`, `cross_channel_fees` those of `CrossChannelFees` and `Oracle`; `stub` and `request_queue` those of the other two.

Model-checked only: liveness (`EveryRequestServed`), which is out of the provers' reach. All other properties of
the passing runs are theorems.

## Not modelled

- Clients and tools, serialization, the encoding of keys, signature algorithms and DTO
  validation: input and output of what is modelled.
- Paginated queries and bookmarks, except those of fees; `BatchEvaluate`, which never flushes;
  fetch functions that only read, where no property is about what they find.
- Authentication as a chaincode or a service, organizations, and the `dtoOperation` of a
  multisig call. The contract authorizes by roles (`USE_RBAC`).
- Fees: schedules and formulas that change (they are constants), exemptions at the gate of the
  oracle (it ignores them), the additional fee of a mint configuration; a channel without
  `FeeProperties`, on which `payFeeImmediatelyFromBalance` charges nothing and writes no receipt.
- Tokens: `LockTokens` of other users' tokens is refused by the code; a hold made
  with `vestingPeriodStart` and no expiry locks until the start and nothing after, cannot be
  unlocked by anybody and never goes away. `FungibleToken` has one allocation of the whole
  supply, `TokenClasses` several, and there two allocations of one owner.
- `TokenMint` transfers NFTs only, of which the instance ids matter; what a transfer keeps of the
  quantities and holds is in `FungibleToken` and `TokenSwaps`.
- Mints by contract methods that no contract of the repository exposes
  (`requestMintBatch`, `fulfillMintAllowance` by itself).
- Other tokens, other channels: one class, one bridge, one grantee stand for all, since
  no operation reads the objects of two.

## Plan

1. `UserProfiles` with the `dtoOperation` of multisig calls and service users.
2. Mints fulfilled several in a call, with the repeated ids as a property of what then holds.
