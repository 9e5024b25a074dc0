----------------------------- MODULE TokenMint ------------------------------
(***************************************************************************)
(* How the supply of one token class grows and shrinks                     *)
(* (src/chaincode/src/mint, and what it calls in allowances and burns):    *)
(* mint allowances are granted at once or requested and fulfilled, tokens  *)
(* are minted at once or requested and fulfilled, NFTs are transferred,    *)
(* and tokens are burned.                                                  *)
(*                                                                         *)
(* Each action is an atomic transaction, later than those before it.  The  *)
(* quantities are whole numbers; an NFT minted is an instance id.          *)
(***************************************************************************)
EXTENDS RunningSupply, TokenAllowance

CONSTANTS
  NoOwner,      \* an owner that is left out
  MintUsers,    \* they hold, mint, burn and are granted allowances
  Fulfillers,   \* users that call FulfillMint: identities of the curators' organization
  Deployments,  \* sets of [isNonFungible, methods]: a class and the methods its contract has
  MaxSupply, MaxCapacity,  \* of the token class
  MaxNftMint,   \* MintTokenDto.MAX_NFT_MINT_SIZE
  MaxBatch,     \* bound of the model: mints, or requests to fulfil, in one call
  MaxQuantity,  \* bound of the model: quantity of one grant, mint or burn
  MaxTime,      \* bound of the model
  MaxEntries    \* bound of the model: entries of each kind

\* The type of a mint allowance: of whole quantities, none of them without limit.
MintAllowances ==
  [quantity : Nat, quantitySpent : Nat, uses : Nat, usesSpent : Nat, expires : Nat]

ASSUME MintAssumption ==
  /\ IsFiniteSet(MintUsers) /\ Fulfillers \subseteq MintUsers
  /\ Rank \in [MintUsers -> Nat] /\ \A u, v \in MintUsers : Rank[u] = Rank[v] => u = v
  /\ Deployments \subseteq [isNonFungible : BOOLEAN, methods : SUBSET STRING]
  /\ {MaxSupply, MaxCapacity, MaxQuantity} \subseteq Nat \ {0}
  /\ {MaxTime, MaxEntries, MaxBatch} \subseteq Nat
  /\ Infinity \notin Nat /\ NoAllowance \notin MintAllowances

VARIABLES
  deployment,         \* the class's isNonFungible and the methods
  authorities,        \* TokenClass.authorities
  totalSupply,        \* TokenClass.totalSupply
  mintAllowances,     \* of each user, the mint allowances
  allowanceRequests,  \* TokenMintAllowanceRequest entries
  mintRequests,       \* TokenMintRequest entries
  fulfilled,          \* which of both kinds were fulfilled: TokenMintAllowance and
                      \* TokenMintFulfillment objects
  again,              \* history variable: which of them were fulfilled a second time
  burnCounters,       \* TokenBurnCounter entries
  fungible,           \* of each user, the quantity of the balance
  instances,          \* of each user, the NFT instances of the balance
  tokenInstances,     \* the TokenInstance objects of those that were minted: burns leave them
  minted, burned,     \* the quantities so far
  latest              \* the time of the last transaction

ledger == <<totalSupply, mintAllowances, mintRequests, fulfilled, again, fungible, instances,
            tokenInstances, minted>>
mintVars == <<deployment, authorities, ledger, allowanceRequests, burnCounters, burned, latest>>

MintTimes == 1 .. MaxTime
MintKeys == [grantedBy : MintUsers, created : MintTimes]
MintQuantities == 1 .. MaxQuantity
IsNonFungible == deployment.isNonFungible
Has(method) == method \in deployment.methods

(***************************************************************************)
(* The calls.  An owner that is left out is the caller.  The requests to   *)
(* fulfil are sent back by a client, who may have changed what is known.   *)
(***************************************************************************)
MintTokenDtos == [owner : MintUsers \cup {NoOwner}, quantity : MintQuantities]
MintTokenWithAllowanceDtos == [owner : MintUsers \cup {NoOwner}, quantity : MintQuantities]
HighThroughputMintTokenDtos == [owner : MintUsers \cup {NoOwner}, quantity : MintQuantities]
BatchMintTokenDtos == [mintDtos : TupleOf(MintTokenDtos, 2)]

GrantAllowanceQuantities == UNION {[users -> MintQuantities] : users \in (SUBSET MintUsers) \ {{}}}
GrantMintAllowanceDtos == [quantities : GrantAllowanceQuantities]
HighThroughputGrantAllowanceDtos == [quantities : GrantAllowanceQuantities]

MintRequestDtos(entries) == UNION {{[e EXCEPT !.known = k] : k \in {e.known, 0}} : e \in entries}
FulfillMintDtos(entries) ==
  {s \in BoundedSeq(MintRequestDtos(entries), MaxBatch) : s # << >> /\ IsInjective(s)}
FulfillMintAllowanceDtos(entries) == UNION {kSubset(n, entries) : n \in 1 .. MaxBatch}

Operation(dto, by) ==
  [owner |-> IF dto.owner = NoOwner THEN by ELSE dto.owner, quantity |-> dto.quantity]

Operations(dtos, by) ==
  {[i \in DOMAIN dto.mintDtos |-> Operation(dto.mintDtos[i], by)] : dto \in dtos}

InitMint ==
  /\ deployment \in Deployments
  /\ \E u \in MintUsers : authorities = {u}
  /\ totalSupply = 0
  /\ mintAllowances = [u \in MintUsers |-> [k \in MintKeys |-> NoAllowance]]
  /\ allowanceRequests = {} /\ mintRequests = {} /\ burnCounters = {}
  /\ fulfilled = {} /\ again = {}
  /\ fungible = [u \in MintUsers |-> 0]
  /\ instances = [u \in MintUsers |-> {}] /\ tokenInstances = {}
  /\ minted = 0 /\ burned = 0
  /\ latest = 0

-----------------------------------------------------------------------------
(* Limits and allowances.                                                  *)

KnownBurns(t) == KnownSupply(burnCounters, t - Lookback)
KnownMints(t) == KnownSupply(mintRequests, t - Lookback)
KnownMintAllowances(t, offset) == KnownSupply(allowanceRequests, t - offset)

\* Only methods that mint at once count in totalSupply; until then it is not compared.
CanBeMinted(supply, q, known, burns) ==
  /\ supply > 0 => supply + q <= MaxSupply
  /\ known + q <= MaxCapacity
  /\ known - burns + q <= MaxSupply

\* Only those that current authorities granted count, in the order they were created.
ApplicableOfAnyone(held) ==
  CHOOSE s \in SetToSeqs(Existing(held)) : \A i, j \in DOMAIN s : i < j => s[i].created <= s[j].created

Applicable(held) ==
  LET keys == {k \in Existing(held) : k.grantedBy \in authorities}
  IN  CHOOSE s \in SetToSeqs(keys) : \A i, j \in DOMAIN s : i < j => s[i].created <= s[j].created

\* validateMintRequest.  The check deletes the allowances that are spent.
ValidateMintRequest(held, q, t) == AllowsQuantity(held, Applicable(held), q, t)

Checked(held, t) == CleanAllowances(held, ToSet(Applicable(held)), t)

UseMint(held, q, t) == UseAllowances(held, Applicable(held), q, t)

-----------------------------------------------------------------------------
(* Mint allowances.                                                        *)

AllowanceId(e) == <<"TokenMintAllowance", e.time, e.user, e.by>>
MintId(e) == <<"TokenMintFulfillment", e.time, e.user, e.by>>

(***************************************************************************)
(* What is put when requests are fulfilled.  No call reads it, so nothing  *)
(* keeps a client from sending a request back a second time.               *)
(***************************************************************************)
PutFulfilled(ids) ==
  /\ fulfilled' = fulfilled \cup ids
  /\ again' = again \cup (ids \cap fulfilled)

NewRequests(grants, by, known, t) ==
  {[time |-> t, user |-> u, quantity |-> grants[u], known |-> known, by |-> by] : u \in DOMAIN grants}

PutRequests(entries, requests) ==
  {e \in entries : \A r \in requests : <<e.time, e.user>> # <<r.time, r.user>>} \cup requests

WithGranted(requests) ==
  [u \in MintUsers |-> [k \in MintKeys |->
    LET asked == {e \in requests : <<e.user, e.by, e.time>> = <<u, k.grantedBy, k.created>>}
    IN  IF asked = {} THEN mintAllowances[u][k]
        ELSE NewAllowance(EntryQuantity(asked), MaxQuantity, 0)]]

\* The known supply is read one millisecond back, and the allowances are there at once.
GrantedAtOnce(by, grants, t) ==
  NewRequests(grants, by, KnownMintAllowances(t, 1), t)

CanGrant(by, requests, t) ==
  /\ by \in authorities
  /\ \E e \in requests : CanBeMinted(totalSupply, EntryQuantity(requests), e.known, KnownBurns(t))

GrantMintAllowance(by, dto, t) ==
  LET requests == GrantedAtOnce(by, dto.quantities, t)
  IN  /\ Has("GrantAllowance")
      /\ CanGrant(by, requests, t)
      /\ mintAllowances' = WithGranted(requests)
      /\ allowanceRequests' = PutRequests(allowanceRequests, requests)
      /\ PutFulfilled({AllowanceId(e) : e \in requests})
      /\ UNCHANGED <<deployment, authorities, totalSupply, mintRequests, fungible, instances,
                     tokenInstances, minted, burned, burnCounters>>

RequestMintAllowance(by, dto, t) ==
  LET requests == NewRequests(dto.quantities, by, KnownMintAllowances(t, Lookback), t)
  IN  /\ Has("RequestMintAllowance")
      /\ CanGrant(by, requests, t)
      /\ allowanceRequests' = PutRequests(allowanceRequests, requests)
      /\ UNCHANGED <<deployment, authorities, ledger, burned, burnCounters>>

FulfillOwnTimes(entries, requests) ==
  LET times == {e.time : e \in requests} IN InRange(entries, Min(times), Max(times))

FulfillRange(entries, requests) ==
  LET times == {e.time : e \in requests} IN InRange(entries, Min(times) - Lookback, Max(times))

(***************************************************************************)
(* The base line is what the oldest entry of the range knew; the whole     *)
(* call fails if one of its requests cannot be minted.  Whoever calls it,  *)
(* the allowance is granted by who requested it, and put as unspent, also  *)
(* where it was there before and was spent.                                *)
(***************************************************************************)
FulfillMintAllowance(requests, t) ==
  LET range    == FulfillRange(allowanceRequests, requests)
      baseline == OldestFirst(range)[1].known
  IN  /\ Has("RequestMintAllowance")
      /\ requests \subseteq allowanceRequests
      /\ \A e \in requests :
           CanBeMinted(totalSupply, e.quantity, RunningTotal(range, baseline, e), KnownBurns(t))
      /\ mintAllowances' = WithGranted(requests)
      /\ PutFulfilled({AllowanceId(e) : e \in requests})
      /\ UNCHANGED <<deployment, authorities, totalSupply, mintRequests, allowanceRequests,
                     fungible, instances, tokenInstances, minted, burned, burnCounters>>

-----------------------------------------------------------------------------
(* Minting at once.  A call folds its mints over what it may write; one    *)
(* that fails, fails the call.                                             *)

Written(held, by) ==
  [ok |-> TRUE, by |-> by, held |-> held[by], supply |-> totalSupply, requests |-> mintRequests,
   quantity |-> fungible, instances |-> instances, fulfilled |-> {}, results |-> 0, minted |-> 0]

Write(w, held) ==
  /\ w.ok
  /\ totalSupply' = w.supply
  /\ mintAllowances' = [held EXCEPT ![w.by] = w.held]
  /\ mintRequests' = w.requests
  /\ fungible' = w.quantity
  /\ instances' = w.instances
  /\ tokenInstances' = tokenInstances \cup UNION {w.instances[u] \ instances[u] : u \in MintUsers}
  /\ minted' = minted + w.minted

\* A fungible quantity, or instances of which the owner has none yet.
CanReceive(w, owner, ids) == ids \cap w.instances[owner] = {}

Receive(w, owner, q, ids) ==
  IF IsNonFungible
  THEN [w EXCEPT !.instances[owner] = @ \cup ids, !.results = @ + q, !.minted = @ + q]
  ELSE [w EXCEPT !.quantity[owner] = @ + q, !.results = @ + 1, !.minted = @ + q]

NextIds(count, q) == IF IsNonFungible THEN count + 1 .. count + q ELSE {}

MintEntry(owner, q, requestor, known, t) ==
  [time |-> t, user |-> owner, quantity |-> q, known |-> known, by |-> requestor]

(***************************************************************************)
(* mintToken.  Of the limits only totalSupply counts.  The known supply of *)
(* the request that is written as fulfilled was read when the call began,  *)
(* and the caller of several mints adds theirs.                            *)
(***************************************************************************)
MintOne(w, op, t) ==
  LET use   == UseMint(w.held, op.quantity, t)
      ids   == NextIds(w.supply, op.quantity)
      known == KnownMints(t) + w.minted
      entry == MintEntry(op.owner, op.quantity, w.by, known, t)
      fails == \/ ~ValidateMintRequest(w.held, op.quantity, t)
               \/ ~CanBeMinted(w.supply, op.quantity, 0, 0)
               \/ ~Succeeds(w.held, use)
               \/ IsNonFungible /\ op.quantity > MaxNftMint
               \/ ~CanReceive(w, op.owner, ids)
  IN  IF fails THEN [w EXCEPT !.ok = FALSE]
      ELSE [Receive(w, op.owner, op.quantity, ids) EXCEPT
              !.held = use.put, !.supply = @ + op.quantity,
              !.requests = PutRanged(@, entry), !.fulfilled = @ \cup {MintId(entry)}]

MintAll(w, ops, t) == FoldLeft(LAMBDA v, op : MintOne(v, op, t), w, ops)

WriteMints(w, held) ==
  /\ Write(w, held)
  /\ PutFulfilled(w.fulfilled)
  /\ UNCHANGED <<deployment, authorities, allowanceRequests, burned, burnCounters>>

MintToken(by, dto, t) ==
  /\ Has("MintToken")
  /\ WriteMints(MintOne(Written(mintAllowances, by), Operation(dto, by), t), mintAllowances)

BatchMintToken(by, ops, t) ==
  Has("MintToken") /\ WriteMints(MintAll(Written(mintAllowances, by), ops, t), mintAllowances)

\* An authority grants itself what it mints, to be used once.
GrantAndMint(by, op, t) ==
  LET grants   == [u \in {by} |-> op.quantity]
      requests == GrantedAtOnce(by, grants, t)
      held     == [mintAllowances EXCEPT ![by][[grantedBy |-> by, created |-> t]] =
                     NewAllowance(op.quantity, 1, 0)]
      w        == MintOne(Written(held, by), op, t)
  IN  /\ CanGrant(by, requests, t)
      /\ Write(w, held)
      /\ PutFulfilled(w.fulfilled \cup {AllowanceId(e) : e \in requests})
      /\ allowanceRequests' = PutRequests(allowanceRequests, requests)
      /\ UNCHANGED <<deployment, authorities, burned, burnCounters>>

MintTokenWithAllowance(by, dto, t) ==
  Has("MintTokenWithAllowance") /\ GrantAndMint(by, Operation(dto, by), t)

-----------------------------------------------------------------------------
(* Requested mints.                                                        *)

SubmitMintRequest(by, op, t) ==
  LET known == KnownMints(t)
  IN  /\ ValidateMintRequest(mintAllowances[by], op.quantity, t)
      /\ mintAllowances' = [mintAllowances EXCEPT ![by] = Checked(@, t)]
      /\ mintRequests' = PutRanged(mintRequests, MintEntry(op.owner, op.quantity, by, known, t))
      /\ UNCHANGED <<deployment, authorities, totalSupply, allowanceRequests, fulfilled, again,
                     fungible, instances, tokenInstances, minted, burned, burnCounters>>

RequestMint(by, dto, t) == Has("RequestMint") /\ SubmitMintRequest(by, Operation(dto, by), t)

(***************************************************************************)
(* constructVerifiedMints.  NFTs are for their minter, or by an authority. *)
(* `counter` moves past the entries that this call does not fulfil only.   *)
(***************************************************************************)
ConstructVerifiedMints(w, e, counter) ==
  LET ids == NextIds(counter, e.quantity)
  IN  IF \/ IsNonFungible /\ (e.quantity > MaxNftMint \/ w.by \notin {e.user} \cup authorities)
         \/ ~CanReceive(w, e.user, ids)
      THEN w
      ELSE [Receive(w, e.user, e.quantity, ids) EXCEPT !.fulfilled = @ \cup {MintId(e)}]

(***************************************************************************)
(* A request beyond the limits is passed over, the allowances of the one   *)
(* who fulfils are used; too few of those fail the call.                   *)
(***************************************************************************)
FulfillFromBaseline(w, e, range, requests, baseline, t) ==
  LET use == UseMint(w.held, e.quantity, t)
  IN  IF ~CanBeMinted(totalSupply, e.quantity, RunningTotal(range, baseline, e), KnownBurns(t)) THEN w
      ELSE IF ~ValidateMintRequest(w.held, e.quantity, t) THEN [w EXCEPT !.ok = FALSE]
      ELSE LET v == [w EXCEPT !.held = use.put]
           IN  IF Succeeds(w.held, use) THEN ConstructVerifiedMints(v, e, baseline) ELSE v

FulfillOne(w, e, range, requests, baseline, t) ==
  LET use     == UseMint(w.held, e.quantity, t)
      counter == RunningTotal(range \ requests, baseline, e)
  IN  IF ~CanBeMinted(totalSupply, e.quantity, RunningTotal(range, baseline, e), KnownBurns(t)) THEN w
      ELSE IF ~ValidateMintRequest(w.held, e.quantity, t) THEN [w EXCEPT !.ok = FALSE]
      ELSE LET v == [w EXCEPT !.held = use.put]
           IN  IF Succeeds(w.held, use) THEN ConstructVerifiedMints(v, e, counter) ELSE v

FulfillAll(w, fulfil, range, requests, baseline, t) ==
  FoldLeft(LAMBDA v, e : FulfillOne(v, e, range, requests, baseline, t), w, fulfil)

(***************************************************************************)
(* The base line is what the first request of the call knew.  The call     *)
(* returns a key for each instance, and fails if they are fewer than the   *)
(* requests.                                                               *)
(***************************************************************************)
MatchesOriginal(request) == request \in mintRequests

FulfillMintRequest(by, requests, t) ==
  LET range    == FulfillRange(mintRequests, ToSet(requests))
      fulfil   == OldestFirst(ToSet(requests))
      w        == FulfillAll(Written(mintAllowances, by), fulfil, range, ToSet(requests),
                             requests[1].known, t)
  IN  /\ \A e \in ToSet(requests) : MatchesOriginal(e)
      /\ Write(w, mintAllowances)
      /\ w.results >= Len(requests)
      /\ PutFulfilled(w.fulfilled)
      /\ UNCHANGED <<deployment, authorities, allowanceRequests, burned, burnCounters>>

-----------------------------------------------------------------------------

\* The caller is who has signed the transaction proposal, of a curators' organization.
FulfillMint(by, requests, t) ==
  Has("RequestMint") /\ by \in Fulfillers /\ FulfillMintRequest(by, requests, t)

BurnCounter(user, q, t) ==
  [time |-> t, user |-> user, quantity |-> q,
   known |-> KnownSupply(burnCounters, t - Lookback), by |-> user]

BurnUnchecked(user, q, ids, t) ==
  /\ burnCounters' = PutRanged(burnCounters, BurnCounter(user, q, t))
  /\ burned' = burned + q
  /\ fungible' = [fungible EXCEPT ![user] = @ - (IF IsNonFungible THEN 0 ELSE q)]
  /\ instances' = [instances EXCEPT ![user] = @ \ ids]
  /\ UNCHANGED <<deployment, authorities, totalSupply, mintAllowances, allowanceRequests,
                 mintRequests, fulfilled, again, tokenInstances, minted>>

Burn(user, q, ids, t) ==
  /\ burnCounters' = PutRanged(burnCounters, BurnCounter(user, q, t))
  /\ burned' = burned + q
  /\ fungible' = [fungible EXCEPT ![user] = @ - (IF IsNonFungible THEN 0 ELSE q)]
  /\ fungible'[user] >= 0
  /\ instances' = [instances EXCEPT ![user] = @ \ ids]
  /\ UNCHANGED <<deployment, authorities, totalSupply, mintAllowances, allowanceRequests,
                 mintRequests, fulfilled, again, tokenInstances, minted>>

BurnTokens(user, t) ==
  \/ ~IsNonFungible /\ \E q \in MintQuantities : Burn(user, q, {}, t)
  \/ IsNonFungible /\ \E id \in instances[user] : Burn(user, 1, {id}, t)

\* transferToken, of an NFT.
TransferToken(from, to, id) ==
  /\ id \in instances[from] /\ to # from
  /\ id \notin instances[to]
  /\ instances' = [instances EXCEPT ![from] = @ \ {id}, ![to] = @ \cup {id}]
  /\ UNCHANGED <<deployment, authorities, totalSupply, mintAllowances, allowanceRequests,
                 mintRequests, fulfilled, again, fungible, tokenInstances, minted, burned,
                 burnCounters>>

\* Authorities are added, or take the place of the others; there is always one.
UpdateAuthorities(by, users, overwrite) ==
  /\ by \in authorities /\ users # {}
  /\ authorities' = IF overwrite THEN users ELSE authorities \cup users
  /\ UNCHANGED <<deployment, ledger, allowanceRequests, burnCounters, burned>>

InBounds ==
  /\ Cardinality(allowanceRequests') <= MaxEntries
  /\ Cardinality(mintRequests') <= MaxEntries
  /\ Cardinality(burnCounters') <= MaxEntries

NextMint == \E t \in MintTimes :
  /\ t > latest /\ latest' = t
  /\ \/ \E by \in MintUsers :
          \/ \E dto \in GrantMintAllowanceDtos : GrantMintAllowance(by, dto, t)
          \/ \E dto \in HighThroughputGrantAllowanceDtos : RequestMintAllowance(by, dto, t)
          \/ \E dto \in MintTokenDtos : MintToken(by, dto, t)
          \/ \E dto \in MintTokenWithAllowanceDtos : MintTokenWithAllowance(by, dto, t)
          \/ \E dto \in HighThroughputMintTokenDtos : RequestMint(by, dto, t)
          \/ \E ops \in Operations(BatchMintTokenDtos, by) : BatchMintToken(by, ops, t)
          \/ \E requests \in FulfillMintDtos(mintRequests) : FulfillMint(by, requests, t)
          \/ BurnTokens(by, t)
          \/ \E to \in MintUsers, id \in instances[by] : TransferToken(by, to, id)
          \/ \E users \in SUBSET MintUsers, overwrite \in BOOLEAN : UpdateAuthorities(by, users, overwrite)
     \/ \E requests \in FulfillMintAllowanceDtos(allowanceRequests) : FulfillMintAllowance(requests, t)
  /\ InBounds

MintSpec == InitMint /\ [][NextMint]_mintVars

-----------------------------------------------------------------------------

\* No request was fulfilled a second time: of allowances, and of mints.
GrantedOnce == \A e \in allowanceRequests : AllowanceId(e) \notin again
MintedOnce == \A e \in mintRequests : MintId(e) \notin again

\* The types of the variables.
MintTypeOK ==
  /\ deployment \in Deployments
  /\ authorities \in (SUBSET MintUsers) \ {{}}
  /\ totalSupply \in 0 .. minted
  /\ mintAllowances \in [MintUsers -> [MintKeys -> MintAllowances \cup {NoAllowance}]]
  /\ \A u \in MintUsers : \A k \in Existing(mintAllowances[u]) : Unspent(mintAllowances[u][k]) \in Nat
  /\ \A e \in allowanceRequests \cup mintRequests \cup burnCounters :
       e.time \in MintTimes /\ e.user \in MintUsers /\ e.quantity \in MintQuantities /\ e.known \in Nat
  /\ fungible \in [MintUsers -> Nat]
  /\ instances \in [MintUsers -> SUBSET tokenInstances] /\ tokenInstances \subseteq Nat
  /\ burned \in 0 .. minted
  /\ latest \in Nat

UnspentMints(held, grantors) ==
  SumFunction([u \in MintUsers |->
    SumFunction([k \in {k \in Existing(held[u]) : k.grantedBy \in grantors} |-> Unspent(held[u][k])])])

(***************************************************************************)
(* "If there is a maxCapacity, then total mint allowance cannot exceed that*)
(* If there is a maxSupply, then total mint allowance - burn quantity      *)
(* cannot exceed that" (ensureQuantityCanBeMinted): with what can still be *)
(* minted, and however the allowances and the mints come about.            *)
(***************************************************************************)
WithinLimits ==
  LET supply == minted + UnspentMints(mintAllowances, MintUsers)
  IN  supply <= MaxCapacity /\ supply - burned <= MaxSupply

(***************************************************************************)
(* Requests less than a lookback apart do not see one another, and the     *)
(* range in which one of them is fulfilled goes a lookback back.  Those    *)
(* before the range are counted by what its first entry has seen: all of   *)
(* them, if the requests come in bursts that are over after a lookback.    *)
(***************************************************************************)
InBursts(entries) ==
  \A early, first, e \in entries :
    early.time < e.time - Lookback /\ first.time \in e.time - Lookback .. e.time
      => early.time <= first.time - Lookback

(***************************************************************************)
(* What the limits are kept by (grantAllowance, fulfillMintAllowance):     *)
(* grants see all that was granted or requested, and fulfilments all that  *)
(* was requested in bursts - as long as no request is fulfilled a second   *)
(* time, which grants anew what its allowance had spent.                   *)
(***************************************************************************)
LimitsHoldInBursts ==
  GrantedOnce /\ (Has("RequestMintAllowance") => InBursts(allowanceRequests)) => WithinLimits

\* A request that was made at the very time from which another one looks
\* back is in what that one knows and in the range that it is counted in.
SeenTwice == Has("RequestMint") /\ \E e, f \in mintRequests : f.time = e.time + Lookback

(***************************************************************************)
(* "the newly minted NFT token should be a unique, 1-indexed value"        *)
(* (mintToken): no instance is in two balances, and as many were minted as *)
(* there are TokenInstance objects, so no id is given twice, not even after*)
(* it was burned.  A mint request that is fulfilled a second time is given *)
(* the same ids, which nobody has any more who has burned or transferred   *)
(* them: the property is about requests that are fulfilled once.           *)
(***************************************************************************)
InstancesAreUnique ==
  IsNonFungible /\ MintedOnce /\ ~SeenTwice =>
    /\ \A u, v \in MintUsers : u # v => instances[u] \cap instances[v] = {}
    /\ Cardinality(tokenInstances) = minted

(***************************************************************************)
(* "Filter allowances to only include those granted by current authorities"*)
(* (mintToken, validateMintRequest): what a call mints, it takes from what *)
(* they have granted, which that call itself may have added to, with new   *)
(* allowances and with those that it put anew, unspent.                    *)
(***************************************************************************)
AllowanceOf(e) == mintAllowances[e.user][[grantedBy |-> e.by, created |-> e.time]]

GrantedByCall ==
  {e \in allowanceRequests' :
     \/ AllowanceId(e) \in fulfilled' \ fulfilled
     \/ AllowanceOf(e)' # AllowanceOf(e) /\ AllowanceOf(e)' = NewAllowance(e.quantity, MaxQuantity, 0)}

MintsSpendAllowances ==
  [][minted' - minted <= UnspentMints(mintAllowances, authorities) + EntryQuantity(GrantedByCall)
                           - UnspentMints(mintAllowances', authorities)]_mintVars

=============================================================================
