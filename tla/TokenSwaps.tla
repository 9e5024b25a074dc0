----------------------------- MODULE TokenSwaps -----------------------------
(***************************************************************************)
(* Swaps (src/chaincode/src/swaps): a user offers tokens, which are locked,*)
(* and wants others; the swap is filled by other users, as many times as it*)
(* has uses, or terminated, and deleted when it is over.  The tokens are   *)
(* the instances of NonFungibleToken, and coins, which are fungible.  Users*)
(* transfer and unlock them in other ways, too, also those they offered.   *)
(***************************************************************************)
EXTENDS NonFungibleToken

CONSTANTS
  Fungibles,       \* token classes that are fungible
  InitialCoins,    \* [Fungibles -> [Users -> quantity]]
  SwapIds,         \* keys of swaps, which are the names of their holds
  Terms,           \* of requests: what is offered and wanted, how often
  SwapExpiries,    \* of requests: times, and 0 for never
  FillUses,        \* how many uses a fill takes
  Recipients,      \* of requests: the only user who may fill it, None for any
  LockExpiries,    \* of holds that are not of a swap
  SwapAllowances,  \* <<u, v>> if v has swap allowances of u that are not used up
  OldSwaps         \* {[id, terms, offeredBy]} of coins, from before there was an index

ASSUME SwapsAssumption ==
  /\ SwapIds \subseteq Names /\ SwapExpiries \subseteq Nat /\ FillUses \subseteq Nat \ {0}
  /\ LockExpiries \subseteq Nat /\ Recipients \subseteq Users \cup {None}
  /\ SwapAllowances \subseteq Users \X Users
  /\ InitialCoins \in [Fungibles -> [Users -> Nat]]

Tokens == Fungibles \cup Instances

ASSUME TokensAssumption == Fungibles \cap Instances = {}

(***************************************************************************)
(* Each side names a token once: a token named twice makes a swap that     *)
(* cannot be cleaned, see README.  An old swap is told by its terms.       *)
(***************************************************************************)
OldTerms == {old.terms : old \in OldSwaps}

ASSUME TermsAssumption ==
  \A terms \in Terms \cup OldTerms :
    /\ terms.uses \in 1 .. 99
    /\ \A side \in {terms.offered, terms.wanted} :
         /\ DOMAIN side \in (SUBSET Tokens) \ {{}}
         /\ \A token \in DOMAIN side : side[token] \in Nat \ {0}

ASSUME OldSwapsAssumption ==
  \A old \in OldSwaps :
    /\ old.id \in SwapIds /\ old.offeredBy \in Users
    /\ old.terms \notin Terms /\ DOMAIN old.terms.offered \subseteq Fungibles
    /\ \A f \in DOMAIN old.terms.offered :
         old.terms.offered[f] * old.terms.uses <= InitialCoins[f][old.offeredBy]

\* The objects of swaps, and of their fills by the chain keys.
FillKeys == [swapRequestId : SwapIds, filledBy : Users, created : Times]

TokenSwapRequests ==
  [terms : Terms \cup OldTerms, offeredBy : Users, offeredTo : Users \cup {None},
   usesSpent : Nat, expires : Nat, fillIds : Seq(FillKeys)]

ASSUME SwapRequestsAssumption == None \notin TokenSwapRequests

VARIABLES
  coins,   \* TokenBalance of each fungible class and user
  swaps,   \* TokenSwapRequest, None if there is none
  fills,   \* TokenSwapFill objects
  index,   \* TokenSwapRequest{InstanceOffered, InstanceWanted, OfferedBy, OfferedTo} objects
  fate     \* of the offer of each swap: what has been done to its holds

swapVars == <<coins, swaps, fills, index, fate>>
allVars == <<vars, swapVars>>

\* The chain key of a TokenSwapFill.
FillKey(id, u, now) == [swapRequestId |-> id, filledBy |-> u, created |-> now]

\* Bound of the model: quantities that are transferred, locked and unlocked.
CoinSupply(f) == MapThenSumSet(LAMBDA u : InitialCoins[f][u], Users)

Remaining(swap) == swap.terms.uses - swap.usesSpent

\* An NFT is offered once, since no quantity but 1 of it is locked.
QuantityOf(side, token, uses) == side[token] * uses

SwapIsExpired(swap, now) == swap.expires # 0 /\ swap.expires <= now

\* The keys of the objects by which a swap is found.
IndexOf(id, swap) ==
  {<<"InstanceOffered", t, id>> : t \in DOMAIN swap.terms.offered}
    \cup {<<"InstanceWanted", t, id>> : t \in DOMAIN swap.terms.wanted}
    \cup {<<"OfferedBy", swap.offeredBy, id>>}
    \cup {<<"OfferedTo", u, id>> : u \in {swap.offeredTo} \ {None}}

-----------------------------------------------------------------------------
\* The offer is locked for all uses at once.
OfferedOnce(terms, token) == terms.offered[token]

Offered(terms, token) == QuantityOf(terms.offered, token, terms.uses)

OfferHold(u, id, terms, f, expires) ==
  [quantity |-> Offered(terms, f), expires |-> expires, name |-> id, createdBy |-> u,
   lockAuthority |-> u, vestingStart |-> None]

OfferLock(u, id, i, expires) ==
  [instance |-> i, expires |-> expires, name |-> id, createdBy |-> u, lockAuthority |-> u]

\* More of a fungible token than its class has is offered by nobody.
ValidateTokenSwapQuantity(token, q) == token \in Instances => q = 1

NewSwap(u, to, terms, expires) ==
  [terms |-> terms, offeredBy |-> u, offeredTo |-> to, usesSpent |-> 0,
   expires |-> expires, fillIds |-> << >>]

EmptyCoins == [f \in Fungibles |-> [u \in Users |->
                 [EmptyBalance EXCEPT !.quantity = InitialCoins[f][u]]]]

\* At the start there are no swaps, or one that has its holds and no index.
SwapInit ==
  /\ Init
  /\ fills = {} /\ index = {}
  /\ \/ /\ coins = EmptyCoins
        /\ swaps = [id \in SwapIds |-> None]
        /\ fate = [id \in SwapIds |-> "unused"]
     \/ \E old \in OldSwaps :
          /\ coins = [f \in Fungibles |->
               IF f \notin DOMAIN old.terms.offered THEN EmptyCoins[f]
               ELSE [EmptyCoins[f] EXCEPT ![old.offeredBy].holds =
                       <<OfferHold(old.offeredBy, old.id, old.terms, f, 0)>>]]
          /\ swaps = [id \in SwapIds |->
               IF id = old.id THEN NewSwap(old.offeredBy, None, old.terms, 0) ELSE None]
          /\ fate = [id \in SwapIds |-> IF id = old.id THEN "held" ELSE "unused"]

(***************************************************************************)
(* A caller who is not the one who offers has a swap allowance, which makes*)
(* no difference here.                                                     *)
(***************************************************************************)
RequestTokenSwap(u, to, id, terms, expires, now) ==
  LET fungible == DOMAIN terms.offered \cap Fungibles
      instances == DOMAIN terms.offered \cap Instances
      swap == NewSwap(u, to, terms, expires)
  IN  /\ fate[id] = "unused"
      /\ expires # 0 => expires > now
      /\ \A i \in (DOMAIN terms.offered \cup DOMAIN terms.wanted) \cap Instances : tokenOwner[i] # None
      /\ \A side \in {terms.offered, terms.wanted} :
           \A token \in DOMAIN side : ValidateTokenSwapQuantity(token, side[token])
      /\ fungible \cap DOMAIN terms.wanted = {}
      /\ \A f \in fungible : Offered(terms, f) <= SpendableQuantity(coins[f][u], now)
      /\ \A i \in instances : CanRemoveInstance(u, i, now) /\ Offered(terms, i) = 1
      /\ coins' = [f \in Fungibles |->
           IF f \notin fungible THEN coins[f]
           ELSE [coins[f] EXCEPT ![u] = LockQuantity(@, OfferHold(u, id, terms, f, expires), now)]]
      /\ lockedHolds' = IF instances = {} THEN lockedHolds
                        ELSE [lockedHolds EXCEPT ![u] = UnexpiredLockedHolds(u, now)
                                \cup {OfferLock(u, id, i, expires) : i \in instances}]
      /\ swaps' = [swaps EXCEPT ![id] = swap]
      /\ index' = index \cup IndexOf(id, swap)
      /\ fate' = [fate EXCEPT ![id] = "held"]
      /\ Called(now)
      /\ UNCHANGED <<totalSupply, tokenOwner, instanceIds, fills>>

\* A balance after unlockQuantity, and whether that much could be unlocked.
Unlocking(balance, owner, caller, q, id, isTokenAuthority, now) ==
  LET order == CHOOSE o \in VisitOrders(UnexpiredHolds(balance, now)) : TRUE
  IN  UnlockQuantity(balance, q, now, id, owner, caller, isTokenAuthority, order)

UnlockedNot(balance, owner, q, id, now) == balance

Unlocked(balance, owner, q, id, now) ==
  [balance EXCEPT !.holds = Unlocking(balance, owner, owner, q, id, FALSE, now).kept]

(***************************************************************************)
(* fillTokenSwap: the offered tokens are unlocked and go to the one who    *)
(* fills, the wanted tokens go to the one who offered.  An instance is     *)
(* transferred by its owner in a quantity of 1 only; where the caller uses *)
(* an allowance of the owner, the quantity is not looked at.               *)
(***************************************************************************)
ValidateTokenSwapFill(swap, expected) ==
  expected # None => expected.offered = swap.terms.offered /\ expected.wanted = swap.terms.wanted

CanFill(caller, u, swap, uses, now) ==
  /\ caller = u \/ <<u, caller>> \in SwapAllowances
  /\ swap.offeredTo \in {None, u} /\ u # swap.offeredBy
  /\ uses <= Remaining(swap)
  /\ ~SwapIsExpired(swap, now)

GiveOffer(u, id, swap, uses, now) ==
  \A token \in DOMAIN swap.terms.offered :
    LET q == QuantityOf(swap.terms.offered, token, uses)
    IN  IF token \in Fungibles
        THEN LET balance == coins[token][swap.offeredBy]
             IN  /\ Unlocking(balance, swap.offeredBy, swap.offeredBy, q, id, FALSE, now).remaining = 0
                 /\ SpendableQuantity(Unlocked(balance, swap.offeredBy, q, id, now), now) >= q
        ELSE /\ token \in instanceIds[swap.offeredBy] /\ token \notin instanceIds[u]
             /\ {h \in UnexpiredLockedHolds(swap.offeredBy, now) : h.instance = token}
                  = FindLockedHold(swap.offeredBy, token, id, now)
             /\ FindLockedHold(swap.offeredBy, token, id, now) # {}

\* The check that fillTokenSwap makes before, and no other.
GiveWantedOfTotal(caller, u, swap, uses, now) ==
  \A token \in DOMAIN swap.terms.wanted :
    IF token \in Fungibles THEN coins[token][u].quantity >= QuantityOf(swap.terms.wanted, token, uses)
    ELSE CanRemoveInstance(u, token, now) /\ token \notin instanceIds[swap.offeredBy]

GiveWanted(caller, u, swap, uses, now) ==
  \A token \in DOMAIN swap.terms.wanted :
    LET q == QuantityOf(swap.terms.wanted, token, uses)
    IN  IF token \in Fungibles
        THEN SpendableQuantity(coins[token][u], now) >= q
        ELSE /\ caller = u => q = 1
             /\ CanRemoveInstance(u, token, now) /\ token \notin instanceIds[swap.offeredBy]

\* The balances of two users are fetched, changed and put, `from` as given.
GiveCoins(balances, from, fromBalance, to, q) ==
  [balances EXCEPT ![from] = SubtractQuantity(fromBalance, q),
                   ![to] = AddQuantity(balances[to], q)]

MoveCoins(u, id, swap, uses, now) ==
  coins' = [f \in Fungibles |->
    IF f \in DOMAIN swap.terms.offered
    THEN LET q == QuantityOf(swap.terms.offered, f, uses)
         IN  GiveCoins(coins[f], swap.offeredBy,
                       Unlocked(coins[f][swap.offeredBy], swap.offeredBy, q, id, now), u, q)
    ELSE IF f \in DOMAIN swap.terms.wanted
    THEN GiveCoins(coins[f], u, coins[f][u], swap.offeredBy, QuantityOf(swap.terms.wanted, f, uses))
    ELSE coins[f]]

MoveInstances(u, id, swap, now) ==
  LET out == DOMAIN swap.terms.offered \cap Instances
      in  == DOMAIN swap.terms.wanted \cap Instances
  IN  /\ instanceIds' = [instanceIds EXCEPT ![swap.offeredBy] = (@ \ out) \cup in,
                                            ![u] = (@ \ in) \cup out]
      /\ tokenOwner' = [i \in Instances |->
           IF i \in out THEN u ELSE IF i \in in THEN swap.offeredBy ELSE tokenOwner[i]]
      /\ lockedHolds' = IF out = {} THEN lockedHolds
                        ELSE [lockedHolds EXCEPT ![swap.offeredBy] =
                               {h \in UnexpiredLockedHolds(swap.offeredBy, now) :
                                  ~(h.instance \in out /\ h.name = id)}]

FillTokenSwap(caller, u, id, uses, expected, now) ==
  LET swap == swaps[id]
      key  == FillKey(id, u, now)
  IN  /\ swap # None
      /\ ValidateTokenSwapFill(swap, expected) /\ CanFill(caller, u, swap, uses, now)
      /\ GiveOffer(u, id, swap, uses, now)
      /\ GiveWanted(caller, u, swap, uses, now)
      /\ MoveCoins(u, id, swap, uses, now)
      /\ MoveInstances(u, id, swap, now)
      /\ swaps' = [swaps EXCEPT ![id].usesSpent = @ + uses, ![id].fillIds = Append(@, key)]
      /\ fills' = {f \in fills : f.key # key} \cup {[key |-> key, uses |-> uses]}
      /\ Called(now)
      /\ UNCHANGED <<totalSupply, index, fate>>

(***************************************************************************)
(* terminateTokenSwap unlocks what is left of the offer.  A hold on an     *)
(* instance may have gone, if the caller has the instance.                 *)
(***************************************************************************)
CanUnlockOffer(caller, id, swap, token, q, now) ==
  IF token \in Fungibles
  THEN Unlocking(coins[token][swap.offeredBy], swap.offeredBy, caller, q, id,
                 caller \in Authorities, now).remaining = 0
  ELSE LET owner == tokenOwner[token]
           found == FindLockedHold(owner, token, id, now)
       IN  IF found = {} THEN caller \in Authorities \cup {owner}
           ELSE \E hold \in found : MayUnlock(caller, owner, hold)

UnlockOffer(caller, id, swap, uses, now) ==
  LET instances == DOMAIN swap.terms.offered \cap Instances
  IN  /\ coins' = [f \in Fungibles |->
           IF f \notin DOMAIN swap.terms.offered THEN coins[f]
           ELSE [coins[f] EXCEPT ![swap.offeredBy].holds =
                   Unlocking(coins[f][swap.offeredBy], swap.offeredBy, caller,
                             QuantityOf(swap.terms.offered, f, uses), id,
                             caller \in Authorities, now).kept]]
      /\ lockedHolds' = [u \in Users |->
           IF \E i \in instances : tokenOwner[i] = u /\ FindLockedHold(u, i, id, now) # {}
           THEN {h \in UnexpiredLockedHolds(u, now) : ~(h.instance \in instances /\ h.name = id)}
           ELSE lockedHolds[u]]

TerminateTokenSwap(caller, id, now) ==
  LET swap == swaps[id]
  IN  /\ swap # None /\ swap.offeredBy = caller
      /\ Remaining(swap) # 0
      /\ ~SwapIsExpired(swap, now)
      /\ \A token \in DOMAIN swap.terms.offered :
           CanUnlockOffer(caller, id, swap, token, QuantityOf(swap.terms.offered, token, Remaining(swap)), now)
      /\ UnlockOffer(caller, id, swap, Remaining(swap), now)
      /\ swaps' = [swaps EXCEPT ![id].expires = now]
      /\ fate' = [fate EXCEPT ![id] = "terminated"]
      /\ Called(now)
      /\ UNCHANGED <<totalSupply, tokenOwner, instanceIds, fills, index>>

-----------------------------------------------------------------------------
(***************************************************************************)
(* cleanTokenSwaps compares uses and usesSpent with <=.  They are          *)
(* BigNumber objects, so this is the order of their strings.               *)
(***************************************************************************)
Digits(n) == IF n < 10 THEN <<n>> ELSE <<n \div 10, n % 10>>

StringLeq(m, n) ==
  LET s == Digits(m)
      t == Digits(n)
  IN  \/ s[1] < t[1]
      \/ s[1] = t[1] /\ (Len(s) = 1 \/ (Len(t) = 2 /\ s[2] <= t[2]))

CanClean(swap, now) ==
  SwapIsExpired(swap, now) \/ StringLeq(swap.terms.uses, swap.usesSpent)

DeindexOffered(over) ==
  {entry \in index : entry[1] \in {"InstanceWanted", "OfferedTo"} \/ entry[3] \notin over}

Deindex(over) == index \ UNION {IndexOf(id, swaps[id]) : id \in over}

CleanTokenSwaps(ids, now) ==
  LET over == {id \in ids : CanClean(swaps[id], now)}
  IN  /\ None \notin {swaps[id] : id \in ids} /\ over # {}
      /\ \A id \in over : IndexOf(id, swaps[id]) \subseteq index
      /\ swaps' = [id \in SwapIds |-> IF id \in over THEN None ELSE swaps[id]]
      /\ index' = Deindex(over)
      /\ Called(now)
      /\ UNCHANGED <<totalSupply, tokenOwner, instanceIds, lockedHolds, coins, fills, fate>>

(***************************************************************************)
(* ensureTokenSwapIndexing writes the index objects that are missing, but  *)
(* none for the tokens that are wanted.                                    *)
(***************************************************************************)
EnsureTokenSwapIndexing(ids, now) ==
  /\ None \notin {swaps[id] : id \in ids}
  /\ index' = index \cup {entry \in UNION {IndexOf(id, swaps[id]) : id \in ids} :
                            entry[1] # "InstanceWanted"}
  /\ Called(now)
  /\ UNCHANGED <<totalSupply, tokenOwner, instanceIds, lockedHolds, coins, swaps, fills, fate>>

\* A query names an instance, or a class, or no token at all.
FetchTokenSwapsByInstanceDtos == {{token} : token \in Tokens} \cup {Instances, Tokens}

\* The swaps that the queries by token and by user yield.
SwapsByInstanceOffered(tokens) == {id \in SwapIds : \E t \in tokens : <<"InstanceOffered", t, id>> \in index}
SwapsByInstanceWanted(tokens) == {id \in SwapIds : \E t \in tokens : <<"InstanceWanted", t, id>> \in index}
SwapsOfferedByUser(u) == {id \in SwapIds : <<"OfferedBy", u, id>> \in index}
SwapsOfferedToUser(u) == {id \in SwapIds : <<"OfferedTo", u, id>> \in index}

-----------------------------------------------------------------------------

Released(name) == fate' = [id \in SwapIds |-> IF id = name /\ fate[id] = "held" THEN "released" ELSE fate[id]]

TransferCoins(from, to, f, q, now) ==
  /\ from # to
  /\ SpendableQuantity(coins[f][from], now) >= q
  /\ coins' = [coins EXCEPT ![f] = GiveCoins(@, from, @[from], to, q)]
  /\ Called(now)
  /\ UNCHANGED <<totalSupply, tokenOwner, instanceIds, lockedHolds, swaps, fills, index, fate>>

\* UnlockToken, with the id of a swap for the name of the hold.
UnlockCoins(by, owner, f, q, name, now) ==
  LET result == Unlocking(coins[f][owner], owner, by, q, name, by \in Authorities, now)
  IN  /\ result.remaining = 0
      /\ coins' = [coins EXCEPT ![f][owner].holds = result.kept]
      /\ Released(name)
      /\ Called(now)
      /\ UNCHANGED <<totalSupply, tokenOwner, instanceIds, lockedHolds, swaps, fills, index>>

\* The key of a swap is not the name of a hold that is not one of the swap.
TokenCall(u, now) ==
  \/ /\ \/ Mint(u, now)
        \/ \E i \in Instances :
             \/ \E to \in Users : Transfer(u, to, i, now)
             \/ Burn(u, i, now)
             \/ \E expires \in LockExpiries, name \in Names \ SwapIds :
                  Lock(u, u, i, expires, name, None, now)
     /\ UNCHANGED swapVars
  \/ \E i \in Instances, name \in Names :
       Unlock(u, i, name, now) /\ Released(name) /\ UNCHANGED <<coins, swaps, fills, index>>
  \/ \E f \in Fungibles : \E q \in 1 .. CoinSupply(f) :
       \/ \E to \in Users : TransferCoins(u, to, f, q, now)
       \/ \E owner \in Users, id \in SwapIds : UnlockCoins(u, owner, f, q, id, now)

(***************************************************************************)
(* What clients send.  A BatchFillTokenSwapDto is a sequence of fills.     *)
(***************************************************************************)
RequestTokenSwapDtos == [offeredTo : Recipients, terms : Terms, expires : SwapExpiries]

FillTokenSwapDtos == [swapRequestId : SwapIds, filledBy : Users, uses : FillUses, expected : Terms \cup {None}]

SwapCall(u, now) ==
  \/ \E id \in SwapIds, dto \in RequestTokenSwapDtos :
       RequestTokenSwap(u, dto.offeredTo, id, dto.terms, dto.expires, now)
  \/ \E dto \in FillTokenSwapDtos :
       FillTokenSwap(u, dto.filledBy, dto.swapRequestId, dto.uses, dto.expected, now)
  \/ \E id \in SwapIds : TerminateTokenSwap(u, id, now)

\* The calls of a curator, who names some swaps.
CuratorCall(now) == \E ids \in (SUBSET SwapIds) \ {{}} :
  CleanTokenSwaps(ids, now) \/ EnsureTokenSwapIndexing(ids, now)

SwapNext == \E now \in Times :
  \/ \E u \in Users : TokenCall(u, now) \/ SwapCall(u, now)
  \/ CuratorCall(now)

SwapSpec == SwapInit /\ [][SwapNext]_allVars

-----------------------------------------------------------------------------

\* The swaps that are written, and those that are over.
Written == {id \in SwapIds : swaps[id] # None}

IsOver(id) ==
  \/ fate[id] = "terminated"
  \/ fate[id] # "unused" /\ swaps[id] = None
  \/ id \in Written /\ Remaining(swaps[id]) = 0

HeldQuantity(f, u, id, t) ==
  LET holds == coins[f][u].holds
  IN  SumFunction([k \in DOMAIN holds |->
                     IF holds[k].name = id /\ ~IsExpired(holds[k], t) THEN holds[k].quantity ELSE 0])

(***************************************************************************)
(* What swaps have locked is there, from the latest transaction on: no     *)
(* fill pays with coins that are held for another swap, although           *)
(* fillTokenSwap looks at the total quantity.                              *)
(***************************************************************************)
LockedCoinsAreCovered ==
  \A f \in Fungibles, u \in Users, t \in Times :
    t >= latest => SpendableQuantity(coins[f][u], t) >= 0

(***************************************************************************)
(* A swap that can be filled has its offer: unless somebody unlocked it in *)
(* another way, the uses that remain are held under the id of the swap.    *)
(***************************************************************************)
OfferIsHeld ==
  \A id \in Written, t \in Times :
    LET swap == swaps[id]
    IN  t >= latest /\ fate[id] = "held" /\ ~SwapIsExpired(swap, t) =>
          \A token \in DOMAIN swap.terms.offered :
            IF token \in Fungibles
            THEN HeldQuantity(token, swap.offeredBy, id, t) = QuantityOf(swap.terms.offered, token, Remaining(swap))
            ELSE \/ Remaining(swap) = 0
                 \/ /\ token \in instanceIds[swap.offeredBy]
                    /\ FindLockedHold(swap.offeredBy, token, id, t) # {}

(***************************************************************************)
(* A swap that is over, filled for all its uses, terminated, or deleted,   *)
(* keeps nothing locked after the latest transaction.                      *)
(***************************************************************************)
OverIsFree ==
  \A id \in SwapIds, u \in Users, t \in Times :
    t > latest /\ IsOver(id) =>
      /\ \A f \in Fungibles : HeldQuantity(f, u, id, t) = 0
      /\ \A h \in UnexpiredLockedHolds(u, t) : h.name # id

(***************************************************************************)
(* The queries by token and by user find the swaps there are, and none that*)
(* was deleted, for which the query would fail.  An old swap is found by   *)
(* all of them or by none, but never by what it wants.                     *)
(***************************************************************************)
SwapsAreFound ==
  LET Old(id) == swaps[id].terms \in OldTerms
  IN  /\ index \subseteq UNION {IndexOf(id, swaps[id]) : id \in Written}
      /\ \A id \in Written : Old(id) =>
           {entry[1] : entry \in IndexOf(id, swaps[id]) \ index}
             \in {{"InstanceWanted"}, {"InstanceWanted", "InstanceOffered", "OfferedBy"}}
      /\ \A id \in Written, tokens \in FetchTokenSwapsByInstanceDtos : ~Old(id) =>
           /\ id \in SwapsByInstanceOffered(tokens) <=> DOMAIN swaps[id].terms.offered \cap tokens # {}
           /\ id \in SwapsByInstanceWanted(tokens) <=> DOMAIN swaps[id].terms.wanted \cap tokens # {}
      /\ \A id \in Written, u \in Users : ~Old(id) =>
           /\ id \in SwapsOfferedByUser(u) <=> swaps[id].offeredBy = u
           /\ id \in SwapsOfferedToUser(u) <=> swaps[id].offeredTo = u

=============================================================================
