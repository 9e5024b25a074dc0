-------------------------- MODULE NonFungibleToken --------------------------
(***************************************************************************)
(* The instances of one non-fungible token class.  Where an instance is, is*)
(* stored twice: TokenInstance.owner, and the instance ids in the balances *)
(* of the users (src/chain-api/src/types/TokenBalance.ts).  The operations *)
(* are those of mintToken, transferToken, lockToken, unlockToken and       *)
(* burnTokens.  Each is an atomic transaction; the client sets its time.   *)
(***************************************************************************)
EXTENDS TokenBalance

CONSTANTS
  Authorities,  \* of the token class
  MaxSupply,    \* of the token class
  Times         \* of transactions

ASSUME UsersAssumption == None \notin Users /\ Authorities \subseteq Users
ASSUME NumbersAssumption == MaxSupply \in Nat /\ Times \subseteq Nat \ {0}

VARIABLES
  totalSupply,    \* TokenClass.totalSupply
  tokenOwner,     \* TokenInstance.owner, None if there is no such instance
  instanceIds,    \* TokenBalance.instanceIds of each user
  lockedHolds,    \* TokenBalance.lockedHolds of each user
  latest          \* the latest time of a transaction so far

vars == <<totalSupply, tokenOwner, instanceIds, lockedHolds, latest>>

Instances == 1 .. MaxSupply

InstanceHolds == [instance : Instances, expires : Nat, name : Names, createdBy : Users,
                  lockAuthority : Users \cup {None}]

UnexpiredLockedHolds(u, now) == {h \in lockedHolds[u] : ~IsExpired(h, now)}

IsInstanceLocked(u, i, now) == \E h \in UnexpiredLockedHolds(u, now) : h.instance = i

FindLockedHold(u, i, name, now) ==
  {h \in UnexpiredLockedHolds(u, now) : h.instance = i /\ h.name = name}

\* ensureInstanceIsInBalance and ensureInstanceIsNotLocked of removeInstance.
CanRemoveLockedInstance(u, i, now) == i \in instanceIds[u]

CanRemoveInstance(u, i, now) == i \in instanceIds[u] /\ ~IsInstanceLocked(u, i, now)

Init == /\ totalSupply = 0
        /\ tokenOwner = [i \in Instances |-> None]
        /\ instanceIds = [u \in Users |-> {}]
        /\ lockedHolds = [u \in Users |-> {}]
        /\ latest = 0

Called(now) == latest' = IF now > latest THEN now ELSE latest

\* mintToken gives the new instance the number of the supply it makes.
Mint(owner, now) ==
  LET i == totalSupply + 1
  IN  /\ totalSupply < MaxSupply /\ i \notin instanceIds[owner]
      /\ totalSupply' = i
      /\ tokenOwner' = [tokenOwner EXCEPT ![i] = owner]
      /\ instanceIds' = [instanceIds EXCEPT ![owner] = @ \cup {i}]
      /\ Called(now) /\ UNCHANGED lockedHolds

(***************************************************************************)
(* transferToken: from the balance of `from`, which need not be the        *)
(* TokenInstance.owner for the code to go on, to that of another user.     *)
(***************************************************************************)
TransferKeepingOwner(from, to, i, now) ==
  /\ from # to
  /\ CanRemoveInstance(from, i, now) /\ i \notin instanceIds[to]
  /\ instanceIds' = [instanceIds EXCEPT ![from] = @ \ {i}, ![to] = @ \cup {i}]
  /\ Called(now) /\ UNCHANGED <<totalSupply, tokenOwner, lockedHolds>>

Transfer(from, to, i, now) ==
  /\ from # to
  /\ CanRemoveInstance(from, i, now) /\ i \notin instanceIds[to]
  /\ instanceIds' = [instanceIds EXCEPT ![from] = @ \ {i}, ![to] = @ \cup {i}]
  /\ tokenOwner' = [tokenOwner EXCEPT ![i] = to]
  /\ Called(now) /\ UNCHANGED <<totalSupply, lockedHolds>>

\* burnTokens takes the instance from the balance, and leaves TokenInstance.
Burn(owner, i, now) ==
  /\ CanRemoveInstance(owner, i, now)
  /\ instanceIds' = [instanceIds EXCEPT ![owner] = @ \ {i}]
  /\ Called(now) /\ UNCHANGED <<totalSupply, tokenOwner, lockedHolds>>

\* The caller is the owner, or has a lock allowance of the owner.
Lock(by, owner, i, expires, name, authority, now) ==
  /\ expires > 0 => expires >= now
  /\ i \in instanceIds[owner]
  /\ FindLockedHold(owner, i, name, now) = {}
  /\ lockedHolds' = [lockedHolds EXCEPT ![owner] =
       UnexpiredLockedHolds(owner, now)
         \cup {[instance |-> i, expires |-> expires, name |-> name, createdBy |-> by,
                lockAuthority |-> authority]}]
  /\ Called(now) /\ UNCHANGED <<totalSupply, tokenOwner, instanceIds>>

MayUnlock(by, owner, hold) ==
  \/ by \in Authorities
  \/ by = hold.lockAuthority
  \/ hold.lockAuthority = None /\ by \in {owner, hold.createdBy}

(***************************************************************************)
(* unlockToken looks for the hold in the balance of TokenInstance.owner.   *)
(***************************************************************************)
Unlock(by, i, name, now) ==
  LET owner == tokenOwner[i]
  IN  /\ owner # None
      /\ \E hold \in FindLockedHold(owner, i, name, now) :
           /\ MayUnlock(by, owner, hold)
           /\ lockedHolds' = [lockedHolds EXCEPT ![owner] =
                UnexpiredLockedHolds(owner, now) \ FindLockedHold(owner, i, name, now)]
      /\ Called(now) /\ UNCHANGED <<totalSupply, tokenOwner, instanceIds>>

Next == \/ \E u \in Users, now \in Times : Mint(u, now)
        \/ \E i \in Instances, now \in Times :
             \/ \E from, to \in Users : Transfer(from, to, i, now)
             \/ \E owner \in Users : Burn(owner, i, now)
             \/ \E by, owner \in Users, expires \in Times \cup {0}, name \in Names,
                   authority \in Users \cup {None} : Lock(by, owner, i, expires, name, authority, now)
             \/ \E by \in Users, name \in Names : Unlock(by, i, name, now)

Spec == Init /\ [][Next]_vars

-----------------------------------------------------------------------------

\* The types of the variables.
TypeOK == /\ totalSupply \in 0 .. MaxSupply
          /\ tokenOwner \in [Instances -> Users \cup {None}]
          /\ instanceIds \in [Users -> SUBSET Instances]
          /\ lockedHolds \in [Users -> SUBSET InstanceHolds]
          /\ latest \in Times \cup {0}

(***************************************************************************)
(* The two records of where an instance is agree: it is in no balance but  *)
(* that of its TokenInstance.owner, and so in one balance at most, and an  *)
(* instance number that has not been minted is in none.                    *)
(***************************************************************************)
OwnershipAgrees ==
  /\ \A u \in Users, i \in Instances : i \in instanceIds[u] => tokenOwner[i] = u
  /\ \A i \in Instances : i > totalSupply <=> tokenOwner[i] = None

(***************************************************************************)
(* A hold of a name on an instance is the only one that has not expired,   *)
(* so that the hold whose lock authority unlockToken checks is the one it  *)
(* removes, whatever the times of the transactions.                        *)
(***************************************************************************)
HoldsAreDistinct ==
  \A u \in Users : \A g, h \in lockedHolds[u] :
    g.instance = h.instance /\ g.name = h.name => g = h

(***************************************************************************)
(* What is locked is there: from the latest transaction on, an instance    *)
(* with a hold that has not expired is in the balance that has the hold,   *)
(* whatever the times the clients gave to earlier transactions.            *)
(***************************************************************************)
LockedIsThere ==
  \A u \in Users, now \in Times : \A h \in UnexpiredLockedHolds(u, now) :
    now >= latest => h.instance \in instanceIds[u]
=============================================================================
