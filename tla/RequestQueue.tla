---------------------------- MODULE RequestQueue ----------------------------
(***************************************************************************)
(* The queue of saved requests of a contract                               *)
(* (src/chaincode/src/contracts/GalaTransactionRequest.ts).  Clients save  *)
(* requests under keys that are sorted by a time the client sets; curators *)
(* submit ApplyRequests, which runs the first of those that are old enough *)
(* and removes them.                                                       *)
(*                                                                         *)
(* ApplyRequests reads the range of requests in the committed state, not in*)
(* the cache.  An endorsement is committed if the range it has read still  *)
(* has the same requests, and is dropped otherwise.                        *)
(***************************************************************************)
EXTENDS Integers, FiniteSets

CONSTANTS
  Requests,     \* numbers that stand for the rest of the key: method, tx id
  Curators,     \* the callers of ApplyRequests, each with one call at a time
  SaveTimes, ApplyTimes,
  MinDelay,     \* minDelayMs
  MaxRequests,  \* maxRequests
  Rounds,       \* calls of ApplyRequests in one batch; 1 if it is not batched
  None

ASSUME NumbersAssumption ==
  /\ Requests \subseteq Nat /\ SaveTimes \subseteq Nat /\ ApplyTimes \subseteq Nat
  /\ None \notin SaveTimes
  /\ MinDelay \in Nat /\ MaxRequests \in Nat \ {0} /\ Rounds \in Nat \ {0}

VARIABLES
  savedAt,      \* the time of each request, None before it is saved
  queued,       \* the requests in the world state
  applied,      \* how often the effects of a request were committed
  endorsement   \* what each curator's call has read and done, None without a call

queueVars == <<savedAt, queued, applied, endorsement>>

InitQueue == /\ savedAt = [r \in Requests |-> None]
        /\ queued = {}
        /\ applied = [r \in Requests |-> 0]
        /\ endorsement = [c \in Curators |-> None]

\* Every transaction, and every operation of a batch, has an id of its own.
SaveRequest(r, now) ==
  /\ savedAt[r] = None
  /\ savedAt' = [savedAt EXCEPT ![r] = now]
  /\ queued' = queued \cup {r}
  /\ UNCHANGED <<applied, endorsement>>

CutoffTime(now) == IF now > MinDelay THEN now - MinDelay ELSE 0

Before(r, s) == \/ savedAt[r] < savedAt[s]
                \/ savedAt[r] = savedAt[s] /\ r < s

\* The requests that are old enough.
ApplyRange(now) == {r \in queued : savedAt[r] <= CutoffTime(now)}

HasPendingApplyRequests(now) == ApplyRange(now) # {}

\* The first n of a set of requests, all of them if there are fewer.
FirstAndOneMore(n, requests) ==
  {first \in SUBSET requests :
     /\ Cardinality(first) = IF Cardinality(requests) <= n THEN Cardinality(requests) ELSE n + 1
     /\ \A r \in first, s \in requests \ first : Before(r, s)}

FirstOf(n, requests) ==
  {first \in SUBSET requests :
     /\ Cardinality(first) = IF Cardinality(requests) <= n THEN Cardinality(requests) ELSE n
     /\ \A r \in first, s \in requests \ first : Before(r, s)}

(***************************************************************************)
(* The loop ends when it reads the request after the last that it may      *)
(* apply, or the range ends.  The handler of a request succeeds or fails;  *)
(* what it writes is kept in the first case only.  All calls of a batch    *)
(* read the same range.                                                    *)
(***************************************************************************)
ApplySavedRequests(c, now) ==
  /\ endorsement[c] = None
  /\ HasPendingApplyRequests(now)
  /\ \E read \in FirstOf(MaxRequests + 1, ApplyRange(now)) : \E first \in FirstOf(MaxRequests, read) :
       \E succeeded \in [first -> 0 .. Rounds] :
         endorsement' = [endorsement EXCEPT ![c] =
           [cutoff |-> CutoffTime(now), ended |-> first = read, read |-> read, succeeded |-> succeeded]]
  /\ UNCHANGED <<savedAt, queued, applied>>

(***************************************************************************)
(* Fabric reads the range again, up to the key where the reading stopped.  *)
(***************************************************************************)
ValidReads(e) == e.read \subseteq queued

ValidEndorsement(e) ==
  e.read = {r \in queued : IF e.ended THEN savedAt[r] <= e.cutoff
                           ELSE \E s \in e.read : r = s \/ Before(r, s)}

\* Mutants of CommitEndorsement: requests that failed, or that succeeded, stay.
CommitKeepingFailed(c) ==
  LET e == endorsement[c]
  IN  /\ e # None /\ ValidEndorsement(e)
      /\ queued' = queued \ {r \in DOMAIN e.succeeded : e.succeeded[r] > 0}
      /\ applied' = [r \in Requests |->
           IF r \in DOMAIN e.succeeded THEN applied[r] + e.succeeded[r] ELSE applied[r]]
      /\ endorsement' = [endorsement EXCEPT ![c] = None]
      /\ UNCHANGED savedAt

CommitKeepingApplied(c) ==
  LET e == endorsement[c]
  IN  /\ e # None /\ ValidEndorsement(e)
      /\ queued' = queued \ {r \in DOMAIN e.succeeded : e.succeeded[r] = 0}
      /\ applied' = [r \in Requests |->
           IF r \in DOMAIN e.succeeded THEN applied[r] + e.succeeded[r] ELSE applied[r]]
      /\ endorsement' = [endorsement EXCEPT ![c] = None]
      /\ UNCHANGED savedAt

CommitEndorsement(c) ==
  LET e == endorsement[c]
  IN  /\ e # None /\ ValidEndorsement(e)
      /\ queued' = queued \ DOMAIN e.succeeded
      /\ applied' = [r \in Requests |->
           IF r \in DOMAIN e.succeeded THEN applied[r] + e.succeeded[r] ELSE applied[r]]
      /\ endorsement' = [endorsement EXCEPT ![c] = None]
      /\ UNCHANGED savedAt

InvalidateEndorsement(c) ==
  /\ endorsement[c] # None /\ ~ValidEndorsement(endorsement[c])
  /\ endorsement' = [endorsement EXCEPT ![c] = None]
  /\ UNCHANGED <<savedAt, queued, applied>>

NextQueue == \/ \E r \in Requests, now \in SaveTimes : SaveRequest(r, now)
        \/ \E c \in Curators : \/ \E now \in ApplyTimes : ApplySavedRequests(c, now)
                               \/ CommitEndorsement(c)
                               \/ InvalidateEndorsement(c)

(***************************************************************************)
(* A curator whom HasPendingApplyRequests tells of a request calls         *)
(* ApplyRequests some time, when the request is old enough, and Fabric     *)
(* commits or drops what was endorsed.                                     *)
(***************************************************************************)
Fairness == \A c \in Curators :
  /\ \A now \in ApplyTimes : WF_queueVars(ApplySavedRequests(c, now))
  /\ WF_queueVars(CommitEndorsement(c) \/ InvalidateEndorsement(c))

QueueSpec == InitQueue /\ [][NextQueue]_queueVars /\ Fairness

-----------------------------------------------------------------------------

Saved == {r \in Requests : savedAt[r] # None}

Endorsements == [cutoff : Nat, ended : BOOLEAN, read : SUBSET Requests,
                 succeeded : UNION {[requests -> 0 .. Rounds] : requests \in SUBSET Requests}]

\* The types of the variables; maxRequests limits what a call applies.
QueueTypeOK ==
  /\ savedAt \in [Requests -> SaveTimes \cup {None}]
  /\ queued \subseteq Saved
  /\ applied \in [Requests -> Nat]
  /\ endorsement \in [Curators -> Endorsements \cup {None}]
  /\ \A c \in Curators : endorsement[c] # None =>
       Cardinality(DOMAIN endorsement[c].succeeded) <= MaxRequests

(***************************************************************************)
(* "Apply queued internal requests" (ApplyRequests): a request takes effect*)
(* once at most, and a request that is still in the queue has had none,    *)
(* though several curators apply the same ones at the same time.           *)
(***************************************************************************)
AppliedOnce == \A r \in Requests : applied[r] <= IF r \in queued THEN 0 ELSE 1

(***************************************************************************)
(* Requests leave the queue in the order of their keys: none leaves before *)
(* one that comes first, also if that was saved while ApplyRequests ran.   *)
(***************************************************************************)
FirstComeFirstServed ==
  [][\A r \in queued \ queued' : \A s \in queued' : Before(r, s)]_queueVars

(***************************************************************************)
(* Every request leaves the queue, applied or refused: neither a request   *)
(* that fails nor curators who spoil each other's calls block it for ever. *)
(***************************************************************************)
EveryRequestServed == \A r \in Requests : r \in queued ~> r \notin queued
=============================================================================
