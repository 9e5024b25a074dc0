--------------------------- MODULE RunningSupply ----------------------------
(***************************************************************************)
(* The running totals that the high-throughput methods keep in ranged      *)
(* entries: mint requests, mint allowance requests and burn counters of    *)
(* one token class.  An entry has its time, its user, its quantity and     *)
(* `known`, the total that its writer read; its chain key is the inverted  *)
(* time and the user, so that a range is read most recent first.           *)
(***************************************************************************)
EXTENDS Integers, Sequences, Functions, FiniteSetsExt

CONSTANTS
  Lookback,   \* lookbackTimeOffset: two block timeouts
  LookbackTx, \* lookbackTxCount: how many entries a reader takes
  Rank        \* of each user: where its name lies among the keys of one time

ASSUME LookbackAssumption == Lookback \in Nat \ {0} /\ LookbackTx \in Nat \ {0}

EntryQuantity(entries) == SumFunction([e \in entries |-> e.quantity])

Before(e, f) == e.time < f.time \/ (e.time = f.time /\ Rank[e.user] < Rank[f.user])

OldestFirst(entries) ==
  CHOOSE s \in [1 .. Cardinality(entries) -> entries] :
    \A i, j \in DOMAIN s : i < j => Before(s[i], s[j])

\* The entry of the same chain key, if there is one, is written over.
PutRanged(entries, entry) ==
  {e \in entries : <<e.time, e.user>> # <<entry.time, entry.user>>} \cup {entry}

\* getStateByRange between two times.
InRange(entries, oldest, mostRecent) == {e \in entries : e.time \in oldest .. mostRecent}

(***************************************************************************)
(* fetchMintSupply, fetchMintAllowanceSupply and fetchKnownBurnCount: of   *)
(* the entries up to a time take the most recent ones, the oldest of them  *)
(* with the total it knows as the base line, and add the quantities.       *)
(***************************************************************************)
KnownSupply(entries, upTo) ==
  LET range == OldestFirst({e \in entries : e.time <= upTo})
      read  == SubSeq(range, Max({1, Len(range) - LookbackTx + 1}), Len(range))
  IN  IF read = << >> THEN 0
      ELSE read[1].known + EntryQuantity({read[i] : i \in DOMAIN read})

(***************************************************************************)
(* What was known before an entry that is being fulfilled: the base line   *)
(* and the quantities of the entries before it in the range.               *)
(***************************************************************************)
RunningTotal(range, baseline, entry) ==
  baseline + EntryQuantity({e \in range : Before(e, entry)})
=============================================================================
