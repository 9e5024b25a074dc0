----------------------------- MODULE FeeQueries -----------------------------
(***************************************************************************)
(* What the fetch functions of src/chaincode/src/fees return.  A composite *)
(* key is the sequence of the @ChainKey fields of an object; a query lists *)
(* the objects whose keys begin with the fields that its DTO has, page by  *)
(* page.  All objects are written in one minute: the date (year, month and *)
(* day) and the clock (hours and minutes) are one field each.              *)
(***************************************************************************)
EXTENDS Integers, SequencesExt, FiniteSetsExt

CONSTANTS
  Undefined,           \* a field of a DTO that is not given
  Date, Clock, Second  \* of the transactions

Optional(S) == S \cup {Undefined}

(***************************************************************************)
(* takeUntilUndefined: fields are given up to some point, and none after   *)
(* it.  Else the call fails.                                               *)
(***************************************************************************)
IsPartialKey(fields) ==
  \A i \in 2 .. Len(fields) : fields[i - 1] = Undefined => fields[i] = Undefined

TakeUntilUndefined(fields) ==
  SubSeq(fields, 1, Max({n \in 0 .. Len(fields) : \A i \in 1 .. n : fields[i] # Undefined}))

\* All lists of a set are in the same order.
Listed(S) == FoldSet(LAMBDA e, list : Append(list, e), << >>, S)

(***************************************************************************)
(* getObjectsByPartialCompositeKeyWithPagination: at most `limit` of the   *)
(* keys that match, from the bookmark on, and the bookmark of the next     *)
(* page.  The order of the keys is one and the same for all pages.         *)
(***************************************************************************)
Page(keys, fields, bookmark, limit) ==
  LET found == Listed({k \in keys : IsPrefix(TakeUntilUndefined(fields), k)})
      first == IF bookmark = Undefined THEN 1 ELSE CHOOSE i \in DOMAIN found : found[i] = bookmark
      next  == first + limit
  IN  [results |-> {found[i] : i \in first .. Min({next - 1, Len(found)})},
       bookmark |-> IF next <= Len(found) THEN found[next] ELSE Undefined]

\* The pages that a client gets who follows the bookmarks to the end.
Pages(keys, fields, limit) ==
  LET pages[n \in 1 .. Cardinality(keys) + 1] ==
        IF n = 1 THEN Page(keys, fields, Undefined, limit)
        ELSE LET last == pages[n - 1]
             IN  IF last.bookmark = Undefined THEN [last EXCEPT !.results = {}]
                 ELSE Page(keys, fields, last.bookmark, limit)
  IN  {pages[n].results : n \in DOMAIN pages}

AllPages(keys, fields, limit) == UNION Pages(keys, fields, limit)

\* The keys that a client picks from a page: none twice, and at least one.
ChainKeysDtos(page) == (SUBSET page) \ {{}}

\* Of any page of any of the queries.
FetchedKeys(keys, queries, limits) ==
  UNION {ChainKeysDtos(page) : page \in UNION {Pages(keys, fields, limit) :
                                                 fields \in queries, limit \in limits}}

-----------------------------------------------------------------------------
(* The fields that the fetch functions pass on, in their order.  The       *)
(* contracts pass only the fee code on to fetchFeeSchedule.                *)

FetchFeeAuthorizations(q) == <<q.user, q.date, q.clock, q.feeCode, q.tx>>
FetchFeePayments(q)       == <<q.date, q.clock, q.feeCode, q.user, q.tx>>
FetchFeeCreditReceipts(q) == <<q.date, q.clock, q.feeCode, q.user, q.tx>>
FetchFeeSchedule(q)       == <<q.feeCode, q.threshold>>
FetchFeePendingBalances(q) == <<q.owner>>
FetchFeeThresholdUsesWithPagination(q) == <<q.feeCode>>

FetchFeeScheduleDtos(codes) == [feeCode : Optional(codes), threshold : {Undefined}]

FetchFeePendingBalancesDtos(users) == [owner : Optional(users)]

FetchFeeThresholdUsesWithPaginationDtos(codes) == [feeCode : Optional(codes)]

\* FetchFeeAuthorizationsDto; the user is its authority.
FetchFeeAuthorizationsDtos(users, codes, txs) ==
  {q \in [user : Optional(users), date : Optional({Date}), clock : Optional({Clock}),
          feeCode : Optional(codes), tx : Optional(txs)] : IsPartialKey(FetchFeeAuthorizations(q))}

\* FetchFeeChannelPaymentsDto; the user is paidByUser.
FetchFeeChannelPaymentsDtos(users, codes, txs) ==
  {q \in [user : Optional(users), date : Optional({Date}), clock : Optional({Clock}),
          feeCode : Optional(codes), tx : Optional(txs)] : IsPartialKey(FetchFeePayments(q))}

\* FetchFeeCreditReceiptsDto; the user is creditToUser.
FetchFeeCreditReceiptsDtos(users, codes, txs) ==
  {q \in [user : Optional(users), date : Optional({Date}), clock : Optional({Clock}),
          feeCode : Optional(codes), tx : Optional(txs)] : IsPartialKey(FetchFeeCreditReceipts(q))}
=============================================================================
