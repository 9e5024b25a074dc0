-------------------------- MODULE CrossChannelFees --------------------------
(***************************************************************************)
(* Fees (src/chaincode/src/fees).  A fee is paid at once from the payer's  *)
(* $GALA balance, on the asset channel; or, on another channel, from a     *)
(* pending balance: the user burns $GALA on the asset channel              *)
(* (authorizeFee), an authority of the other channel credits it there      *)
(* (creditFeeBalance), the gates charge it, and what is left, as well as   *)
(* what was paid, is settled in the end.                                   *)
(*                                                                         *)
(* Each action is a transaction; `txs` counts those whose id is part of a  *)
(* key they write, and the definitions of the oracle.                      *)
(***************************************************************************)
EXTENDS FeeSchedule, FeeQueries, Oracle

CONSTANTS
  Codes,        \* fee codes
  Schedule,     \* [Codes -> schedules]
  CrossChannel, \* the codes whose fees are paid from a pending balance
  BridgeTokenOut, \* the code of a request to bridge a token out
  SplitFormula, \* [Codes -> formulas]: of no formula, all is burnt
  Gates,        \* sequences of codes: galaFeeGate calls of one method
  Limits,       \* of exemptions: sets of codes
  Authorized,   \* quantities of fee authorizations
  InitialBalance,
  PageLimits,   \* of the objects of a page
  MaxTx         \* bound of the model: transactions

ASSUME FeesAssumption ==
  /\ \A code \in Codes :
       /\ IsSchedule(Schedule[code]) /\ Definable(SplitFormula[code])
       /\ SplitFormula[code].transfers \in Seq([to : Users, percentage : Int])
  /\ CrossChannel \subseteq Codes /\ BridgeTokenOut \in Codes
  /\ Gates \subseteq Seq(Codes)
  /\ Limits \subseteq SUBSET Codes
  /\ Authorized \subseteq Nat
  /\ InitialBalance \in Nat /\ MaxTx \in Nat
  /\ PageLimits \subseteq Nat \ {0}

VARIABLES
  balance,          \* of $GALA, on the asset channel
  authorizations,   \* the FeeAuthorizations on the asset channel
  credited,         \* those that have been credited, known to the authority only
  pending,          \* the FeePendingBalances, by user
  uses,             \* the FeeThresholdUses, by code and user
  exemptions,       \* the codes that FeeExemption relieves each user of
  channelReceipts,  \* FeeChannelPaymentReceipts
  userReceipts,     \* FeeUserPaymentReceipts
  creditReceipts,   \* FeeBalanceCreditReceipts
  txs

vars == <<balance, authorizations, credited, pending, uses, exemptions,
          channelReceipts, userReceipts, creditReceipts, txs, oracleVars>>

feeVars == <<balance, authorizations, credited, pending, uses, exemptions,
             channelReceipts, userReceipts, creditReceipts>>

DefinitionKeys      == UNION {{<<code, d.threshold>> : d \in Schedule[code]} : code \in Codes}
AuthorizationKey(a) == <<a.authority, Date, a.tx>>
ChannelKey(r)       == <<Date, r.code, r.user, r.tx>>
UserKey(r)          == <<r.user, Date, r.tx>>
CreditKey(r)        == <<Date, Clock, Second, r.user, r.tx>>

\* A put takes the place of what is there under the same key.
Put(f, k, v) == [j \in DOMAIN f \cup {k} |-> IF j = k THEN v ELSE f[j]]

PutChannelReceipt(receipts, r) == {s \in receipts : ChannelKey(s) # ChannelKey(r)} \cup {r}
PutUserReceipt(receipts, r)    == {s \in receipts : UserKey(s) # UserKey(r)} \cup {r}

Init == /\ balance = [u \in Users |-> InitialBalance]
        /\ authorizations = {}
        /\ credited = {}
        /\ pending = << >>
        /\ uses = << >>
        /\ exemptions = [u \in Users |-> {}]
        /\ channelReceipts = {}
        /\ userReceipts = {}
        /\ creditReceipts = {}
        /\ txs = 0
        /\ InitOracle

\* The quantity of a FeePendingBalance, 0 if there is none.
Pending(u) == IF u \in DOMAIN pending THEN pending[u] ELSE 0

\* The FeeThresholdUses that are there, else without any use and fee.
FetchFeeThresholdUses(stored, code, user) ==
  IF <<code, user>> \in DOMAIN stored THEN stored[<<code, user>>] ELSE [uses |-> 0, fees |-> 0]

NextTx == txs + 1 <= MaxTx /\ txs' = txs + 1

-----------------------------------------------------------------------------
(* The two phases of a cross-channel authorization. *)

AuthorizeFee(u, q) ==
  /\ NextTx
  /\ balance[u] >= q
  /\ balance' = [balance EXCEPT ![u] = @ - q]
  /\ authorizations' = authorizations \cup {[authority |-> u, tx |-> txs', quantity |-> q]}
  /\ UNCHANGED <<credited, pending, uses, exemptions, channelReceipts, userReceipts, creditReceipts>>

CreditFeeBalanceAnew(a) ==
  /\ a \in authorizations \ credited
  /\ credited' = credited \cup {a}
  /\ pending' = Put(pending, a.authority, a.quantity)
  /\ UNCHANGED <<balance, authorizations, uses, exemptions, channelReceipts, userReceipts,
                 creditReceipts, txs>>

(***************************************************************************)
(* The chaincode of the other channel cannot see the authorizations, nor   *)
(* which of them it was called for: it is up to the authority, which signs *)
(* the call, to credit each once.                                          *)
(***************************************************************************)
CreditFeeBalance(a) ==
  /\ a \in authorizations \ credited
  /\ credited' = credited \cup {a}
  /\ pending' = Put(pending, a.authority, Pending(a.authority) + a.quantity)
  /\ UNCHANGED <<balance, authorizations, uses, exemptions, channelReceipts, userReceipts,
                 creditReceipts, txs>>

-----------------------------------------------------------------------------
(* The gates.  `s` is what the transaction has done so far, or Refused.    *)

Refused == [ok |-> FALSE]

WriteReceipts(s, payer, code, fee, status) ==
  [s EXCEPT !.channel = PutChannelReceipt(@, [code |-> code, user |-> payer, tx |-> txs + 1,
                                              quantity |-> fee, status |-> status]),
            !.user = PutUserReceipt(@, [user |-> payer, tx |-> txs + 1,
                                        quantity |-> fee, status |-> status])]

PayFromAnyPendingBalance(s, payer, code, fee) ==
  IF payer \notin DOMAIN s.pending THEN Refused
  ELSE WriteReceipts([s EXCEPT !.pending[payer] = @ - fee], payer, code, fee, "Open")

PayFeeFromCrossChannelAuthorization(s, payer, code, fee) ==
  IF payer \notin DOMAIN s.pending THEN Refused
  ELSE IF fee > s.pending[payer] THEN Refused
  ELSE WriteReceipts([s EXCEPT !.pending[payer] = @ - fee], payer, code, fee, "Open")

Burn(s, from, q) ==
  IF ~s.ok \/ q < 0 THEN Refused
  ELSE IF s.balance[from] < q THEN Refused ELSE [s EXCEPT !.balance[from] = @ - q]

Transfer(s, from, to, q) ==
  IF ~s.ok \/ from = to THEN Refused
  ELSE IF s.balance[from] < q THEN Refused
       ELSE [s EXCEPT !.balance[from] = @ - q, !.balance[to] = @ + q]

\* The properties of the fee token are defined: without them nothing is charged.
PayFeeImmediatelyFromBalance(s, payer, code, fee) ==
  LET amounts == CalculateAmounts(SplitFormula[code], fee)
      paid    == FoldLeft(LAMBDA acc, t : Transfer(acc, payer, t.to, t.quantity),
                          Burn(s, payer, amounts.burn), amounts.transfers)
  IN  IF paid.ok THEN WriteReceipts(paid, payer, code, fee, "Settled") ELSE Refused

(***************************************************************************)
(* writeUsageAndCalculateFeeAmount.  FeeThresholdUses with fees that are   *)
(* negative, minus infinity included, is not valid and cannot be put.      *)
(***************************************************************************)
NextUse(s, active, code) == FetchFeeThresholdUses(s.uses, code, active).uses + 1

UsageFee(s, active, code) == CalculateFeeAmount(Schedule[code], NextUse(s, active, code))

Recordable(fees, fee) == fee # MinusInfinity /\ fees + fee >= 0

WriteUsage(s, active, code) ==
  LET fee  == UsageFee(s, active, code)
      fees == FetchFeeThresholdUses(s.uses, code, active).fees
  IN  IF ~Recordable(fees, fee) THEN Refused
      ELSE [s EXCEPT !.uses = Put(@, <<code, active>>, [uses |-> NextUse(s, active, code),
                                                        fees |-> fees + fee])]

Charge(s, payer, code, fee) ==
  IF ~s.ok THEN Refused
  ELSE IF fee <= 0 THEN s
  ELSE IF code \in CrossChannel THEN PayFeeFromCrossChannelAuthorization(s, payer, code, fee)
  ELSE PayFeeImmediatelyFromBalance(s, payer, code, fee)

UserExemptFromFees(user, code) == code \in exemptions[user]

\* The uses and the exemption are those of the active user, the payer is the caller.
GalaFeeGate(s, caller, active, code) ==
  IF ~s.ok THEN Refused
  ELSE IF UserExemptFromFees(active, code) THEN s
  ELSE Charge(WriteUsage(s, active, code), caller, code, UsageFee(s, active, code))

BeforeGate == [ok |-> TRUE, balance |-> balance, pending |-> pending, uses |-> uses,
               channel |-> channelReceipts, user |-> userReceipts]

AfterGate(after) ==
  /\ NextTx
  /\ after.ok
  /\ balance' = after.balance
  /\ pending' = after.pending
  /\ uses' = after.uses
  /\ channelReceipts' = after.channel
  /\ userReceipts' = after.user
  /\ UNCHANGED <<authorizations, credited, exemptions, creditReceipts>>

FeeGate(caller, active, gate) ==
  /\ AfterGate(FoldLeft(LAMBDA s, code : GalaFeeGate(s, caller, active, code), BeforeGate, gate))
  /\ UNCHANGED oracleVars

(***************************************************************************)
(* requestTokenBridgeOutFeeGate, of a chain that has such fees: without an *)
(* oracle it is a gate like the others.  The gas that an assertion         *)
(* estimates is multiplied by the rate of the highest Custom definition    *)
(* that the uses have reached, and charged with the fee for the use,       *)
(* exempt or not.                                                          *)
(***************************************************************************)
Padding(uses_) ==
  LET custom == {d \in Schedule[BridgeTokenOut] : d.rateType = "Custom" /\ d.threshold <= uses_}
  IN  IF custom = {} THEN 1
      ELSE (CHOOSE d \in custom : \A e \in custom : e.threshold <= d.threshold).rate

UsageGasFee(s, caller, a) ==
  LET fee == UsageFee(s, caller, BridgeTokenOut) IN IF fee > 0 THEN fee + a.gas ELSE 0

GasFee(s, caller, a) ==
  UsageFee(s, caller, BridgeTokenOut) + a.gas * Padding(NextUse(s, caller, BridgeTokenOut))

BridgeOut(caller, a, now) ==
  /\ authorities # None
  /\ IsValidAssertion(a, now)
  /\ LET written == WriteUsage(BeforeGate, caller, BridgeTokenOut)
     IN  AfterGate(Charge(written, caller, BridgeTokenOut, GasFee(BeforeGate, caller, a)))
  /\ PutBridgeFee(a, txs')
  /\ UNCHANGED <<authorities, prices>>

RequestTokenBridgeOut(caller, a, now) ==
  \/ authorities = None /\ FeeGate(caller, caller, <<BridgeTokenOut>>)
  \/ BridgeOut(caller, a, now)

-----------------------------------------------------------------------------
(* Exemptions and resets, by the authorities of the channel. *)

AuthorizeExemptionForUser(u, limit) ==
  /\ exemptions' = [exemptions EXCEPT ![u] = limit]
  /\ UNCHANGED <<balance, authorizations, credited, pending, uses, channelReceipts, userReceipts,
                 creditReceipts, txs>>

RevokeExemptionForUser(u) ==
  /\ exemptions[u] # {}
  /\ exemptions' = [exemptions EXCEPT ![u] = {}]
  /\ UNCHANGED <<balance, authorizations, credited, pending, uses, channelReceipts, userReceipts,
                 creditReceipts, txs>>

ResetUses(keys) ==
  /\ keys \subseteq DOMAIN uses
  /\ uses' = [k \in DOMAIN uses |-> IF k \in keys THEN [uses[k] EXCEPT !.uses = 0] ELSE uses[k]]
  /\ UNCHANGED <<balance, authorizations, credited, pending, exemptions, channelReceipts,
                 userReceipts, creditReceipts, txs>>

ResetFeeThresholdUses(keys) ==
  /\ keys \subseteq DOMAIN uses
  /\ uses' = [k \in DOMAIN uses |-> IF k \in keys THEN [uses |-> 0, fees |-> 0] ELSE uses[k]]
  /\ UNCHANGED <<balance, authorizations, credited, pending, exemptions, channelReceipts,
                 userReceipts, creditReceipts, txs>>

-----------------------------------------------------------------------------
(* Settlement, by the authorities of the channel. *)

(***************************************************************************)
(* A receipt is written for what is unspent.  The balance is set to zero   *)
(* in memory and in the response, and is not put.                          *)
(***************************************************************************)
FeeBalanceSettlement(u) ==
  [balance |-> [owner |-> u, quantity |-> 0],
   receipt |-> IF pending[u] = 0 THEN Undefined
               ELSE [user |-> u, tx |-> txs', quantity |-> pending[u], status |-> "Open"]]

SettleFeeBalancesResponse(keys) == {FeeBalanceSettlement(u) : u \in {k[1] : k \in keys}}

SettleFeeBalances(keys) ==
  /\ NextTx
  /\ creditReceipts' = creditReceipts \cup
       ({s.receipt : s \in SettleFeeBalancesResponse(keys)} \ {Undefined})
  /\ UNCHANGED <<balance, authorizations, credited, pending, uses, exemptions, channelReceipts,
                 userReceipts>>

Settled(r) == [r EXCEPT !.status = "Settled"]

SettleFeeCreditReceipts(keys) ==
  LET rs == {r \in creditReceipts : CreditKey(r) \in keys}
  IN  /\ creditReceipts' = (creditReceipts \ rs) \cup {Settled(r) : r \in rs}
      /\ UNCHANGED <<balance, authorizations, credited, pending, uses, exemptions, channelReceipts,
                     userReceipts, txs>>

SettleChannelReceipts(keys) ==
  LET rs == {r \in channelReceipts : ChannelKey(r) \in keys}
  IN  /\ channelReceipts' = (channelReceipts \ rs) \cup {Settled(r) : r \in rs}
      /\ UNCHANGED <<balance, authorizations, credited, pending, uses, exemptions, userReceipts,
                     creditReceipts, txs>>

\* getObjectsByKeys: the receipts of users must all be there.
SettleFeePaymentReceipts(keys) ==
  LET rs       == {r \in channelReceipts : ChannelKey(r) \in keys}
      userKeys == {UserKey(r) : r \in rs}
      mine     == {r \in userReceipts : UserKey(r) \in userKeys}
  IN  /\ {UserKey(r) : r \in mine} = userKeys
      /\ channelReceipts' = (channelReceipts \ rs) \cup {Settled(r) : r \in rs}
      /\ userReceipts' = (userReceipts \ mine) \cup {Settled(r) : r \in mine}
      /\ UNCHANGED <<balance, authorizations, credited, pending, uses, exemptions,
                     creditReceipts, txs>>

-----------------------------------------------------------------------------
(* What the methods are called with. *)

FeeAuthorizationDtos == [authority : Users, quantity : Authorized]

FeeExemptionDtos == [user : Users, limitTo : Limits]

\* The authorities of the channel credit what is authorized on the asset channel.
FeeVerificationDtos == authorizations

(***************************************************************************)
(* The authorities act on the keys of a page that they have fetched.       *)
(***************************************************************************)
PendingBalanceKeys ==
  FetchedKeys({<<u>> : u \in DOMAIN pending},
              {FetchFeePendingBalances(q) : q \in FetchFeePendingBalancesDtos(Users)}, PageLimits)

ThresholdUsesKeys ==
  FetchedKeys(DOMAIN uses, {FetchFeeThresholdUsesWithPagination(q) :
                              q \in FetchFeeThresholdUsesWithPaginationDtos(Codes)}, PageLimits)

\* What is asked of receipts is at most their date and time.
CreditReceiptQueries == {FetchFeeCreditReceipts(q) : q \in FetchFeeCreditReceiptsDtos({}, {}, {})}

ChannelReceiptQueries == {FetchFeePayments(q) : q \in FetchFeeChannelPaymentsDtos({}, {}, {})}

CreditReceiptKeys ==
  FetchedKeys({CreditKey(r) : r \in creditReceipts}, CreditReceiptQueries, PageLimits)

ChannelReceiptKeys ==
  FetchedKeys({ChannelKey(r) : r \in channelReceipts}, ChannelReceiptQueries, PageLimits)

NextFees ==
  \/ \E dto \in FeeAuthorizationDtos : AuthorizeFee(dto.authority, dto.quantity)
  \/ \E dto \in FeeExemptionDtos : AuthorizeExemptionForUser(dto.user, dto.limitTo)
  \/ \E u \in Users : RevokeExemptionForUser(u)
  \/ \E dto \in FeeVerificationDtos : CreditFeeBalance(dto)
  \/ \E keys \in ThresholdUsesKeys : ResetFeeThresholdUses(keys)
  \/ \E keys \in PendingBalanceKeys : SettleFeeBalances(keys)
  \/ \E keys \in CreditReceiptKeys : SettleFeeCreditReceipts(keys)
  \/ \E keys \in ChannelReceiptKeys : SettleFeePaymentReceipts(keys)

NextOracle ==
  \/ \E by \in Users, dto \in OracleDefinitionDtos :
       NextTx /\ SaveOracleDefinition(by, dto.authorities)
  \/ \E by \in Users : DeleteOracleDefinition(by) /\ UNCHANGED txs
  \/ \E dto \in OraclePriceAssertionDtos : NextTx /\ SaveOraclePriceAssertion(dto.identity, txs')
  \/ \E assertions \in DeleteOracleAssertionsDtos :
       DeleteOraclePriceAssertions(assertions) /\ UNCHANGED txs

Next ==
  \/ NextFees /\ UNCHANGED oracleVars
  \/ NextOracle /\ UNCHANGED feeVars
  \/ \E caller, active \in Users, gate \in Gates : FeeGate(caller, active, gate)
  \/ \E caller \in Users, a \in BridgeAssertions, now \in Times : RequestTokenBridgeOut(caller, a, now)

Spec == Init /\ [][Next]_vars

-----------------------------------------------------------------------------

ReceiptsOf(tx) == [user : Users, tx : tx, quantity : Nat, status : {"Open", "Settled"}]

ChannelReceiptsOf(tx) ==
  [code : Codes, user : Users, tx : tx, quantity : Nat, status : {"Open", "Settled"}]

\* The types of the variables.
TypeOK ==
  /\ balance \in [Users -> Nat]
  /\ DOMAIN pending \subseteq Users /\ \A u \in DOMAIN pending : pending[u] \in Nat
  /\ authorizations \subseteq [authority : Users, tx : 1 .. txs, quantity : Authorized]
  /\ credited \subseteq authorizations
  /\ DOMAIN uses \subseteq Codes \X Users
  /\ \A k \in DOMAIN uses : uses[k] \in [uses : Nat, fees : Nat]
  /\ exemptions \in [Users -> Limits \cup {{}}]
  /\ userReceipts \cup creditReceipts \subseteq ReceiptsOf(1 .. txs)
  /\ channelReceipts \subseteq ChannelReceiptsOf(1 .. txs)
  /\ txs \in 0 .. MaxTx
  /\ OracleTypeOK

Total(records) == SumFunction([r \in records |-> r.quantity])

PaidReceipts(u) == {r \in channelReceipts : r.user = u /\ r.code \in CrossChannel}

(***************************************************************************)
(* What a user burnt on the asset channel and was credited is pending, or  *)
(* the channel's receipts say for what it was paid, whatever was settled,  *)
(* reset or exempted in between.                                           *)
(***************************************************************************)
CreditIsAccounted ==
  \A u \in Users :
    Pending(u) + Total(PaidReceipts(u)) = Total({a \in credited : a.authority = u})

(***************************************************************************)
(* "Zero out any positive balances and write FeeBalanceCreditReceipt       *)
(* entries" (settleFeeBalances): what a user burnt and was credited is     *)
(* pending, was paid, or is due to be credited back - once.                *)
(***************************************************************************)
UnspentIsCreditedOnce ==
  \A u \in Users :
    Pending(u) + Total(PaidReceipts(u)) + Total({r \in creditReceipts : r.user = u})
      = Total({a \in credited : a.authority = u})

(***************************************************************************)
(* "channel payment receipt and user payment receipts have the same data,  *)
(* just ordered differently" (payFeeFromCrossChannelAuthorization).        *)
(***************************************************************************)
ReceiptsAgree ==
  userReceipts = {[user |-> r.user, tx |-> r.tx, quantity |-> r.quantity, status |-> r.status] :
                    r \in channelReceipts}

(***************************************************************************)
(* The fees that fetchFeeThresholdUses reports of a user are those of the  *)
(* schedule that fetchFeeSchedule reports, in pages of any size, for each  *)
(* of the reported uses: whoever paid them, and whichever uses were exempt *)
(* or forgotten.                                                           *)
(***************************************************************************)
FetchedSchedule ==
  [code \in Codes |-> [limit \in PageLimits |->
     LET keys == UNION {AllPages(DefinitionKeys, FetchFeeSchedule(q), limit) :
                          q \in FetchFeeScheduleDtos({code})}
     IN  {d \in Schedule[code] : <<code, d.threshold>> \in keys}]]

FeesFollowSchedule ==
  \A code \in Codes, user \in Users, limit \in PageLimits :
    LET fetched == FetchFeeThresholdUses(uses, code, user)
        Fee(n)  == CalculateFeeAmount(FetchedSchedule[code][limit], n)
    IN  fetched.fees = SumFunction([n \in 1 .. fetched.uses |-> Fee(n)])

(***************************************************************************)
(* A payment from the balance costs the payer the quantity that the        *)
(* receipts state: "avoid roundings errors from multiplication"            *)
(* (FeeCodeSplitFormula.calculateAmounts).                                 *)
(***************************************************************************)
PayerPaysReceipt ==
  [][\A u \in Users :
       LET new == {r \in channelReceipts' : r.user = u /\ r.tx > txs /\ r.code \notin CrossChannel}
       IN  new # {} => balance[u] - balance'[u] = Total(new)]_vars

(***************************************************************************)
(* A bridge request that was let through by an assertion has paid the gas  *)
(* that it estimates (requestTokenBridgeOutFeeGate), whatever the fee for  *)
(* the use is, however often the assertion has served, and whatever became *)
(* of the receipt and of the oracle since.                                 *)
(***************************************************************************)
GasIsPaid ==
  \A b \in bridgeFees : b.gas > 0 =>
    \E r \in channelReceipts :
      r.tx = b.tx /\ r.code = BridgeTokenOut /\ r.quantity >= b.gas

(***************************************************************************)
(* "feeCode identifier for which this fee was paid. Chain key used for     *)
(* specific querying" (FetchFeeChannelPaymentsDto): the fields that a      *)
(* client gives, in the order in which the DTO has them, select the        *)
(* objects that have these fields, whatever the size of the pages.         *)
(***************************************************************************)
FieldsSelect ==
  LET Agrees(q, user, codes, tx) ==
        q.user \in Optional({user}) /\ q.feeCode \in Optional(codes) /\ q.tx \in Optional({tx})
      Found(objects, Key(_), fields, limit) ==
        {o \in objects : Key(o) \in AllPages({Key(p) : p \in objects}, fields, limit)}
      Tx == 1 .. MaxTx
  IN  \A limit \in PageLimits :
        /\ \A q \in FetchFeeAuthorizationsDtos(Users, Codes, Tx) :
             Found(authorizations, AuthorizationKey, FetchFeeAuthorizations(q), limit)
               = {a \in authorizations : Agrees(q, a.authority, Codes, a.tx)}
        /\ \A q \in FetchFeeChannelPaymentsDtos(Users, Codes, Tx) :
             Found(channelReceipts, ChannelKey, FetchFeePayments(q), limit)
               = {r \in channelReceipts : Agrees(q, r.user, {r.code}, r.tx)}
        /\ \A q \in FetchFeeCreditReceiptsDtos(Users, Codes, Tx) :
             Found(creditReceipts, CreditKey, FetchFeeCreditReceipts(q), limit)
               = {r \in creditReceipts : Agrees(q, r.user, Codes, r.tx)}
=============================================================================
