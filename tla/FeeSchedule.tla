----------------------------- MODULE FeeSchedule -----------------------------
(***************************************************************************)
(* What the fee gates compute: the fee for a user's next use of a method   *)
(* (galaFeeGate.ts), and its split into a burn and transfers               *)
(* (FeeCodeSplitFormula.ts).  Quantities are integers, in units of the     *)
(* last decimal place of the fee token.                                    *)
(***************************************************************************)
EXTENDS Integers, SequencesExt, FiniteSetsExt

CONSTANTS
  Ln(_),          \* Math.log, rounded to the unit, of a positive number
  MinusInfinity   \* Math.log(0)

RateTypes == {"CuratorDefined", "Additive", "Multiplicative", "Exponential", "Logarithmic", "Custom"}

FeeCodeDefinitions == [threshold : Nat, base : Nat, rate : Int, rateType : RateTypes]

\* The definitions of one code: the threshold is the rest of their key.
IsSchedule(schedule) ==
  /\ schedule \subseteq FeeCodeDefinitions
  /\ \A d, e \in schedule : d.threshold = e.threshold => d = e

(***************************************************************************)
(* A schedule is the set of the FeeCodeDefinitions of one fee code, each   *)
(* with its own threshold.  That with the highest threshold which the uses *)
(* have reached is billed; a Custom one is left to other code.             *)
(***************************************************************************)
Billable(schedule, uses) ==
  {d \in schedule : d.threshold <= uses /\ d.rateType # "Custom"}

AccelerateFee(d, chargeable) ==
  CASE d.rateType = "Multiplicative" -> d.base * chargeable * d.rate
    [] d.rateType = "Exponential"    -> d.base * d.rate ^ chargeable
    [] d.rateType = "Logarithmic"    ->
         IF chargeable * d.rate = 0 THEN MinusInfinity ELSE d.base + Ln(chargeable * d.rate)
    [] OTHER                         -> d.base + chargeable * d.rate   \* Additive, CuratorDefined

CalculateFeeAmount(schedule, uses) ==
  LET billable == Billable(schedule, uses)
  IN  IF billable = {} THEN 0
      ELSE LET d == CHOOSE d \in billable : \A e \in billable : e.threshold <= d.threshold
           IN  AccelerateFee(d, uses - d.threshold)

IsTransferPercentage(t) == t.percentage \in 0 .. 100

IsSplitFormula(formula) ==
  formula.burn \in 0 .. 100 /\ \A i \in DOMAIN formula.transfers : IsTransferPercentage(formula.transfers[i])

ValidPercentages(formula) ==
  formula.burn + SumFunction([i \in DOMAIN formula.transfers |-> formula.transfers[i].percentage]) = 100

\* What defineFeeSplitFormula accepts; that the code has a definition it does not ask.
Definable(formula) == IsSplitFormula(formula) /\ ValidPercentages(formula)

\* The part of a quantity for a percentage, rounded half up.
PartOf(quantity, percentage) == (2 * quantity * percentage + 100) \div 200

(***************************************************************************)
(* calculateAmounts: each transfer takes its part, and the burn gets what  *)
(* remains.  If nothing shall be burnt the last transfer gets all that     *)
(* remains - but it is not subtracted, and the burn gets it as well.       *)
(***************************************************************************)
CalculateAmountsApart(formula, quantity) ==
  [transfers |-> [i \in DOMAIN formula.transfers |->
                    [to |-> formula.transfers[i].to,
                     quantity |-> PartOf(quantity, formula.transfers[i].percentage)]],
   burn |-> PartOf(quantity, formula.burn)]

CalculateAmounts(formula, quantity) ==
  LET transfers == formula.transfers
      last(i)   == formula.burn = 0 /\ i = Len(transfers)
      Remaining(i) ==   \* before transfer i
        quantity - SumFunction([j \in 1 .. i - 1 |-> PartOf(quantity, transfers[j].percentage)])
      Amount(i) == IF last(i) THEN Remaining(i) ELSE PartOf(quantity, transfers[i].percentage)
  IN  [transfers |-> [i \in DOMAIN transfers |-> [to |-> transfers[i].to, quantity |-> Amount(i)]],
       burn |-> Remaining(IF formula.burn = 0 /\ transfers # << >> THEN Len(transfers)
                                                                   ELSE Len(transfers) + 1)]
=============================================================================
