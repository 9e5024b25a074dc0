------------------------- MODULE MCCrossChannelFees -------------------------
(***************************************************************************)
(* Instances of CrossChannelFees for TLC: a fee that is paid from a        *)
(* pending balance and grows with the uses, and two that are paid at once  *)
(* and split, one of which cannot be recorded from a certain use on.       *)
(***************************************************************************)
EXTENDS CrossChannelFees

CONSTANTS alice, bob, bridge, transfer, swap

Definition(threshold, base, rate, rateType) ==
  [threshold |-> threshold, base |-> base, rate |-> rate, rateType |-> rateType]

MCSchedule == [c \in {bridge, transfer, swap} |->
  CASE c = bridge   -> {Definition(1, 0, 1, "CuratorDefined"), Definition(3, 1, 2, "Exponential"),
                        Definition(2, 9, 2, "Custom")}
    [] c = transfer -> {Definition(1, 3, 0, "Additive")}
    [] c = swap     -> {Definition(0, 1, 1, "Logarithmic"), Definition(2, 1, 1, "Logarithmic")}]

MCSplitFormula == [c \in {bridge, transfer, swap} |->
  [burn |-> 50, transfers |-> << [to |-> bob, percentage |-> 50] >>]]

MCGates == {<<bridge>>, <<transfer>>, <<swap>>}

\* One of gas by an authority, one of none that expires, and whose signer names another.
MCBridgeAssertions ==
  {[signer |-> alice, signingIdentity |-> alice, timestamp |-> 2, gas |-> 1],
   [signer |-> bob, signingIdentity |-> alice, timestamp |-> 1, gas |-> 0]}

\* Only the logarithm of 1 occurs.
MCLn(n) == 0
=============================================================================
