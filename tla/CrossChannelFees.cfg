SPECIFICATION Spec
CONSTANTS
  alice = alice
  bob = bob
  bridge = bridge
  transfer = transfer
  swap = swap
  MinusInfinity = MinusInfinity
  Undefined = Undefined
  Date = Date
  Clock = Clock
  Second = Second
  Ln <- MCLn
  Users = {alice, bob}
  Codes = {bridge, transfer, swap}
  BridgeTokenOut = bridge
  None = None
  Definitions = {{alice}}
  Curators = {bob}
  BridgeAssertions <- MCBridgeAssertions
  Expiration = 1
  Times = {1, 2}
  Schedule <- MCSchedule
  CrossChannel = {bridge}
  SplitFormula <- MCSplitFormula
  Gates <- MCGates
  Limits = {{bridge}}
  Authorized = {1, 4}
  InitialBalance = 4
  PageLimits = {2}
  MaxTx = 4
INVARIANTS TypeOK CreditIsAccounted ReceiptsAgree FeesFollowSchedule GasIsPaid
PROPERTY PayerPaysReceipt
CHECK_DEADLOCK FALSE
