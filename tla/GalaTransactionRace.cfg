SPECIFICATION Spec
CONSTANTS
  u1 = u1
  u2 = u2
  u3 = u3
  b1 = b1
  b2 = b2
  s1 = s1
  inc = inc
  clr = clr
  ext = ext
  t1 = t1
  t2 = t2
  t3 = t3
  t4 = t4
  Keys <- MCKeys
  Values <- MCValues
  NoValue = 0
  NoSandbox = NoSandbox
  Ops <- MCOps
  UniqueKey <- MCUniqueKey
  Slot <- MCSlot
  Clearing = {clr}
  External = {ext}
  Wrapped = {inc}
  Tx <- RaceTx
  Operations <- RaceOperations
  Batches <- RaceBatches
  BatchKey <- RaceBatchKey
  NoPartialSuccess = {t3}
  DryRuns = {t4}
  WritesLimit = 3
INVARIANTS LimitStopsBatch ExternalAtomic
PROPERTY ImplementsAtomicOperations
CHECK_DEADLOCK FALSE
