SPECIFICATION QueueSpec
CONSTANTS
  c1 = c1
  c2 = c2
  None = None
  Requests = {1, 2, 3}
  Curators = {c1, c2}
  SaveTimes = {1, 2}
  ApplyTimes = {2, 3}
  MinDelay = 1
  MaxRequests = 1
  Rounds = 1
INVARIANTS QueueTypeOK AppliedOnce
PROPERTIES FirstComeFirstServed EveryRequestServed
CHECK_DEADLOCK FALSE
