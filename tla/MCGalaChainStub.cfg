SPECIFICATION Spec
CONSTANTS
  k1 = k1
  k2 = k2
  v1 = v1
  v2 = v2
  Keys <- MCKeys
  Values <- MCValues
  Ranges <- MCRanges
  NoValue = NoValue
  NoSandbox = NoSandbox
INVARIANT TypeOK
PROPERTY ImplementsView
CHECK_DEADLOCK FALSE
