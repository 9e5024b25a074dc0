SPECIFICATION UserSpec
CONSTANTS
  admin = admin
  k1 = k1
  k2 = k2
  root = root
  shared = shared
  KeyPairs = {admin, k1, k2}
  ClientNames = {root, shared}
  Absent = Absent
  AdminKey = admin
  AdminName = root
  Named = {root}
  MaxSigners = 3
INVARIANTS UserTypeOK QuorumIsReachable OneKeyPerUser
PROPERTIES OldKeysStayOld SignersKeepControl
SYMMETRY Symmetry
CHECK_DEADLOCK FALSE
