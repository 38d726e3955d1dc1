CONSTANTS
  v1 = v1
  w1 = w1
  w2 = w2
  f1 = f1
  f2 = f2
  Volumes = {v1}
  Writes = {w1, w2}
  Foreign = {f1, f2}
  Changes = {w1, w2, f1, f2}
  Overlaps <- MCTwoOverlaps
  MaxRecords = 0
  Secret = TRUE
  RefDeletes = FALSE
  ConfigFails = FALSE
  MaxFaults = 2
  MaxCrashes = 1
SPECIFICATION Spec
SYMMETRY PairSymmetry
INVARIANT NoCommitLost
INVARIANT PushedIsOnRemote
INVARIANT SweptIsOnRemote
INVARIANT SideIsACopy
PROPERTY ReconcileKeepsWrites
PROPERTY ImplementsDurable
