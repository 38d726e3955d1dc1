CONSTANTS
  v1 = v1
  v2 = v2
  w1 = w1
  w2 = w2
  f1 = f1
  f2 = f2
  Volumes = {v1, v2}
  Writes = {w1, w2}
  Foreign = {}
  Changes = {w1, w2}
  Overlaps <- MCPodOverlaps
  MaxRecords = 1
  Secret = FALSE
  RefDeletes = FALSE
  ConfigFails = TRUE
  MaxFaults = 1
  MaxCrashes = 0
SPECIFICATION Spec
SYMMETRY Symmetry
INVARIANT NoCommitLost
INVARIANT PushedIsOnRemote
