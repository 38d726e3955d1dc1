CONSTANTS
  v1 = v1
  w1 = w1
  w2 = w2
  f1 = f1
  f2 = f2
  Volumes = {v1}
  Writes = {w1, w2}
  Foreign = {f1}
  Changes = {w1, w2, f1}
  Overlaps <- MCOverlaps
  MaxRecords = 0
  Secret = FALSE
  RefDeletes = TRUE
  ConfigFails = FALSE
  MaxFaults = 4
  MaxCrashes = 0
SPECIFICATION FairSpec
INVARIANT TypeOK
INVARIANT DivergedIsKnown
PROPERTY DeletedRefStaysDeleted
PROPERTY WorkIsPushed
