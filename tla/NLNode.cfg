CONSTANTS
  v1 = v1
  v2 = v2
  Volumes = {v1, v2}
  Mounted = {v1, v2}
  Contended = TRUE
  MaxFaults = 1
  MaxCrashes = 1
SPECIFICATION Spec
SYMMETRY Symmetry
INVARIANT TypeOK
INVARIANT OneAtATime
INVARIANT MountedIsWatched
INVARIANT UnpublishedIsLeft
INVARIANT RepositoryServesTrees
INVARIANT WaitsEnd
CHECK_DEADLOCK FALSE
