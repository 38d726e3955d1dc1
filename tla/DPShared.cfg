CONSTANTS
  v1 = v1
  v2 = v2
  Volumes = {v1, v2}
  Timed = {v1, v2}
  StageSecret = {}
  PublishSecret = {}
  Private = FALSE
  AllowStale = {}
  DemandMin = 0
  MaxRetry = 2
  Skew = 1
  Drifts = {0}
  MaxCommits = 2
  MaxTime = 2
  MaxStages = 1
  MaxRotations = 0
  MaxFaults = 1
  MaxCrashes = 0
SPECIFICATION Spec
SYMMETRY Symmetry
INVARIANT NoDemandLost
INVARIANT WantedIsScheduled
