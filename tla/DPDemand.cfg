CONSTANTS
  v1 = v1
  Volumes = {v1}
  Timed = {}
  StageSecret = {}
  PublishSecret = {}
  Private = FALSE
  AllowStale = {v1}
  DemandMin = 2
  MaxRetry = 3
  Skew = 2
  Drifts = {0, 1}
  MaxCommits = 2
  MaxTime = 4
  MaxStages = 2
  MaxRotations = 0
  MaxFaults = 1
  MaxCrashes = 1
SPECIFICATION Spec
INVARIANT TypeOK
INVARIANT NoDemandLost
INVARIANT WantedIsFollowed
