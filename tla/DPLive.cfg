CONSTANTS
  v1 = v1
  Volumes = {v1}
  Timed = {v1}
  StageSecret = {v1}
  PublishSecret = {v1}
  Private = TRUE
  AllowStale = {v1}
  DemandMin = 1
  MaxRetry = 2
  Skew = 1
  Drifts = {0}
  MaxCommits = 2
  MaxTime = 2
  MaxStages = 1
  MaxRotations = 1
  MaxFaults = 1
  MaxCrashes = 1
SPECIFICATION FairSpec
INVARIANT WantedIsScheduled
PROPERTY FailuresBackOff
PROPERTY DemandAnswered
