SPECIFICATION FairSpec
CONSTANTS
    Classes = {"slow", "other"}
    Refused = Refused
    Means <- MCMeans
    DriverRest = 1
    Off = Off
    Unset = Unset
    Overlap = FALSE
    MaxStages = 2
    MaxChanges = 1
    MaxWrites = 1
    MaxCrashes = 1
INVARIANT TypeOK
INVARIANT NewestIsRead
INVARIANT LoopIsStaged
INVARIANT WorkIsScheduled
PROPERTY ClassComesInForce
PROPERTY WorkIsCommitted
CHECK_DEADLOCK FALSE
