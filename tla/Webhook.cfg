SPECIFICATION Spec
CONSTANTS
    r1 = r1
    r2 = r2
    Volumes = {"one", "writeable"}
    Attributes <- MCAttributes
    Requests = {r1, r2}
    Push <- MCPush
    TTL = 2
    Deadline = 1
    MaxSecrets = 2
    MaxTime = 5
    MaxFaults = 1
    MaxCrashes = 1
SYMMETRY Symmetry
INVARIANT TypeOK
INVARIANT PushStands
INVARIANT SecretIsTaken
PROPERTY MarksNearlyInOrder
CHECK_DEADLOCK FALSE
