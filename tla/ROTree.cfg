SPECIFICATION Spec
CONSTANTS
    c1 = c1
    i1 = i1
    t1 = t1
    t2 = t2
    t3 = t3
    Claims = {c1}
    Inlines = {i1}
    Targets = {t1, t2, t3}
    Owner <- MCOwner
    Entries = {1, 2, 3}
    Commits = {1, 2}
    Content <- MCContent
    Directories = {"directory"}
    Absent = "absent"
    AllowStale = {c1}
    MaxPods = 2
    MaxFaults = 1
    MaxUpsets = 1
SYMMETRY Symmetry
INVARIANT TypeOK
INVARIANT TreeIsReported
INVARIANT RunningIsFollowed
PROPERTY ReadersKeepFiles
