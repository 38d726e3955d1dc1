CONSTANTS
  v1 = v1
  Volumes = {v1}
  Mounted = {v1}
  Contended = TRUE
  MaxFaults = 0
  MaxCrashes = 0
SPECIFICATION Spec
PROPERTY SweepSparesHeld
CHECK_DEADLOCK FALSE
