SPECIFICATION Spec
CONSTANTS
  None = None
  MaxInstalls = 2
  MaxBoots = 4
  MaxCrashes = 2
  MaxFaults = 2
  MaxAges = 1
  MarkerBackends = {"wendyos-update", "legacy"}
INVARIANT TypeOK
PROPERTY StagedNotCommitted
PROPERTY RevertOnlyOnError
CHECK_DEADLOCK FALSE
