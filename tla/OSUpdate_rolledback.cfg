SPECIFICATION Spec
CONSTANTS
  None = None
  MaxInstalls = 2
  MaxBoots = 4
  MaxCrashes = 1
  MaxFaults = 0
  MaxAges = 1
  MarkerBackends = {"wendyos-update"}
INVARIANT RolledBackIsTruthful
CHECK_DEADLOCK FALSE
