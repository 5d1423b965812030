SPECIFICATION FairSpec
CONSTANTS
  None = None
  MaxInstalls = 1
  MaxBoots = 4
  MaxCrashes = 0
  MaxFaults = 0
  MaxAges = 1
  MarkerBackends = {"wendyos-update", "legacy"}
INVARIANT CommittedIsTruthful
INVARIANT RolledBackIsTruthful
PROPERTY RollbackTakesEffect
CHECK_DEADLOCK FALSE
