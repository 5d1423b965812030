SPECIFICATION FairSpec
CONSTANTS
  Routers = {ro, ra, rb}
  Origin = ro
  ro = ro
  ra = ra
  rb = rb
  Links <- MCLinks
  Fragile <- MCLinks
  LinkCosts = {1}
  LocalMetrics = {0}
  FirstSeq = 65535
  MaxBumps = 1
  Faults = {"link", "timeout", "loss"}
  MaxChanges = 1
  MaxCrashes = 0
INVARIANTS TypeOK SeqDurable
PROPERTIES Recovers
CHECK_DEADLOCK FALSE
