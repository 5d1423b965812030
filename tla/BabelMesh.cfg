SPECIFICATION Spec
CONSTANTS
  Routers = {ro, ra, rb}
  Origin = ro
  ro = ro
  ra = ra
  rb = rb
  Links <- MCLine
  Fragile <- MCLine
  LinkCosts = {1}
  LocalMetrics = {0}
  FirstSeq = 65535
  MaxBumps = 0
  Faults = {"link", "cost", "origin", "expiry", "timeout", "loss", "flap"}
  MaxChanges = 2
  MaxCrashes = 1
INVARIANT NoLoop
PROPERTY ForwardsDownhill
CHECK_DEADLOCK FALSE
