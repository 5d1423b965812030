SPECIFICATION FairSpec
CONSTANTS
  s1 = s1
  s2 = s2
  Sessions = {s1, s2}
  IDs <- MCOne
  m1 = m1
  Chunks = 2
  Uploads = {1}
  Leechers = {s1}
  MaxInFlight = 1
  MaxPerPeer = 1
  MaxPending = 2
  MaxSuppliers = 2
  MaxBodies = 1
  PollBudget = 2
  PollChunks = 1
  MaxAsked <- MCAsked
INVARIANTS TypeOK SlotsBalance ClaimBacked
PROPERTIES ClaimKept Fetched
CHECK_DEADLOCK FALSE
