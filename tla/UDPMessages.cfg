SPECIFICATION FairSpec
CONSTANTS
  f1 = f1
  f2 = f2
  Flows = {f1, f2}
  Traffic <- MCTraffic
  FlowTX = 2
  PeerTX = 2
  NodeTX = 2
  FlowRX = 2
  PeerRX = 2
  NodeRX = 2
  Maximum = 2
  WindowSize = 2
  Counts = {1, 2}
INVARIANTS TypeOK Balanced AtMostOnce RetiredQuiet ChunksInOrder ClosedClean
PROPERTIES FlowCloseReturns CloseReturned
CHECK_DEADLOCK FALSE
