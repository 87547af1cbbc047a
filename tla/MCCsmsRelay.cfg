SPECIFICATION FairSpec
CONSTANTS
  Stations = {c1, c2}
  Foreign = Foreign
  MaxSeq = 3
  Limit = 2
  MaxFaults = 2
INVARIANTS
  IInv
PROPERTIES
  NeverSaidAgain
  SpeaksBooted
  ImplementsFeed
  EveryFrameReported
