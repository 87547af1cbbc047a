SPECIFICATION FairSpec
CONSTANTS
  b1 = b1
  b2 = b2
  b3 = b3
  c1 = c1
  c2 = c2
  Batches <- TwoBatches
  Source <- SourceOwn
  Cars <- TwoCars
  Doors <- StopAndPause
  Impatient <- TheBatches
  MaxTicks = 2
  MaxCalls = 1
PROPERTIES
  StopEnds
CHECK_DEADLOCK FALSE
