SPECIFICATION Spec
CONSTANTS
  b1 = b1
  b2 = b2
  b3 = b3
  c1 = c1
  c2 = c2
  Batches <- TwoBatches
  Source <- SourceShared
  Cars <- OneCar
  Doors <- StopOnly
  Impatient <- Everyone
  MaxTicks = 2
  MaxCalls = 1
INVARIANTS
  OnlyTheTakenIsEnacted
CHECK_DEADLOCK FALSE
