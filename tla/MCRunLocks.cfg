SPECIFICATION Spec
CONSTANTS
  b1 = b1
  b2 = b2
  b3 = b3
  c1 = c1
  c2 = c2
  Batches <- TwoBatches
  Source <- SourceOwn
  Cars <- OneCar
  Doors <- EveryDoor
  Impatient <- Everyone
  MaxTicks = 2
  MaxCalls = 1
INVARIANTS
  EnactedIsTaken
  StopNeverCrosses
PROPERTIES
  ImplementsLedger
CHECK_DEADLOCK FALSE
