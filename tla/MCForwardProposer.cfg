CONSTANTS
  RollRejection = TRUE
  RollTicks = 2
SPECIFICATION Spec
INVARIANTS EveryVehicleIsAccounted OfferedIsTakeable NothingHeldIsLost CompleteIsBest
PROPERTIES RePlanKeepsItsWord
CHECK_DEADLOCK FALSE
