SPECIFICATION FairSpec
CONSTANTS
  r1 = r1
  r2 = r2
  v1 = v1
  NoRun = NoRun
  Runs <- TwoRuns
  Vehicles <- OneVehicle
  Modes <- EveryMode
  Within = 1
  MaxStart = 2
  MaxSkips = 2
  Shifts <- Around
INVARIANTS
  AGivenRunsWithheldWasAnswered
PROPERTIES
  MissesNothing
  WithheldIsPlannedAgain
