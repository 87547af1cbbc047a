SPECIFICATION Spec
CONSTANTS
  r1 = r1
  r2 = r2
  v1 = v1
  NoRun = NoRun
  Runs <- TwoRuns
  Vehicles <- OneVehicle
  Modes <- AutoOverTwo
  Within = 1
  MaxStart = 3
  MaxSkips = 2
  Shifts <- Around
INVARIANTS
  WithheldWasAnswered
