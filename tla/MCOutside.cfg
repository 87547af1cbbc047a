SPECIFICATION OutsideSpec
CONSTANTS
  Missing = Missing
  NotFinite = NotFinite
  Negative = Negative
  NotANumber = NotANumber
  NoEntity = NoEntity
  NoFile = NoFile
  Kernel = Kernel
  Unanswered = Unanswered
  p1 = p1
  w1 = w1
  w2 = w2
  KeyOrder <- KernelKeys
  Packs <- OnePack
  Bodies <- TwoBodies
  MaxEdits = 3
  DayMinutes = 8
  Scale = 12
  None = None
  Unread = Unread
  Malformed = Malformed
  NoStall = NoStall
  Unhashable = Unhashable
  PerKw = 2
  Firings <- TwoFirings
  Runs <- TwoRuns
  Cap = 3
  MaxCost = 2
  MaxFires = 4
  Torn = Torn
  f1 = f1
  f2 = f2
  r1 = r1
  r2 = r2
  TickMin = 3
  MoveMin = 1
  Undeclared = Undeclared
  PathPoint = PathPoint
  Null = Null
  NoneText = NoneText
  Empty = Empty
  MinSamplesForTail = 4
  Unsaid = Unsaid
INVARIANTS
  ConductorPlansWhatFired
  CorruptionNeverHides
  LearningKeepsTheSiteUp
  SolvesOnStampedDoctrine
  ComparisonIsHonest
  EveryAnswerBooks
  BillAddsUp
  DispatchIsLeast
  SizedSiteDelivers
  WorseOffIsNeverSpared
  SpendIsCapped
  ConformingPackIsFeasible
  OutsideIsReadFaithfully
  LoadResultIsOneRun
CHECK_DEADLOCK FALSE
