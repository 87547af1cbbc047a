SPECIFICATION PlaySpec
CONSTANTS
  a = a
  b = b
  c = c
  Txs <- Three
  Log <- Day
  Keep = 2
  MaxConns = 4
  Cars <- Two
  Plans <- SomePlans
  NoTx = NoTx
  NoProfile = NoProfile
  Rating = 3
  CarMax = 2
  MaxNow = 3
  MaxWire = 1
INVARIANTS
  AddressedWhereItSpeaks
  BookIsKept
  StationHonoursThePlan
CHECK_DEADLOCK FALSE
