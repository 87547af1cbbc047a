SPECIFICATION DepotSpec
CONSTANTS
  c1 = c1
  Cars <- OneCar
  Cap = 1
  Chain = TRUE
  HandsOff = FALSE
  Parts <- RefusalOnly
  a1 = a1
  a2 = a2
  s1 = s1
  s2 = s2
  Nobody = Nobody
  Yard <- TwoCars
  Stalls <- TwoStalls
  Tick = 3
  Dials <- EveryDial
INVARIANTS
  EnactedWhenUsed
