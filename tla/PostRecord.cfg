SPECIFICATION PostSpec
CONSTANTS
  Variants = {"post_cell", "post_cell_pre0792", "engine", "forgetful"}
  Visits = {1, 2}
  Repairs = {2, 5}
  Window = 1
  Step = 2
  MaxTick = 6
INVARIANTS MonitorIsRight SupervisionIsSound
CHECK_DEADLOCK FALSE
