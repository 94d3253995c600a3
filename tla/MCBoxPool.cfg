SPECIFICATION FairSpec
CONSTANTS
  Isolator = {i1, i2}
  Box = {b1, b2}
  NoBox = NoBox  Free = Free  Lost = Lost
  MaxReuses = 2
  MaxCrashes = 1
  MaxFaults = 1
CHECK_DEADLOCK FALSE
INVARIANTS TypeOK BoxExclusive BoxPresent LeakBounded JustEnoughBoxes
PROPERTIES EnterTerminates LeaseSpec
