SPECIFICATION FairSpec
CONSTANTS
  Isolator = {i1, i2}
  Box = {b1, b2}
  NoBox = NoBox  Free = Free  Lost = Lost
  MaxReuses = 1
  MaxCrashes = 0
  MaxFaults = 0
CHECK_DEADLOCK FALSE
PROPERTY ExhaustionMeansFull
