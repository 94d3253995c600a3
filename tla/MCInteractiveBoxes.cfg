SPECIFICATION FairTestsSpec
CONSTANTS
  Test = {t1, t2}
  Isolator <- TestIsolators
  Box = {b1, b2, b3}
  NoBox = NoBox  Free = Free  Lost = Lost
  MaxReuses = 2
  MaxCrashes = 0
  MaxFaults = 1
CHECK_DEADLOCK FALSE
INVARIANTS EnoughServed NothingKept
PROPERTY TestsEnd
