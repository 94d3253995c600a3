SPECIFICATION Spec
CONSTANTS
  Byte = {"letter", "forbidden", "newline", "lead", "trail"}
  MaxStream = 6
  LineLimit = {0, 2}
  TotalLimit = {0, 4}
CHECK_DEADLOCK FALSE
INVARIANTS TypeOK JudgeGetsCleanPrefix Detected  LongLineNoticed
