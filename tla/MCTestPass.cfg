SPECIFICATION FairSpec
CONSTANTS
  MaxOut = 1
  Bad = {}
  Action = {"STOP"}
  Wrapped = TRUE
  FaultCode = 3
  LargeStdin = {}
  RecordTranscript = FALSE
CHECK_DEADLOCK FALSE
INVARIANT PassIsJudgesWord
