SPECIFICATION FairSpec
CONSTANTS
  MaxOut = 1
  Bad = {1}
  Action = {"STOP"}
  Wrapped = TRUE
  FaultCode = 2
  LargeStdin = {}
  RecordTranscript = FALSE
CHECK_DEADLOCK FALSE
INVARIANTS PassNeedsExit0 FaultNotFromCrash
PROPERTY Terminates
