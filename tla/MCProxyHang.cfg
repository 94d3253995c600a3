SPECIFICATION FairSpec
CONSTANTS
  MaxOut = 1
  Bad = {}
  Action = {"STOP"}
  Wrapped = TRUE
  FaultCode = 2
  LargeStdin = {"user"}
  RecordTranscript = FALSE
CHECK_DEADLOCK FALSE
PROPERTY Terminates
