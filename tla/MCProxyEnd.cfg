SPECIFICATION Spec
CONSTANTS
  MaxOut = 1
  Bad = {}
  Action = {"STOP"}
  Wrapped = FALSE
  FaultCode = 2
  LargeStdin = {}
  RecordTranscript = FALSE
CHECK_DEADLOCK FALSE
INVARIANT EOFAfterData
