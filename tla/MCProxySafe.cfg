SPECIFICATION Spec
CONSTANTS
  MaxOut = 2
  Bad = {1}
  Action = {"STOP", "WARN"}
  Wrapped = FALSE
  FaultCode = 2
  LargeStdin = {"user"}
  RecordTranscript = TRUE
CHECK_DEADLOCK FALSE
INVARIANTS TypeOK PrefixFed SignalsHaveCause StoppedAtViolation EOFAfterEnd NoOrphans TranscriptFaithful ViolationShown
