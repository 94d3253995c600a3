SPECIFICATION Spec
CONSTANTS
  MaxTests = 2
  MaxOddTests = 1
  MaxStages = 2
  MaxOddStages = 1
  MaxFiles = 2
  Layer = {"compile", "execute", "judge_compile", "test", "user_execution", "judge_execution"}
  ProxyVerdict = {"PASS", "FAULT", "PROXY_COMMUNICATION_ERROR"}
CHECK_DEADLOCK FALSE
INVARIANTS TypeOK FatalStopsRun SkippedOnlyByFatal PassNeedsExpected ReportsTellFailure OnlyNullSlipsThrough 
