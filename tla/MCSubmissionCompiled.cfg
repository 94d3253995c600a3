SPECIFICATION Spec
CONSTANTS
  MaxTests = 1
  MaxOddTests = 1
  MaxStages = 2
  MaxOddStages = 1
  MaxFiles = 2
  Layer = {"compile"}
  ProxyVerdict = {"PASS", "FAULT", "PROXY_COMMUNICATION_ERROR"}
CHECK_DEADLOCK FALSE
INVARIANT LostOnlyToSandbox
