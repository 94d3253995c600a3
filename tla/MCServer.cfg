SPECIFICATION Spec
CONSTANTS
  Key = {"python", "c"}
  MaxClasses = 2
  MaxRanges = 3
  Weight = {0, 1}
CHECK_DEADLOCK FALSE
INVARIANTS TypeOK RegistriesAgree LookupIsNewest SharedByRight BestAcceptable AnswersInAcceptedType
