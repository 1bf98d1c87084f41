CONSTANTS
  Versions <- MCVersions
  InputsOf <- MCInputsOf
SPECIFICATION Spec
CHECK_DEADLOCK FALSE
INVARIANTS
  MatchIsCertain
  CompleteIsDecided
  MatchIsFound
  FailsOnlyOnData
