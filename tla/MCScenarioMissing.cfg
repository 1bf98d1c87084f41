CONSTANTS
  Versions <- MCVersions
  InputsOf <- MCInputsOf
SPECIFICATION Spec
CHECK_DEADLOCK FALSE
INVARIANT
  MissingNeverMatches
