SPECIFICATION Spec
CONSTANTS
  Evaluations = {e1}
  Inputs <- SomeInputs
  Versions <- SomeVersions
  VersionLists <- SomeVersionLists
  Registrations <- SomeRegistrations
  Answers <- SomeAnswers
  MaxChanges = 4
INVARIANTS
  TypeOK
  OneObservationEach
  CompleteIsWhole
