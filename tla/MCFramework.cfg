SPECIFICATION HSpec
CONSTANTS
  Evaluations = {e1}
  Policies <- SomePolicies
  Inputs <- SomeInputs
  RuleSets <- SomeRuleSets
  Registrations <- SomeRegistrations
  HitLists <- SomeHitLists
  MaxScore = 3
  MaxChanges = 3
INVARIANTS
  TypeOK
  SnapshotCoherent
  FailureNeverAllows
  OnlyAcceptedHitsCount
  DecisionExplained
PROPERTY
  NoDowngrade
