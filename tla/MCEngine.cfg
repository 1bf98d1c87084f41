SPECIFICATION Spec
CONSTANTS
  Calls = {c1, c2, c3, c4}
  Keys = {k1, k2}
  Payloads = {p1, p2}
  Unserializable = {}
  k1 = k1
  k2 = k2
  p1 = p1
  p2 = p2
  u1 = u1
  u2 = u2
  NoKey = NoKey
  EmptyDigest = EmptyDigest
  Requests <- Competing
  Contexts <- SomeContexts
  RuleSets <- SomeRules
  MaxEntries = 2
  MaxHistory = 2
  MaxReplacements = 1
SYMMETRY CallSymmetry
INVARIANTS
  TypeOK
  CacheIsWindow
  ReplayIsOriginal
  ConflictExact
