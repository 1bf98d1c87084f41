SPECIFICATION Spec
CONSTANTS
  Calls = {c1, c2}
  Keys = {k1, k2}
  Payloads = {p1, p2, u1}
  Unserializable = {u1}
  k1 = k1
  k2 = k2
  p1 = p1
  p2 = p2
  u1 = u1
  u2 = u2
  NoKey = NoKey
  EmptyDigest = EmptyDigest
  Requests <- Mixed
  Contexts <- OnePlain
  RuleSets <- NoRules
  MaxEntries = 2
  MaxHistory = 2
  MaxReplacements = 0
INVARIANT
  HistoryNewestFirst
