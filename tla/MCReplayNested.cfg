SPECIFICATION NestedSpec
CONSTANTS
  Calls = {c1, c2, c3, c4}
  Keys = {k1, k2}
  Fingerprints = {f1, f2}
  c1 = c1
  c2 = c2
  c3 = c3
  c4 = c4
  k1 = k1
  k2 = k2
  f1 = f1
  f2 = f2
  NoKey = NoKey
  Unserializable = Unserializable
  NoCall = NoCall
  Requests <- Kinds
  Replies = {"review"}
  Plans <- AllPlans
  MaxEntries = 1
  MaxHistory = 1
PROPERTIES
  StuckHasCause
  OrderedCallsReturn
  CancellationFrees
