SPECIFICATION Spec
CONSTANTS
  Calls = {c1, c2, c3}
  Keys = {k1, k2}
  Fingerprints = {f1, f2}
  k1 = k1
  k2 = k2
  f1 = f1
  f2 = f2
  NoKey = NoKey
  Unserializable = Unserializable
  NoCall = NoCall
  Requests <- AllKinds
  MaxEntries = 1
  MaxHistory = 1
SYMMETRY CallSymmetry
PROPERTY
  ImplementsLedger
