SPECIFICATION Spec
CONSTANTS
  Writers = {w1, w2}
  KeepDebug = 1
  MaxRows = 4
  MaxEvents = 5
  MaxFaults = 1
SYMMETRY WriterSymmetry
INVARIANTS
  TypeOK
  EventsCounted
  StormIsBounded
  ErrorsOnBadge
  BadgeMissesFew
