SPECIFICATION FairSpec
CONSTANTS
  Items = {i1, i2}
  Contents = {c1, c2}
  NPaths = 2
  PathOf <- MCPathOf
  BodyOf <- MCBodyOf
  Hinted = {i2}
  Tries = 2
  None = None
  MaxEdits = 1
  MaxFaults = 1
  MaxScans = 1
INVARIANTS
  TypeOK
PROPERTIES
  SettledIsHeld
  ImplementsFates
  ItemsSettle
