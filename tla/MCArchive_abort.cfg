SPECIFICATION Spec
CONSTANTS
  Items = {i1, i2}
  Contents = {c1, c2}
  NPaths = 2
  PathOf <- MCPathOf
  BodyOf <- MCBodyOf
  Hinted = {}
  Tries = 2
  None = None
  MaxEdits = 1
  MaxFaults = 0
  MaxScans = 1
INVARIANTS
  ScanCompletes
