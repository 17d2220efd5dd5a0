SPECIFICATION Spec
CONSTANTS
  Items = {i1}
  Contents = {c1, c2}
  NPaths = 3
  PathOf <- MCPathOf
  BodyOf <- MCBodyOf
  Hinted = {}
  Tries = 2
  None = None
  MaxEdits = 2
  MaxFaults = 1
  MaxScans = 2
INVARIANTS
  StatTrust
PROPERTIES
  ScanFaithful
  RecordedNeverFetched
