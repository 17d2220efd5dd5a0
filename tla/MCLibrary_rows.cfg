SPECIFICATION Spec
CONSTANTS
  NPaths = 2
  Types = {"image", "video"}
  NVersions = 3
  Clients = {c1, c2}
  Keep = 1
  Limit = 2
  MaxRequests = 2
  MaxFaults = 1
  MaxScans = 2
  MaxEdits = 3
  TypeOf <- MCTypeOf
  SizeOf <- MCSizeOf
  Wants <- MCWants
INVARIANTS
  TypeOK
  CountsExact
  BytesExact
  ServedAsIndexed
CHECK_DEADLOCK FALSE
