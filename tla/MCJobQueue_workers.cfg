SPECIFICATION Spec
CONSTANTS
  Accounts = {a1}
  Workers = {w1, w2}
  Types = {"sync"}
  Priorities = {0}
  MaxAttempts = 2
  FlagThreshold = 2
  MaxPerCycle = 1
  SlowItems = FALSE
  None = None
  MaxJobs = 2
  MaxSlice = 1
  MaxFaults = 2
  MaxRequests = 1
SYMMETRY WorkerSymmetry
INVARIANTS
  RowsPlaced
  HolderOwnsRow
  ExclusiveRun
  AttemptsAreLosses
  FailuresAreJobs
PROPERTIES
  TerminalFrozen
  ImplementsLedger
