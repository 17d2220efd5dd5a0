SPECIFICATION FairSpec
CONSTANTS
  Accounts = {a1}
  Workers = {w1}
  Types = {"sync"}
  Priorities = {0}
  MaxAttempts = 2
  FlagThreshold = 1
  MaxPerCycle = 1
  SlowItems = FALSE
  None = None
  MaxJobs = 2
  MaxSlice = 1
  MaxFaults = 1
  MaxRequests = 1
PROPERTIES
  QueueDrains
