SPECIFICATION FairSpec
CONSTANTS
  MinDelay = 4
  MaxDelay = 15
  ItemsPerRun = 2
  PaceThreshold = 2
  RampRuns = 2
  NAdapters = 2
  KnownStreak = 1
  HardLimit = 2
  Tries = 2
  MaxPosts = 3
  MaxFaults = 1
INVARIANTS
  TypeOK
  CompleteUnlessCut
  PlanSound
PROPERTIES
  ImplementsFates
  
