SPECIFICATION Spec
CONSTANTS
  Runs = {r1, r2}
  NBlocks = 2
  Inodes = {1, 2, 3, 4}
INVARIANTS
  ArchivedWhole
