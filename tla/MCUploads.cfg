SPECIFICATION Spec
CHECK_DEADLOCK FALSE
CONSTANTS
  Files = {f, g}
  Chunks = 2
  Attempts = 2
  MaxFaults = 3
INVARIANTS TypeOK OnlyWholeFiles
PROPERTY DiscardIsFinal
