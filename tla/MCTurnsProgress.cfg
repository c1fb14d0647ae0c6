SPECIFICATION FairSpec
CONSTANTS
  None = None
  Keys = {k1, k2}
  Messages = {m1, m2, m3}
  Injects = {}
  Jobs = {}
  ScheduledKeys = {}
  Cli = {}
  MaxConcurrent = 1
PROPERTIES
  EveryTurnEnds
  ServesInOrder
CHECK_DEADLOCK FALSE
