SPECIFICATION Spec
CONSTANTS
  None = None
  Keys = {k1}
  Messages = {m1, m2}
  Injects = {}
  Jobs = {j1}
  ScheduledKeys = {k1}
  Cli = {}
  MaxConcurrent = 1
INVARIANT RunsApart
CHECK_DEADLOCK FALSE
