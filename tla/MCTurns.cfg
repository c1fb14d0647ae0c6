SPECIFICATION Spec
CONSTANTS
  None = None
  Keys = {k1, k2}
  Messages = {m1, m2}
  Injects = {i1}
  Jobs = {j1}
  ScheduledKeys = {k2}
  Cli = {j1}
  MaxConcurrent = 1
INVARIANTS
  TypeOK
  SlotAccounting
  LockedApart
  Stoppable
  ForgetIsFinal
  AtMostOneLate
  NothingLeftTrackedUnscheduled
PROPERTIES
  StoppedNeverStarts
CHECK_DEADLOCK FALSE
