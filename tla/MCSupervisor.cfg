SPECIFICATION Spec
CONSTANTS
  None = None
  Instances = {a, b}
  Configs = {c1}
  MaxRestarts = 1
  MaxProcs = 2
  MaxTimers = 2
  MaxListeners = 2
SYMMETRY Renamings
INVARIANTS
  TypeOK
  RecordMatchesHost
PROPERTIES
  RestartHandsOver
  ReapsBeforeExit
