SPECIFICATION FairSpec
CONSTANTS
  Jobs = {j1}
  Crons = {{1, 3}, {2, 3, 4}}
  Horizon = 4
  MaxHands = 1
  MaxRestarts = 1
  None = None
INVARIANTS
  TypeOK
  NeverOverlapsItself
  NoSlotPassedOver
PROPERTIES
  SlotFiredOnce
  OverdueFires
CHECK_DEADLOCK FALSE
