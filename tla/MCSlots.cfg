CONSTANTS
  Jobs = {j1, j2}
  NSlots = 1
  Requests <- OneOfEachProxy
  Faults = {}
  MaxCrashes = 1
SPECIFICATION Spec
CHECK_DEADLOCK FALSE
PROPERTIES
  ImplementsSlotPool
  NothingLeftRunning
