CONSTANTS
  Jobs = {j1}
  NSlots = 1
  Requests <- AllRequests
  Faults = {"removePolicy"}
  MaxCrashes = 0
SPECIFICATION Spec
CHECK_DEADLOCK FALSE
INVARIANTS
  AllSlotsBack
