CONSTANTS
  Jobs = {j1, j2}
  NSlots = 1
  Requests <- AllRequests
  Faults <- AllFaults
  MaxCrashes = 1
SPECIFICATION Spec
CHECK_DEADLOCK FALSE
SYMMETRY JobSymmetry
INVARIANTS
  TypeOK
  SlotConservation
  SandboxSupervised
  RunningBounded
  AnsweredClean
  ProxiesBeforeSandbox
