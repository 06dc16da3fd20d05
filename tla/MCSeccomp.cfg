CONSTANTS
  Jobs = {j1, j2}
SPECIFICATION Spec
CHECK_DEADLOCK FALSE
INVARIANTS
  EveryJobLoadsFilter
