\* The same buffer with LDM, and one job fails.
SPECIFICATION Spec
CONSTANTS
  NbWorkers = 2
  NbSlots = 8
  Target = 2
  TargetPrefix = 2
  WindowSizes = {4}
  HashReadSize = 1
  MaxInput = 10
  MaxFailures = 1
\* The wait for ever is what the run shows.
CHECK_DEADLOCK FALSE
INVARIANTS
  LdmSlackEnough
