\* A caller ends a frame without giving it any input.
SPECIFICATION Spec
CONSTANTS
  Workers = {w1}
  NbSlots = 4
  TargetSize = 1
  Rooms = {9}
  MaxInput = 1
  MaxFrames = 2
  MaxFailures = 0
  Uses = {"emptyFrame"}
INVARIANTS
  CompletedMeansInactive
