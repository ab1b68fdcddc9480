\* Two workers, two frames, one failure anywhere.
SPECIFICATION Spec
CONSTANTS
  Workers = {w1, w2}
  NbSlots = 8
  TargetSize = 2
  Rooms = {2}
  MaxInput = 3
  MaxFrames = 2
  MaxFailures = 1
  Uses = {}
SYMMETRY WorkerSymmetry
INVARIANTS
  TypeOK
  WorkerOwnsJob
  CompletedMeansInactive
  SkippedOnlyOnError
  ZeroMeansFlushed
PROPERTIES
  EncodesInput
