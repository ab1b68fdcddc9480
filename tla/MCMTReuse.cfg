\* A caller abandons a frame while a prepared job waits for a worker.
SPECIFICATION Spec
CONSTANTS
  Workers = {w1}
  NbSlots = 4
  TargetSize = 1
  Rooms = {2}
  MaxInput = 3
  MaxFrames = 2
  MaxFailures = 0
  Uses = {"dropReady"}
INVARIANTS
  WorkerOwnsJob
