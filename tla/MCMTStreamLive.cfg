\* Two workers, one frame, one failure anywhere, every call's return.
SPECIFICATION FairSpec
CONSTANTS
  Workers = {w1, w2}
  NbSlots = 8
  TargetSize = 1
  Rooms = {2}
  MaxInput = 2
  MaxFrames = 1
  MaxFailures = 1
  Uses = {}
PROPERTIES
  CallReturns
  JobCompletes
