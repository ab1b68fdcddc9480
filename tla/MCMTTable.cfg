\* One worker, more jobs than the table has slots, one failure.
SPECIFICATION FairSpec
CONSTANTS
  Workers = {w1}
  NbSlots = 4
  TargetSize = 1
  Rooms = {0, 2}
  MaxInput = 5
  MaxFrames = 1
  MaxFailures = 1
  Uses = {}
PROPERTIES
  EncodesInput
  FrameCompletes
