\* Every source, cut into pieces of one byte or all; a context reused once, at any moment.
SPECIFICATION Spec
CONSTANTS
  Sources <- DecodeSources
  BlockMax = 2
  Wildcopy = 2
  DictSize = 2
  Api = {"stream", "bufferless"}
  InSizes = {1, 60}
  OutSizes = {0, 3}
  WindowMin = 2
  MaxWindowSize = 4
  MaxSources = 2
  MaxAllocFail = 1
CHECK_DEADLOCK FALSE
INVARIANTS
  TypeOK
  FlushHoldsNext
  ZeroMeansFrameDone
  EndNeedsFlush
  HintWithinFrame
  ValidNeverFails
PROPERTIES
  NeverBack
