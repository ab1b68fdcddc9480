\* Every source to its end, for a caller who may stall but comes back.
SPECIFICATION FairSpec
CONSTANTS
  Sources <- DecodeSources
  BlockMax = 2
  Wildcopy = 2
  DictSize = 2
  Api = {"stream", "bufferless"}
  InSizes = {1, 60}
  OutSizes = {0, 1, 12}
  WindowMin = 2
  MaxWindowSize = 4
  MaxSources = 1
  MaxAllocFail = 1
CHECK_DEADLOCK FALSE
PROPERTY
  AllDelivered
