SPECIFICATION Spec
CONSTANTS
  Byte = {0, 1, 2, 3, 4, 5}
  MaxDist = 24
  BlockSize = 14
  Cycle = 8
  CurrentMax = 58
  IndexMax = 102
  DictIndexMax = 20
  LateMax = 24
  LateKeep = 12
  HashSize = 8
  SearchLength = 4
  StepSize = 1
  MaxCalls = 4
  Strategies = {"fast", "dfast"}
  Area <- MCArea
  Memories <- MCMemories
  Places <- MCPlaces
  Chunks <- MCChunks
  Dicts <- MCDicts
  HashShort <- MCHash
  HashLong <- MCHash
INVARIANTS
  TypeOK
  HistoryIntact
  Regenerates
PROPERTY
  IndicesReduced
CHECK_DEADLOCK FALSE
