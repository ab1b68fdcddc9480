SPECIFICATION Spec
CONSTANTS
  Word = 4
  HufLog = 6
  MaxFrames = 2
  Enough = 2000
  Cases <- MCCases
  Followers <- MCFollowers
  Tails <- MCTails
  MeaningOf <- MCMeaningOf
  WriteOld <- MCWriteOld
  BeginFrame <- MCBegin
  ContinueFrame <- MCContinue
  EndFrame <- MCEnd
  OneBlock <- MCOneBlock
  OnePass <- MCOnePass
  SizeOfFrame <- MCSizeOfFrame
  StartReading <- MCStartReading
  ReadOn <- MCRead
  ReadBlock <- MCReadBlock
  SkipBlock <- MCSkipBlock
INVARIANTS
  RoundTrip
  CutRefused
  RoomRespected
  SizeFound
  PiecesAgree
  EncoderFits
CHECK_DEADLOCK FALSE
