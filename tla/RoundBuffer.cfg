\* Two workers, a buffer of five sections of two bytes, without LDM and with a
\* window of two sections; one job may fail.
SPECIFICATION Spec
CONSTANTS
  NbWorkers = 2
  NbSlots = 8
  Target = 2
  TargetPrefix = 2
  WindowSizes = {0, 4}
  HashReadSize = 1
  MaxInput = 11
  MaxFailures = 1
\* After a failure the LDM wait may never end: RoundBufferLdmFail.cfg.
CHECK_DEADLOCK FALSE
INVARIANTS
  TypeOK
  InputIntact
  SectionFits
  LdmHistoryIntact
  LdmWaitServed
