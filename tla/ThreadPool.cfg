\* Two worker threads, two clients, queues of intended size 0 and 2.
SPECIFICATION FairSpec
CONSTANTS
  Workers = {w1, w2}
  Pushers = {p1, p2}
  QueueSizes = {0, 2}
  MaxJobs = 2
INVARIANTS
  TypeOK
  ThreadForEveryJob
  DrainedBeforeExit
PROPERTIES
  ImplementsJobQueue
  AcceptedJobRuns
  BlockedAddReturns
  FreeReturns
