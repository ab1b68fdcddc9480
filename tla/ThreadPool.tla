----------------------------- MODULE ThreadPool -----------------------------
(***************************************************************************)
(* pool.c, compiled with ZSTD1_MULTITHREAD: a fixed set of worker threads  *)
(* serving a circular buffer of jobs.                                      *)
(*                                                                         *)
(* Every access to the context is made under queueMutex, so one action is  *)
(* one critical section, together with the condition-variable signals sent *)
(* before the mutex is released.  A signal sent after the unlock is an     *)
(* action of its own.  pthread_cond_wait is two actions: going to sleep    *)
(* (which releases the mutex) and, once woken, taking the mutex again to   *)
(* re-evaluate the loop condition.  POSIX allows a waiter to wake without  *)
(* a signal: SpuriousWake.                                                 *)
(***************************************************************************)
EXTENDS Naturals, Sequences, FiniteSets

CONSTANTS
  Workers,      \* the threads POOL_create tries to start
  Pushers,      \* client threads calling POOL_add and POOL_tryAdd
  QueueSizes,   \* values of the `queueSize` argument explored
  MaxJobs       \* bound: jobs each client submits

ASSUME PoolAssumption ==
  /\ Workers # {} /\ IsFiniteSet(Workers)
  /\ QueueSizes \subseteq Nat
  /\ MaxJobs \in Nat

VARIABLES
  queue, queueHead, queueTail, queueSize,   \* the circular buffer
  queueEmpty,       \* tells an empty buffer from a full one of size 1
  numThreads,       \* set once every thread has been created
  numThreadsBusy,
  shutdown,
  opc,              \* where the creating thread is (POOL_create, POOL_free)
  wpc, wjob,        \* where each worker is, and the job it popped
  ppc, pcount,      \* where each client is, and how many jobs it submitted
  done              \* history: the jobs whose function returned

ctxVars == <<queue, queueHead, queueTail, queueSize, queueEmpty,
             numThreads, numThreadsBusy, shutdown>>
vars == <<ctxVars, opc, wpc, wjob, ppc, pcount, done>>

Jobs  == Pushers \X (1 .. MaxJobs)
NoJob == <<>>
JobOf(p) == <<p, pcount[p]>>      \* the job client p is submitting

-----------------------------------------------------------------------------
\* POOL_create: the queue gets one slot more than asked for.
Init ==
  /\ queueSize \in {q + 1 : q \in QueueSizes}
  /\ queue = [i \in 0 .. queueSize - 1 |-> NoJob]
  /\ queueHead = 0
  /\ queueTail = 0
  /\ queueEmpty = TRUE
  /\ numThreads = 0
  /\ numThreadsBusy = 0
  /\ shutdown = FALSE
  /\ opc = "create"
  /\ wpc = [w \in Workers |-> "none"]
  /\ wjob = [w \in Workers |-> NoJob]
  /\ ppc = [p \in Pushers |-> "idle"]
  /\ pcount = [p \in Pushers |-> 0]
  /\ done = {}

Created == {w \in Workers : wpc[w] # "none"}

CreateThread(w) ==
  /\ opc = "create" /\ wpc[w] = "none"
  /\ wpc' = [wpc EXCEPT ![w] = "lock"]
  /\ UNCHANGED <<ctxVars, opc, wjob, ppc, pcount, done>>

CreateDone ==
  /\ opc = "create" /\ Created = Workers
  /\ numThreads' = Cardinality(Workers)
  /\ opc' = "open"
  /\ UNCHANGED <<queue, queueHead, queueTail, queueSize, queueEmpty,
                 numThreadsBusy, shutdown, wpc, wjob, ppc, pcount, done>>

\* pthread_create failed: the threads already started are joined.
CreateFail ==
  /\ opc = "create" /\ Created # Workers
  /\ numThreads' = Cardinality(Created)
  /\ opc' = "shutdown"
  /\ UNCHANGED <<queue, queueHead, queueTail, queueSize, queueEmpty,
                 numThreadsBusy, shutdown, wpc, wjob, ppc, pcount, done>>

-----------------------------------------------------------------------------
\* Mutant: the job already in the only slot is forgotten.
IsQueueFullBusyOnly ==
  IF queueSize > 1 THEN queueHead = (queueTail + 1) % queueSize
                   ELSE numThreadsBusy = numThreads

\* Mutant: the busy threads are not counted.
IsQueueFullNoBusy ==
  IF queueSize > 1 THEN queueHead = (queueTail + 1) % queueSize ELSE ~queueEmpty

\* isQueueFull: a pool of queue size 1 takes a job only if a thread is free.
IsQueueFull ==
  IF queueSize > 1 THEN queueHead = (queueTail + 1) % queueSize
                   ELSE numThreadsBusy = numThreads \/ ~queueEmpty

\* pthread_cond_signal: at least one waiter wakes, if there is one.
SignalPush ==
  IF \E p \in Pushers : ppc[p] = "asleep"
  THEN \E p \in Pushers : ppc[p] = "asleep" /\ ppc' = [ppc EXCEPT ![p] = "add"]
  ELSE UNCHANGED ppc

SignalPop ==
  IF \E w \in Workers : wpc[w] = "asleep"
  THEN \E w \in Workers : wpc[w] = "asleep" /\ wpc' = [wpc EXCEPT ![w] = "lock"]
  ELSE UNCHANGED wpc

WorkerSleep(w) ==
  /\ wpc[w] = "lock" /\ queueEmpty /\ ~shutdown
  /\ wpc' = [wpc EXCEPT ![w] = "asleep"]
  /\ UNCHANGED <<ctxVars, opc, wjob, ppc, pcount, done>>

\* Mutant: a worker leaves as soon as it sees the shutdown.
WorkerExitAtOnce(w) ==
  /\ wpc[w] = "lock" /\ shutdown
  /\ wpc' = [wpc EXCEPT ![w] = "exited"]
  /\ UNCHANGED <<ctxVars, opc, wjob, ppc, pcount, done>>

WorkerExit(w) ==
  /\ wpc[w] = "lock" /\ queueEmpty /\ shutdown
  /\ wpc' = [wpc EXCEPT ![w] = "exited"]
  /\ UNCHANGED <<ctxVars, opc, wjob, ppc, pcount, done>>

WorkerPop(w) ==
  /\ wpc[w] = "lock" /\ ~queueEmpty
  /\ wjob' = [wjob EXCEPT ![w] = queue[queueHead]]
  /\ queueHead' = (queueHead + 1) % queueSize
  /\ numThreadsBusy' = numThreadsBusy + 1
  /\ queueEmpty' = (queueHead' = queueTail)
  /\ wpc' = [wpc EXCEPT ![w] = "popped"]
  /\ UNCHANGED <<queue, queueTail, queueSize, numThreads, shutdown,
                 opc, ppc, pcount, done>>

WorkerSignalPopped(w) ==
  /\ wpc[w] = "popped"
  /\ SignalPush
  /\ wpc' = [wpc EXCEPT ![w] = "run"]
  /\ UNCHANGED <<ctxVars, opc, wjob, pcount, done>>

\* job.function(job.opaque) returns; only a pool of queue size 1 keeps count.
WorkerRan(w) ==
  /\ wpc[w] = "run"
  /\ done' = done \cup {wjob[w]}
  /\ wjob' = [wjob EXCEPT ![w] = NoJob]
  /\ wpc' = [wpc EXCEPT ![w] = IF queueSize = 1 THEN "unbusy" ELSE "lock"]
  /\ UNCHANGED <<ctxVars, opc, ppc, pcount>>

WorkerUnbusy(w) ==
  /\ wpc[w] = "unbusy"
  /\ numThreadsBusy' = numThreadsBusy - 1
  /\ wpc' = [wpc EXCEPT ![w] = "idle"]
  /\ UNCHANGED <<queue, queueHead, queueTail, queueSize, queueEmpty,
                 numThreads, shutdown, opc, wjob, ppc, pcount, done>>

\* Mutant: the push condition is not signalled after the job.
WorkerIdleSilent(w) ==
  /\ wpc[w] = "idle"
  /\ wpc' = [wpc EXCEPT ![w] = "lock"]
  /\ UNCHANGED <<ctxVars, opc, wjob, ppc, pcount, done>>

WorkerSignalIdle(w) ==
  /\ wpc[w] = "idle"
  /\ SignalPush
  /\ wpc' = [wpc EXCEPT ![w] = "lock"]
  /\ UNCHANGED <<ctxVars, opc, wjob, pcount, done>>

-----------------------------------------------------------------------------
\* Mutant: the tail index does not wrap around.
AddInternalNoWrap(job) ==
  IF shutdown
  THEN UNCHANGED <<ctxVars, wpc>>
  ELSE /\ queue' = [queue EXCEPT ![queueTail] = job]
       /\ queueTail' = queueTail + 1
       /\ queueEmpty' = FALSE
       /\ SignalPop
       /\ UNCHANGED <<queueHead, queueSize, numThreads, numThreadsBusy, shutdown>>

\* Mutant: no worker is signalled.
AddInternalSilent(job) ==
  IF shutdown
  THEN UNCHANGED <<ctxVars, wpc>>
  ELSE /\ queue' = [queue EXCEPT ![queueTail] = job]
       /\ queueTail' = (queueTail + 1) % queueSize
       /\ queueEmpty' = FALSE
       /\ UNCHANGED <<wpc, queueHead, queueSize, numThreads, numThreadsBusy, shutdown>>

\* POOL_add_internal: after a shutdown the job is silently dropped.
AddInternal(job) ==
  IF shutdown
  THEN UNCHANGED <<ctxVars, wpc>>
  ELSE /\ queue' = [queue EXCEPT ![queueTail] = job]
       /\ queueTail' = (queueTail + 1) % queueSize
       /\ queueEmpty' = FALSE
       /\ SignalPop
       /\ UNCHANGED <<queueHead, queueSize, numThreads, numThreadsBusy, shutdown>>

\* A client that holds the pool (POOL_create returned it, POOL_free was not
\* begun) calls POOL_add.
CallAdd(p) ==
  /\ opc = "open" /\ ppc[p] = "idle" /\ pcount[p] < MaxJobs
  /\ ppc' = [ppc EXCEPT ![p] = "add"]
  /\ pcount' = [pcount EXCEPT ![p] = @ + 1]
  /\ UNCHANGED <<ctxVars, opc, wpc, wjob, done>>

AddSleep(p) ==
  /\ ppc[p] = "add" /\ IsQueueFull /\ ~shutdown
  /\ ppc' = [ppc EXCEPT ![p] = "asleep"]
  /\ UNCHANGED <<ctxVars, opc, wpc, wjob, pcount, done>>

AddEnqueue(p) ==
  /\ ppc[p] = "add" /\ (~IsQueueFull \/ shutdown)
  /\ AddInternal(JobOf(p))
  /\ ppc' = [ppc EXCEPT ![p] = "idle"]
  /\ UNCHANGED <<opc, wjob, pcount, done>>

\* POOL_tryAdd never waits: it refuses when the queue is full.
TryAdd(p) ==
  /\ opc = "open" /\ ppc[p] = "idle" /\ pcount[p] < MaxJobs
  /\ pcount' = [pcount EXCEPT ![p] = @ + 1]
  /\ IF IsQueueFull THEN UNCHANGED <<ctxVars, wpc>>
                    ELSE AddInternal(<<p, pcount[p] + 1>>)
  /\ UNCHANGED <<opc, wjob, ppc, done>>

-----------------------------------------------------------------------------
\* POOL_free: POOL_join, then the context is released.
FreeBegin ==
  /\ opc = "open"
  /\ opc' = "shutdown"
  /\ UNCHANGED <<ctxVars, wpc, wjob, ppc, pcount, done>>

JoinShutdown ==
  /\ opc = "shutdown"
  /\ shutdown' = TRUE
  /\ opc' = "wakePushers"
  /\ UNCHANGED <<queue, queueHead, queueTail, queueSize, queueEmpty,
                 numThreads, numThreadsBusy, wpc, wjob, ppc, pcount, done>>

JoinWakePushers ==
  /\ opc = "wakePushers"
  /\ ppc' = [p \in Pushers |-> IF ppc[p] = "asleep" THEN "add" ELSE ppc[p]]
  /\ opc' = "wakeWorkers"
  /\ UNCHANGED <<ctxVars, wpc, wjob, pcount, done>>

\* Mutant: one worker is signalled instead of all.
JoinWakeOneWorker ==
  /\ opc = "wakeWorkers"
  /\ SignalPop
  /\ opc' = "join"
  /\ UNCHANGED <<ctxVars, wjob, ppc, pcount, done>>

JoinWakeWorkers ==
  /\ opc = "wakeWorkers"
  /\ wpc' = [w \in Workers |-> IF wpc[w] = "asleep" THEN "lock" ELSE wpc[w]]
  /\ opc' = "join"
  /\ UNCHANGED <<ctxVars, wjob, ppc, pcount, done>>

\* The threads are joined and the memory goes.  No client is inside POOL_add
\* by then: that is the callers' part of the contract, not checked by pool.c.
FreeContext ==
  /\ opc = "join"
  /\ \A w \in Created : wpc[w] = "exited"
  /\ \A p \in Pushers : ppc[p] = "idle"
  /\ opc' = "freed"
  /\ UNCHANGED <<ctxVars, wpc, wjob, ppc, pcount, done>>

\* A waiter may wake although nobody signalled.
SpuriousWake ==
  \/ /\ \E w \in Workers : wpc[w] = "asleep" /\ wpc' = [wpc EXCEPT ![w] = "lock"]
     /\ UNCHANGED <<ctxVars, opc, wjob, ppc, pcount, done>>
  \/ /\ \E p \in Pushers : ppc[p] = "asleep" /\ ppc' = [ppc EXCEPT ![p] = "add"]
     /\ UNCHANGED <<ctxVars, opc, wpc, wjob, pcount, done>>

-----------------------------------------------------------------------------
WorkerStep(w) ==
  \/ WorkerSleep(w) \/ WorkerExit(w) \/ WorkerPop(w) \/ WorkerSignalPopped(w)
  \/ WorkerRan(w) \/ WorkerUnbusy(w) \/ WorkerSignalIdle(w)

AddStep(p) == AddSleep(p) \/ AddEnqueue(p)

JoinStep == JoinShutdown \/ JoinWakePushers \/ JoinWakeWorkers \/ FreeContext

CreateStep == (\E w \in Workers : CreateThread(w)) \/ CreateDone \/ CreateFail

\* The pool has been freed: nothing is left to do.
Terminated == opc = "freed" /\ UNCHANGED vars

Next ==
  \/ CreateStep
  \/ \E w \in Workers : WorkerStep(w)
  \/ \E p \in Pushers : CallAdd(p) \/ TryAdd(p) \/ AddStep(p)
  \/ FreeBegin
  \/ JoinStep
  \/ SpuriousWake
  \/ Terminated

\* Threads are scheduled and job functions return.  Nothing forces a client
\* to submit a job or to free the pool.
Fairness ==
  /\ \A w \in Workers : WF_vars(WorkerStep(w))
  /\ \A p \in Pushers : WF_vars(AddStep(p))
  /\ WF_vars(CreateStep)
  /\ WF_vars(JoinStep)

Spec == Init /\ [][Next]_vars
FairSpec == Spec /\ Fairness

-----------------------------------------------------------------------------
\* Properties

TypeOK ==
  /\ queueSize \in {q + 1 : q \in QueueSizes}
  /\ queue \in [0 .. queueSize - 1 -> Jobs \cup {NoJob}]
  /\ queueHead \in 0 .. queueSize - 1
  /\ queueTail \in 0 .. queueSize - 1
  /\ queueEmpty \in BOOLEAN
  /\ numThreads \in Nat
  /\ numThreadsBusy \in Nat
  /\ shutdown \in BOOLEAN
  /\ opc \in {"create", "open", "shutdown", "wakePushers", "wakeWorkers",
              "join", "freed"}
  /\ wpc \in [Workers -> {"none", "lock", "asleep", "popped", "run", "unbusy",
                          "idle", "exited"}]
  /\ wjob \in [Workers -> Jobs \cup {NoJob}]
  /\ ppc \in [Pushers -> {"idle", "add", "asleep"}]
  /\ pcount \in [Pushers -> 0 .. MaxJobs]
  /\ done \subseteq Jobs

\* How many slots of the circular buffer hold a job, and which ones.
Count ==
  IF queueEmpty THEN 0
  ELSE IF queueHead < queueTail THEN queueTail - queueHead
       ELSE queueTail + queueSize - queueHead

Slot(i) ==      \* of the i-th oldest job
  IF queueHead + i - 1 < queueSize THEN queueHead + i - 1
                                   ELSE queueHead + i - 1 - queueSize

Content == [i \in 1 .. Count |-> queue[Slot(i)]]

Executing == {wjob[w] : w \in {v \in Workers : wjob[v] # NoJob}}

\* The pool implements a FIFO job queue: every accepted job is started once,
\* in acceptance order, and none is lost, duplicated or overwritten in the
\* circular buffer, whatever the interleaving of POOL_add and POOL_thread.
JQ == INSTANCE JobQueue
        WITH waiting <- Content, running <- Executing
ImplementsJobQueue == JQ!JQSpec

\* A pool created with queueSize 0 (the one zstdmt uses) accepts a job only
\* when a thread is free to run it at once: accepted jobs never wait for one
\* another.  isQueueFull and the counter kept by POOL_thread guarantee it only
\* together, because a job between its insertion and its pop counts in neither
\* numThreadsBusy nor the idle threads.
ThreadForEveryJob ==
  queueSize = 1 => Count + numThreadsBusy <= numThreads

\* A worker leaves only when the pool is shut down and drained, so a job that
\* was accepted before POOL_free is executed although the pool is going away.
DrainedBeforeExit ==
  /\ (\E w \in Workers : wpc[w] = "exited") => (shutdown /\ Count = 0)
  /\ opc = "freed" => Executing = {}

\* An accepted job is eventually executed.
AcceptedJobRuns ==
  \A j \in Jobs : (\E i \in 1 .. Count : Content[i] = j) ~> (j \in done)

\* A client blocked on a full queue (POOL_add) is eventually released: no
\* wake-up on queuePushCond is lost between isQueueFull and cond_wait.
BlockedAddReturns ==
  \A p \in Pushers : (ppc[p] # "idle") ~> (ppc[p] = "idle")

\* POOL_free returns: no worker stays asleep on queuePopCond.
FreeReturns == (opc = "shutdown") ~> (opc = "freed")
=============================================================================
