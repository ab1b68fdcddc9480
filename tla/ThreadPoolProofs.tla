-------------------------- MODULE ThreadPoolProofs --------------------------
(***************************************************************************)
(* What is proved of ThreadPool for every number of threads, clients, jobs *)
(* and every queue size.  IInv is the inductive invariant; it says how the *)
(* circular buffer, the counter numThreadsBusy and the threads' positions  *)
(* fit together, which none of the checked invariants says alone.          *)
(***************************************************************************)
EXTENDS ThreadPool, FiniteSetTheorems, SequenceTheorems, TLAPS

\* The empty flag and the two indices agree (with one slot they always meet).
RingInv == queueSize > 1 => (queueEmpty <=> queueHead = queueTail)

NoHoles == \A i \in 1 .. Count : queue[Slot(i)] # NoJob

Busy == {w \in Workers : wpc[w] \in {"popped", "run", "unbusy"}}

\* The counter of a pool of queue size 1 counts the busy workers.
BusyInv ==
  /\ queueSize = 1 => numThreadsBusy = Cardinality(Busy)
  /\ \A w \in Workers : wpc[w] = "unbusy" => queueSize = 1

WorkersInv ==
  /\ \A w \in Workers : wjob[w] # NoJob <=> wpc[w] \in {"popped", "run"}
  /\ opc = "create" => numThreads = 0
  /\ opc = "freed" => \A w \in Workers : wpc[w] \in {"none", "exited"}

ClientsInv == \A p \in Pushers : ppc[p] # "idle" => pcount[p] >= 1

IInv ==
  /\ TypeOK /\ RingInv /\ NoHoles /\ BusyInv /\ WorkersInv /\ ClientsInv
  /\ ThreadForEveryJob /\ DrainedBeforeExit

-----------------------------------------------------------------------------
\* Stepping an index of the circular buffer, without the modulo.
LEMMA StepIndex ==
  ASSUME NEW n \in Nat, n > 0, NEW x \in 0 .. n - 1
  PROVE  /\ (x + 1) % n = (IF x + 1 = n THEN 0 ELSE x + 1)
         /\ (x + 1) % n \in 0 .. n - 1
  BY SMT

\* A job is a pair, so the absent job is none of them.
LEMMA NoJobIsNoJob == NoJob \notin Jobs
  BY DEF NoJob, Jobs

\* How many jobs the buffer holds, and where the i-th oldest lies.
LEMMA CountFacts ==
  ASSUME TypeOK, RingInv
  PROVE  /\ queueSize \in Nat /\ queueSize > 0
         /\ Count \in 0 .. queueSize
         /\ Count = 0 <=> queueEmpty
         /\ \A i \in 1 .. Count : Slot(i) \in 0 .. queueSize - 1
         /\ \A i, j \in 1 .. Count : Slot(i) = Slot(j) => i = j
<1>1. /\ queueSize \in Nat /\ queueSize > 0
      /\ queueHead \in 0 .. queueSize - 1
      /\ queueTail \in 0 .. queueSize - 1
      /\ queueEmpty \in BOOLEAN
  BY PoolAssumption DEF TypeOK
<1>2. Count \in 0 .. queueSize /\ (Count = 0 <=> queueEmpty)
  <2>1. CASE queueEmpty
    BY <1>1, <2>1 DEF Count
  <2>2. CASE ~queueEmpty
    BY <1>1, <2>2 DEF Count, RingInv
  <2> QED BY <1>1, <2>1, <2>2
<1>3. \A i \in 1 .. Count : Slot(i) \in 0 .. queueSize - 1
  BY <1>1, <1>2 DEF Slot
<1>4. \A i, j \in 1 .. Count : Slot(i) = Slot(j) => i = j
  BY <1>1, <1>2 DEF Slot
<1> QED BY <1>1, <1>2, <1>3, <1>4
-----------------------------------------------------------------------------
\* The initial state satisfies the invariant.
LEMMA InitIInv == Init => IInv
<1> SUFFICES ASSUME Init PROVE IInv
  OBVIOUS
<1>1. TypeOK
  <2>1. queueSize \in Nat /\ queueSize > 0 /\ 0 \in 0 .. MaxJobs
    BY PoolAssumption DEF Init
  <2>2. queueSize \in {q + 1 : q \in QueueSizes} /\ done \subseteq Jobs
    BY DEF Init
  <2>3. queue \in [0 .. queueSize - 1 -> Jobs \cup {NoJob}]
    BY DEF Init
  <2>4. /\ queueHead \in 0 .. queueSize - 1
        /\ queueTail \in 0 .. queueSize - 1
        /\ numThreads \in Nat /\ numThreadsBusy \in Nat
    <3>1. queueHead = 0 /\ queueTail = 0 /\ numThreads = 0 /\ numThreadsBusy = 0
      BY DEF Init
    <3> QED BY <2>1, <3>1
  <2>5. queueEmpty \in BOOLEAN /\ shutdown \in BOOLEAN
    BY DEF Init
  <2>6. /\ opc = "create"
        /\ wpc = [w \in Workers |-> "none"]
        /\ wjob \in [Workers -> Jobs \cup {NoJob}]
        /\ ppc = [p \in Pushers |-> "idle"]
        /\ pcount \in [Pushers -> 0 .. MaxJobs]
    BY <2>1 DEF Init
  <2> QED BY <2>2, <2>3, <2>4, <2>5, <2>6 DEF TypeOK
<1>2. RingInv /\ NoHoles
  BY DEF Init, RingInv, NoHoles, Count
<1>3. BusyInv
  <2>1. Busy = {}
    BY DEF Init, Busy
  <2> QED BY <2>1, FS_EmptySet DEF Init, BusyInv
<1>4. WorkersInv /\ ClientsInv
  BY DEF Init, WorkersInv, ClientsInv
<1>5. ThreadForEveryJob /\ DrainedBeforeExit
  BY DEF Init, ThreadForEveryJob, DrainedBeforeExit, Count
<1> QED BY <1>1, <1>2, <1>3, <1>4, <1>5 DEF IInv

\* A step that leaves the buffer alone leaves its content alone.
LEMMA SameBuffer ==
  ASSUME UNCHANGED <<queue, queueHead, queueTail, queueSize, queueEmpty>>
  PROVE  /\ Count' = Count
         /\ \A i : Slot(i)' = Slot(i)
         /\ Content' = Content
         /\ RingInv => RingInv'
         /\ NoHoles => NoHoles'
<1>1. Count' = Count
  BY DEF Count
<1>2. \A i : Slot(i)' = Slot(i)
  BY DEF Slot
<1>3. Content' = Content
  BY <1>1, <1>2 DEF Content
<1>4. RingInv => RingInv'
  BY DEF RingInv
<1>5. NoHoles => NoHoles'
  BY <1>1, <1>2 DEF NoHoles
<1> QED BY <1>1, <1>2, <1>3, <1>4, <1>5

\* Taking the oldest job shifts the content by one.
LEMMA PopBuffer ==
  ASSUME IInv, NEW w \in Workers, WorkerPop(w)
  PROVE  /\ RingInv' /\ NoHoles'
         /\ queueHead' \in 0 .. queueSize - 1
         /\ queueEmpty' \in BOOLEAN
         /\ Count > 0
         /\ Count' = Count - 1
         /\ Slot(1) = queueHead
         /\ \A i \in 1 .. Count' : Slot(i)' = Slot(i + 1)
<1>1. /\ queueSize \in Nat /\ queueSize > 0
      /\ queueHead \in 0 .. queueSize - 1
      /\ queueTail \in 0 .. queueSize - 1
      /\ queueEmpty = FALSE
      /\ UNCHANGED <<queue, queueTail, queueSize>>
  BY CountFacts DEF IInv, TypeOK, WorkerPop
<1>2. /\ queueHead' = (IF queueHead + 1 = queueSize THEN 0 ELSE queueHead + 1)
      /\ queueHead' \in 0 .. queueSize - 1
  BY <1>1, StepIndex DEF WorkerPop
<1>3. queueEmpty' = (queueHead' = queueTail)
  BY DEF WorkerPop
<1>4. RingInv'
  BY <1>1, <1>3 DEF RingInv
<1>5. queueSize > 1 => queueHead # queueTail
  BY <1>1 DEF IInv, RingInv
<1>6. Count' = Count - 1 /\ Count \in 1 .. queueSize
  <2>1. Count = (IF queueHead < queueTail THEN queueTail - queueHead
                                          ELSE queueTail + queueSize - queueHead)
    BY <1>1 DEF Count
  <2>2. CASE queueHead' = queueTail
    <3>1. queueEmpty' /\ Count' = 0
      BY <1>3, <2>2 DEF Count
    <3>2. Count = 1
      BY <1>1, <1>2, <1>5, <2>1, <2>2
    <3> QED BY <1>1, <3>1, <3>2
  <2>3. CASE queueHead' # queueTail
    <3>1. Count' = (IF queueHead' < queueTail THEN queueTail - queueHead'
                                              ELSE queueTail + queueSize - queueHead')
      BY <1>1, <1>3, <2>3 DEF Count
    <3> QED BY <1>1, <1>2, <1>5, <2>1, <2>3, <3>1
  <2> QED BY <2>2, <2>3
<1>7. \A i \in 1 .. Count' : Slot(i)' = Slot(i + 1)
  BY <1>1, <1>2, <1>6 DEF Slot
<1>8. Slot(1) = queueHead
  BY <1>1 DEF Slot
<1>9. NoHoles'
  <2> SUFFICES ASSUME NEW i \in 1 .. Count' PROVE queue'[Slot(i)'] # NoJob
    BY DEF NoHoles
  <2>1. i + 1 \in 1 .. Count
    BY <1>6
  <2> QED BY <2>1, <1>1, <1>7 DEF IInv, NoHoles
<1> QED BY <1>2, <1>3, <1>4, <1>6, <1>7, <1>8, <1>9

\* Adding a job to a queue that is not full, and is not shut down, puts it
\* behind the others and disturbs none of them.
LEMMA AddBuffer ==
  ASSUME IInv, ~IsQueueFull, ~shutdown, NEW job \in Jobs, AddInternal(job)
  PROVE  /\ RingInv' /\ NoHoles'
         /\ queueTail' \in 0 .. queueSize - 1
         /\ queue' \in [0 .. queueSize - 1 -> Jobs \cup {NoJob}]
         /\ Count < queueSize
         /\ Count' = Count + 1
         /\ \A i \in 1 .. Count : Slot(i)' = Slot(i) /\ queue'[Slot(i)'] = queue[Slot(i)]
         /\ queue'[Slot(Count)'] = job
<1>1. /\ queueSize \in Nat /\ queueSize > 0
      /\ queueHead \in 0 .. queueSize - 1
      /\ queueTail \in 0 .. queueSize - 1
      /\ queueEmpty \in BOOLEAN
      /\ queue \in [0 .. queueSize - 1 -> Jobs \cup {NoJob}]
      /\ UNCHANGED <<queueHead, queueSize>>
      /\ queueEmpty' = FALSE
      /\ queue' = [queue EXCEPT ![queueTail] = job]
  BY CountFacts DEF IInv, TypeOK, AddInternal
<1>2. /\ queueTail' = (IF queueTail + 1 = queueSize THEN 0 ELSE queueTail + 1)
      /\ queueTail' \in 0 .. queueSize - 1
      /\ (queueTail + 1) % queueSize = queueTail'
  BY <1>1, StepIndex DEF AddInternal
<1>3. /\ queueSize > 1 => queueHead # queueTail'
      /\ queueSize = 1 => queueEmpty
  BY <1>1, <1>2 DEF IsQueueFull
<1>4. RingInv'
  BY <1>1, <1>3 DEF RingInv
<1>5. Count' = Count + 1 /\ Count \in 0 .. queueSize - 1
  BY <1>1, <1>2, <1>3 DEF Count, IInv, RingInv
<1>6. \A i \in 1 .. Count : Slot(i)' = Slot(i) /\ Slot(i) \in 0 .. queueSize - 1
  BY <1>1, <1>5 DEF Slot
<1>7. Slot(Count)' = queueTail
  <2>1. Count + 1 = (IF queueHead < queueTail \/ queueEmpty
                      THEN queueTail - queueHead + 1
                      ELSE queueTail + queueSize - queueHead + 1)
    BY <1>1, <1>3 DEF Count, IInv, RingInv
  <2>2. Slot(Count)' = (IF queueHead + Count < queueSize THEN queueHead + Count
                                                          ELSE queueHead + Count - queueSize)
    BY <1>1, <1>5 DEF Slot
  <2> QED BY <1>1, <1>5, <2>1, <2>2
<1>8. \A i \in 1 .. Count : Slot(i) # queueTail
  BY <1>1, <1>3, <1>5 DEF Slot, Count, IInv, RingInv
<1>9. \A i \in 1 .. Count : queue'[Slot(i)'] = queue[Slot(i)]
  BY <1>1, <1>6, <1>8
<1>10. queue'[Slot(Count)'] = job
  BY <1>1, <1>7
<1>11. NoHoles'
  <2> SUFFICES ASSUME NEW i \in 1 .. Count' PROVE queue'[Slot(i)'] # NoJob
    BY DEF NoHoles
  <2>1. CASE i \in 1 .. Count
    BY <2>1, <1>9 DEF IInv, NoHoles
  <2>2. CASE i = Count'
    BY <2>2, <1>10, NoJobIsNoJob
  <2> QED BY <1>5, <2>1, <2>2
<1>12. queue' \in [0 .. queueSize - 1 -> Jobs \cup {NoJob}]
  BY <1>1
<1> QED BY <1>1, <1>2, <1>4, <1>5, <1>6, <1>9, <1>10, <1>11, <1>12
-----------------------------------------------------------------------------
\* A step that moves no job, counts no thread down and keeps the buffer keeps
\* the invariant: most actions of the pool only sleep, wake or advance a thread.
LEMMA QuietStep ==
  ASSUME IInv, TypeOK', ClientsInv',
         UNCHANGED <<queue, queueHead, queueTail, queueSize, queueEmpty,
                     numThreadsBusy, wjob>>,
         numThreads <= numThreads',
         shutdown => shutdown',
         \A w \in Workers : /\ wpc'[w] \in {"popped", "run"} <=> wpc[w] \in {"popped", "run"}
                            /\ wpc'[w] = "unbusy" <=> wpc[w] = "unbusy"
                            /\ wpc'[w] = "exited" =>
                                 wpc[w] = "exited" \/ (shutdown' /\ queueEmpty),
         opc' = "create" => opc = "create" /\ numThreads' = numThreads,
         opc' = "freed" => \A w \in Workers : wpc'[w] \in {"none", "exited"}
  PROVE  IInv'
<1>1. Count' = Count /\ RingInv' /\ NoHoles'
  BY SameBuffer DEF IInv
<1>2. BusyInv'
  <2>1. Busy' = Busy
    BY DEF Busy
  <2> QED BY <2>1 DEF IInv, BusyInv
<1>3. WorkersInv'
  BY DEF IInv, WorkersInv
<1>4. ThreadForEveryJob'
  <2>1. Count \in Nat /\ numThreadsBusy \in Nat /\ numThreads \in Nat /\ numThreads' \in Nat
    BY CountFacts DEF IInv, TypeOK
  <2> QED BY <1>1, <2>1 DEF IInv, ThreadForEveryJob
<1>5. DrainedBeforeExit'
  <2>1. ASSUME NEW w \in Workers, wpc'[w] = "exited" PROVE shutdown' /\ Count' = 0
    BY <1>1, <2>1 DEF IInv, DrainedBeforeExit, Count
  <2>2. opc' = "freed" => Executing' = {}
    BY <1>3 DEF WorkersInv, Executing
  <2> QED BY <2>1, <2>2 DEF DrainedBeforeExit
<1> QED BY <1>1, <1>2, <1>3, <1>4, <1>5 DEF IInv

\* Waking somebody keeps the types and changes sleepers only.
LEMMA SignalPushEffect ==
  ASSUME TypeOK, SignalPush
  PROVE  /\ ppc' \in [Pushers -> {"idle", "add", "asleep"}]
         /\ \A p \in Pushers : ppc'[p] = "idle" <=> ppc[p] = "idle"
  BY DEF TypeOK, SignalPush

LEMMA SignalPopEffect ==
  ASSUME TypeOK, SignalPop
  PROVE  /\ wpc' \in [Workers -> {"none", "lock", "asleep", "popped", "run",
                                  "unbusy", "idle", "exited"}]
         /\ \A w \in Workers : wpc'[w] = wpc[w]
                               \/ (wpc[w] = "asleep" /\ wpc'[w] = "lock")
  BY DEF TypeOK, SignalPop

\* The actions of a worker that neither take nor finish a job.
LEMMA WorkerQuietSteps ==
  ASSUME IInv, NEW w \in Workers,
         \/ WorkerSleep(w) \/ WorkerExit(w)
         \/ WorkerSignalPopped(w) \/ WorkerSignalIdle(w)
  PROVE  IInv'
<1>1. TypeOK
  BY DEF IInv
<1>2. CASE WorkerSleep(w)
  <2>1. TypeOK' /\ ClientsInv'
    BY <1>1, <1>2 DEF TypeOK, WorkerSleep, ctxVars, IInv, ClientsInv
  <2> QED BY <1>1, <1>2, <2>1, QuietStep DEF WorkerSleep, ctxVars, TypeOK, IInv, WorkersInv
<1>3. CASE WorkerExit(w)
  <2>1. TypeOK' /\ ClientsInv'
    BY <1>1, <1>3 DEF TypeOK, WorkerExit, ctxVars, IInv, ClientsInv
  <2> QED BY <1>1, <1>3, <2>1, QuietStep DEF WorkerExit, ctxVars, TypeOK, IInv, WorkersInv
<1>4. CASE WorkerSignalPopped(w)
  <2>1. TypeOK' /\ ClientsInv'
    BY <1>1, <1>4, SignalPushEffect
       DEF TypeOK, WorkerSignalPopped, ctxVars, IInv, ClientsInv
  <2> QED BY <1>1, <1>4, <2>1, QuietStep
          DEF WorkerSignalPopped, ctxVars, TypeOK, IInv, WorkersInv
<1>5. CASE WorkerSignalIdle(w)
  <2>1. TypeOK' /\ ClientsInv'
    BY <1>1, <1>5, SignalPushEffect
       DEF TypeOK, WorkerSignalIdle, ctxVars, IInv, ClientsInv
  <2> QED BY <1>1, <1>5, <2>1, QuietStep
          DEF WorkerSignalIdle, ctxVars, TypeOK, IInv, WorkersInv
<1> QED BY <1>2, <1>3, <1>4, <1>5

LEMMA BusyFinite == IsFiniteSet(Busy)
  BY PoolAssumption, FS_Subset DEF Busy

\* Popping moves one job from the buffer to a worker: their sum is unchanged.
LEMMA WorkerPopStep ==
  ASSUME IInv, NEW w \in Workers, WorkerPop(w)
  PROVE  IInv'
<1>1. /\ TypeOK
      /\ UNCHANGED <<queue, queueTail, queueSize, numThreads, shutdown,
                     opc, ppc, pcount, done>>
      /\ wpc[w] = "lock" /\ ~queueEmpty
      /\ wpc' = [wpc EXCEPT ![w] = "popped"]
      /\ numThreadsBusy' = numThreadsBusy + 1
      /\ wjob' = [wjob EXCEPT ![w] = queue[queueHead]]
  BY DEF IInv, WorkerPop
<1>2. /\ RingInv' /\ NoHoles'
      /\ queueHead' \in 0 .. queueSize - 1
      /\ queueEmpty' \in BOOLEAN
      /\ Count > 0 /\ Count' = Count - 1 /\ Slot(1) = queueHead
  BY PopBuffer
<1>3. Count \in Nat
  BY <1>1, CountFacts DEF IInv
<1>4. queue[queueHead] \in Jobs
  <2>1. 1 \in 1 .. Count /\ queueHead \in 0 .. queueSize - 1
    BY <1>1, <1>2, <1>3 DEF TypeOK
  <2>2. queue[queueHead] # NoJob
    BY <1>2, <2>1 DEF IInv, NoHoles
  <2> QED BY <1>1, <2>1, <2>2 DEF TypeOK
<1>5. TypeOK'
  BY <1>1, <1>2, <1>4 DEF TypeOK
<1>6. BusyInv'
  <2>1. Busy' = Busy \cup {w} /\ w \notin Busy
    BY <1>1 DEF Busy, TypeOK
  <2>2. Cardinality(Busy') = Cardinality(Busy) + 1
    BY <2>1, BusyFinite, FS_AddElement
  <2> QED BY <1>1, <2>2 DEF IInv, BusyInv, TypeOK
<1>7. WorkersInv'
  BY <1>1, <1>4, NoJobIsNoJob DEF IInv, WorkersInv, TypeOK
<1>8. ThreadForEveryJob'
  BY <1>1, <1>2, <1>3 DEF IInv, ThreadForEveryJob, TypeOK
<1>9. DrainedBeforeExit'
  <2>1. \A v \in Workers : wpc[v] # "exited"
    BY <1>1, <1>2, <1>3 DEF IInv, DrainedBeforeExit
  <2>2. \A v \in Workers : wpc'[v] # "exited"
    BY <1>1, <2>1 DEF TypeOK
  <2>3. opc' = "freed" => Executing' = {}
    BY <1>1, <1>7 DEF WorkersInv, Executing
  <2> QED BY <2>2, <2>3 DEF DrainedBeforeExit
<1>10. ClientsInv'
  BY <1>1 DEF IInv, ClientsInv
<1> QED BY <1>2, <1>5, <1>6, <1>7, <1>8, <1>9, <1>10 DEF IInv

\* The job function returns.
LEMMA WorkerRanStep ==
  ASSUME IInv, NEW w \in Workers, WorkerRan(w)
  PROVE  IInv'
<1>1. /\ TypeOK /\ UNCHANGED <<ctxVars, opc, ppc, pcount>>
      /\ wpc[w] = "run"
      /\ wpc' = [wpc EXCEPT ![w] = IF queueSize = 1 THEN "unbusy" ELSE "lock"]
      /\ wjob' = [wjob EXCEPT ![w] = NoJob]
      /\ done' = done \cup {wjob[w]}
  BY DEF IInv, WorkerRan
<1>2. Count' = Count /\ RingInv' /\ NoHoles'
  BY <1>1, SameBuffer DEF IInv, ctxVars
<1>3. TypeOK'
  <2>1. wjob[w] \in Jobs
    BY <1>1 DEF IInv, WorkersInv, TypeOK
  <2> QED BY <1>1, <2>1 DEF TypeOK, ctxVars
<1>4. BusyInv'
  <2>1. queueSize = 1 => Busy' = Busy
    BY <1>1 DEF Busy, TypeOK
  <2> QED BY <1>1, <2>1 DEF IInv, BusyInv, ctxVars, TypeOK
<1>5. WorkersInv'
  BY <1>1 DEF IInv, WorkersInv, TypeOK, ctxVars
<1>6. ThreadForEveryJob'
  BY <1>1, <1>2 DEF IInv, ThreadForEveryJob, ctxVars
<1>7. DrainedBeforeExit'
  <2>1. \A v \in Workers : wpc'[v] = "exited" => wpc[v] = "exited"
    BY <1>1 DEF TypeOK
  <2>2. opc' = "freed" => Executing' = {}
    BY <1>5 DEF WorkersInv, Executing
  <2> QED BY <1>1, <1>2, <2>1, <2>2 DEF IInv, DrainedBeforeExit, ctxVars
<1>8. ClientsInv'
  BY <1>1 DEF IInv, ClientsInv
<1> QED BY <1>2, <1>3, <1>4, <1>5, <1>6, <1>7, <1>8 DEF IInv

\* The worker is no longer counted: the counter cannot have been zero.
LEMMA WorkerUnbusyStep ==
  ASSUME IInv, NEW w \in Workers, WorkerUnbusy(w)
  PROVE  IInv'
<1>1. /\ TypeOK
      /\ UNCHANGED <<queue, queueHead, queueTail, queueSize, queueEmpty,
                     numThreads, shutdown, opc, wjob, ppc, pcount, done>>
      /\ wpc[w] = "unbusy"
      /\ wpc' = [wpc EXCEPT ![w] = "idle"]
      /\ numThreadsBusy' = numThreadsBusy - 1
  BY DEF IInv, WorkerUnbusy
<1>2. Count' = Count /\ RingInv' /\ NoHoles' /\ Count \in Nat
  BY <1>1, SameBuffer, CountFacts DEF IInv
<1>3. /\ Cardinality(Busy') = Cardinality(Busy) - 1
      /\ Cardinality(Busy') \in Nat
  <2>1. Busy' = Busy \ {w} /\ w \in Busy
    BY <1>1 DEF Busy, TypeOK
  <2> QED BY <2>1, BusyFinite, FS_RemoveElement, FS_CardinalityType
<1>4. queueSize = 1 /\ numThreadsBusy = Cardinality(Busy)
  BY <1>1 DEF IInv, BusyInv
<1>5. numThreadsBusy' \in Nat
  BY <1>1, <1>3, <1>4
<1>6. TypeOK'
  BY <1>1, <1>5 DEF TypeOK
<1>7. BusyInv'
  BY <1>1, <1>3, <1>4 DEF IInv, BusyInv, TypeOK
<1>8. WorkersInv'
  BY <1>1 DEF IInv, WorkersInv, TypeOK
<1>9. ThreadForEveryJob'
  BY <1>1, <1>2, <1>5 DEF IInv, ThreadForEveryJob, TypeOK
<1>10. DrainedBeforeExit'
  <2>1. \A v \in Workers : wpc'[v] = "exited" => wpc[v] = "exited"
    BY <1>1 DEF TypeOK
  <2>2. opc' = "freed" => Executing' = {}
    BY <1>8 DEF WorkersInv, Executing
  <2> QED BY <1>1, <1>2, <2>1, <2>2 DEF IInv, DrainedBeforeExit
<1>11. ClientsInv'
  BY <1>1 DEF IInv, ClientsInv
<1> QED BY <1>2, <1>6, <1>7, <1>8, <1>9, <1>10, <1>11 DEF IInv

\* Adding a job, by POOL_add or POOL_tryAdd, to a pool that accepts it.  The
\* caller is otherwise free to move between "add" and "idle".
LEMMA AcceptStep ==
  ASSUME IInv, ~IsQueueFull, ~shutdown, NEW job \in Jobs, AddInternal(job),
         UNCHANGED <<opc, wjob, done>>,
         ppc' \in [Pushers -> {"idle", "add", "asleep"}],
         pcount' \in [Pushers -> 0 .. MaxJobs],
         ClientsInv'
  PROVE  IInv'
<1>1. /\ TypeOK /\ SignalPop /\ queueEmpty' = FALSE
      /\ UNCHANGED <<queueHead, queueSize, numThreads, numThreadsBusy, shutdown>>
  BY DEF IInv, AddInternal
<1>2. /\ RingInv' /\ NoHoles'
      /\ queueTail' \in 0 .. queueSize - 1
      /\ queue' \in [0 .. queueSize - 1 -> Jobs \cup {NoJob}]
      /\ Count' = Count + 1
  BY AddBuffer
<1>3. /\ Count \in Nat /\ (Count = 0 <=> queueEmpty)
  BY <1>1, CountFacts DEF IInv
<1>4. /\ wpc' \in [Workers -> {"none", "lock", "asleep", "popped", "run",
                               "unbusy", "idle", "exited"}]
      /\ \A w \in Workers : wpc'[w] = wpc[w]
                            \/ (wpc[w] = "asleep" /\ wpc'[w] = "lock")
  BY <1>1, SignalPopEffect
<1>5. TypeOK'
  BY <1>1, <1>2, <1>4 DEF TypeOK
<1>6. BusyInv'
  <2>1. Busy' = Busy
    BY <1>4 DEF Busy
  <2> QED BY <1>1, <1>4, <2>1 DEF IInv, BusyInv
<1>7. WorkersInv'
  BY <1>1, <1>4 DEF IInv, WorkersInv
<1>8. ThreadForEveryJob'
  <2> SUFFICES ASSUME queueSize = 1 PROVE Count' + numThreadsBusy' <= numThreads'
    BY <1>1 DEF ThreadForEveryJob
  <2>1. numThreadsBusy # numThreads /\ queueEmpty
    BY DEF IsQueueFull
  <2> QED BY <1>1, <1>2, <1>3, <2>1 DEF IInv, ThreadForEveryJob, TypeOK
<1>9. DrainedBeforeExit'
  <2>1. \A w \in Workers : wpc'[w] # "exited"
    BY <1>4 DEF IInv, DrainedBeforeExit
  <2>2. opc' = "freed" => Executing' = {}
    BY <1>7 DEF WorkersInv, Executing
  <2> QED BY <2>1, <2>2 DEF DrainedBeforeExit
<1> QED BY <1>2, <1>5, <1>6, <1>7, <1>8, <1>9 DEF IInv

LEMMA ClientSteps ==
  ASSUME IInv, NEW p \in Pushers,
         CallAdd(p) \/ TryAdd(p) \/ AddSleep(p) \/ AddEnqueue(p)
  PROVE  IInv'
<1>1. TypeOK /\ MaxJobs \in Nat
  BY PoolAssumption DEF IInv
<1>2. CASE CallAdd(p)
  <2>1. TypeOK' /\ ClientsInv'
    BY <1>1, <1>2 DEF TypeOK, CallAdd, ctxVars, IInv, ClientsInv
  <2> QED BY <1>1, <1>2, <2>1, QuietStep DEF CallAdd, ctxVars, TypeOK, IInv, WorkersInv
<1>3. CASE AddSleep(p)
  <2>1. TypeOK' /\ ClientsInv'
    BY <1>1, <1>3 DEF TypeOK, AddSleep, ctxVars, IInv, ClientsInv
  <2> QED BY <1>1, <1>3, <2>1, QuietStep DEF AddSleep, ctxVars, TypeOK, IInv, WorkersInv
<1>4. CASE AddEnqueue(p)
  <2>1. /\ ppc' \in [Pushers -> {"idle", "add", "asleep"}]
        /\ pcount' \in [Pushers -> 0 .. MaxJobs]
        /\ ClientsInv'
    BY <1>1, <1>4 DEF TypeOK, AddEnqueue, IInv, ClientsInv
  <2>2. CASE shutdown
    <3>1. TypeOK'
      BY <1>1, <1>4, <2>1, <2>2 DEF TypeOK, AddEnqueue, AddInternal, ctxVars
    <3> QED BY <1>1, <1>4, <2>1, <2>2, <3>1, QuietStep
            DEF AddEnqueue, AddInternal, ctxVars, TypeOK, IInv, WorkersInv
  <2>3. CASE ~shutdown
    <3>1. JobOf(p) \in Jobs
      BY <1>1, <1>4 DEF AddEnqueue, JobOf, Jobs, TypeOK, IInv, ClientsInv
    <3> QED BY <1>4, <2>1, <2>3, <3>1, AcceptStep DEF AddEnqueue
  <2> QED BY <2>2, <2>3
<1>5. CASE TryAdd(p)
  <2>1. /\ ppc' \in [Pushers -> {"idle", "add", "asleep"}]
        /\ pcount' \in [Pushers -> 0 .. MaxJobs]
        /\ ClientsInv'
    BY <1>1, <1>5 DEF TypeOK, TryAdd, IInv, ClientsInv
  <2>2. CASE shutdown \/ IsQueueFull
    <3>1. UNCHANGED <<ctxVars, wpc>>
      BY <1>5, <2>2 DEF TryAdd, AddInternal
    <3>2. TypeOK'
      BY <1>1, <1>5, <2>1, <3>1 DEF TypeOK, TryAdd, ctxVars
    <3> QED BY <1>1, <1>5, <2>1, <3>1, <3>2, QuietStep
            DEF TryAdd, ctxVars, TypeOK, IInv, WorkersInv
  <2>3. CASE ~shutdown /\ ~IsQueueFull
    <3>1. <<p, pcount[p] + 1>> \in Jobs
      BY <1>1, <1>5 DEF TryAdd, Jobs, TypeOK
    <3> QED BY <1>5, <2>1, <2>3, <3>1, AcceptStep DEF TryAdd
  <2> QED BY <2>2, <2>3
<1> QED BY <1>2, <1>3, <1>4, <1>5

LEMMA OwnerSteps ==
  ASSUME IInv, CreateStep \/ FreeBegin \/ JoinStep \/ SpuriousWake
  PROVE  IInv'
<1>1. TypeOK
  BY DEF IInv
<1>2. CASE CreateStep
  <2>1. ASSUME NEW w \in Workers, CreateThread(w) PROVE IInv'
    <3>1. TypeOK' /\ ClientsInv'
      BY <1>1, <2>1 DEF TypeOK, CreateThread, ctxVars, IInv, ClientsInv
    <3> QED BY <1>1, <2>1, <3>1, QuietStep DEF CreateThread, ctxVars, TypeOK, IInv, WorkersInv
  <2>2. ASSUME CreateDone \/ CreateFail PROVE IInv'
    <3>1. numThreads' \in Nat
      <4>1. IsFiniteSet(Workers) /\ IsFiniteSet(Created)
        BY PoolAssumption, FS_Subset DEF Created
      <4> QED BY <2>2, <4>1, FS_CardinalityType DEF CreateDone, CreateFail
    <3>2. numThreads = 0 /\ opc = "create"
      BY <2>2 DEF CreateDone, CreateFail, IInv, WorkersInv
    <3>3. TypeOK' /\ ClientsInv'
      BY <1>1, <2>2, <3>1 DEF TypeOK, CreateDone, CreateFail, IInv, ClientsInv
    <3> QED BY <1>1, <2>2, <3>1, <3>2, <3>3, QuietStep
            DEF CreateDone, CreateFail, TypeOK
  <2> QED BY <1>2, <2>1, <2>2 DEF CreateStep
<1>3. CASE FreeBegin
  <2>1. TypeOK' /\ ClientsInv'
    BY <1>1, <1>3 DEF TypeOK, FreeBegin, ctxVars, IInv, ClientsInv
  <2> QED BY <1>1, <1>3, <2>1, QuietStep DEF FreeBegin, ctxVars, TypeOK
<1>4. CASE JoinShutdown
  <2>1. TypeOK' /\ ClientsInv'
    BY <1>1, <1>4 DEF TypeOK, JoinShutdown, IInv, ClientsInv
  <2> QED BY <1>1, <1>4, <2>1, QuietStep DEF JoinShutdown, TypeOK
<1>5. CASE JoinWakePushers
  <2>1. TypeOK' /\ ClientsInv'
    BY <1>1, <1>5 DEF TypeOK, JoinWakePushers, ctxVars, IInv, ClientsInv
  <2> QED BY <1>1, <1>5, <2>1, QuietStep DEF JoinWakePushers, ctxVars, TypeOK
<1>6. CASE JoinWakeWorkers
  <2>1. TypeOK' /\ ClientsInv'
    BY <1>1, <1>6 DEF TypeOK, JoinWakeWorkers, ctxVars, IInv, ClientsInv
  <2> QED BY <1>1, <1>6, <2>1, QuietStep DEF JoinWakeWorkers, ctxVars, TypeOK
<1>7. CASE FreeContext
  <2>1. TypeOK' /\ ClientsInv'
    BY <1>1, <1>7 DEF TypeOK, FreeContext, ctxVars, IInv, ClientsInv
  <2> QED BY <1>1, <1>7, <2>1, QuietStep DEF FreeContext, Created, ctxVars, TypeOK
<1>8. CASE SpuriousWake
  <2>1. TypeOK' /\ ClientsInv'
    BY <1>1, <1>8 DEF TypeOK, SpuriousWake, ctxVars, IInv, ClientsInv
  <2>2. \A w \in Workers : wpc'[w] = wpc[w] \/ (wpc[w] = "asleep" /\ wpc'[w] = "lock")
    BY <1>1, <1>8 DEF TypeOK, SpuriousWake
  <2> QED BY <1>1, <1>8, <2>1, <2>2, QuietStep
          DEF SpuriousWake, ctxVars, TypeOK, IInv, WorkersInv
<1> QED BY <1>2, <1>3, <1>4, <1>5, <1>6, <1>7, <1>8 DEF JoinStep

\* Every step of the pool keeps the invariant.
LEMMA NextIInv == IInv /\ [Next]_vars => IInv'
<1> SUFFICES ASSUME IInv, [Next]_vars PROVE IInv'
  OBVIOUS
<1>1. CASE CreateStep \/ FreeBegin \/ JoinStep \/ SpuriousWake
  BY <1>1, OwnerSteps
<1>2. ASSUME NEW w \in Workers, WorkerStep(w) PROVE IInv'
  BY <1>2, WorkerQuietSteps, WorkerPopStep, WorkerRanStep, WorkerUnbusyStep DEF WorkerStep
<1>3. ASSUME NEW p \in Pushers, CallAdd(p) \/ TryAdd(p) \/ AddStep(p) PROVE IInv'
  BY <1>3, ClientSteps DEF AddStep
<1>4. CASE Terminated \/ UNCHANGED vars
  <2>1. UNCHANGED vars
    BY <1>4 DEF Terminated
  <2>2. TypeOK' /\ ClientsInv'
    BY <2>1 DEF vars, ctxVars, TypeOK, IInv, ClientsInv
  <2> QED BY <2>1, <2>2, QuietStep DEF vars, ctxVars, TypeOK, IInv, WorkersInv
<1> QED BY <1>1, <1>2, <1>3, <1>4 DEF Next

-----------------------------------------------------------------------------
\* The pool's types hold whatever its size: in particular no index leaves the
\* circular buffer and numThreadsBusy, an unsigned size_t, never goes below 0.
THEOREM TypeCorrect == Spec => []TypeOK
<1>1. IInv => TypeOK
  BY DEF IInv
<1> QED BY InitIInv, NextIInv, <1>1, PTL DEF Spec

\* A pool created with queueSize 0 accepts a job only if a thread is free for
\* it, for any number of threads and clients (isQueueFull, POOL_thread).
THEOREM AcceptedJobHasThread == Spec => []ThreadForEveryJob
<1>1. IInv => ThreadForEveryJob
  BY DEF IInv
<1> QED BY InitIInv, NextIInv, <1>1, PTL DEF Spec

\* No worker leaves while an accepted job is in the buffer, and POOL_free
\* releases the memory only when no job runs (POOL_thread, POOL_join).
THEOREM NoJobAbandoned == Spec => []DrainedBeforeExit
<1>1. IInv => DrainedBeforeExit
  BY DEF IInv
<1> QED BY InitIInv, NextIInv, <1>1, PTL DEF Spec

-----------------------------------------------------------------------------
(* The pool implements the FIFO job queue.  JobQueue identifies jobs by      *)
(* name, so the argument needs that no job is ever in two places.            *)

Accepted == {queue[Slot(i)] : i \in 1 .. Count} \cup Executing \cup done

\* A job is in one slot, or held by one worker, or done.
UniqueInv ==
  /\ \A i, k \in 1 .. Count : queue[Slot(i)] = queue[Slot(k)] => i = k
  /\ \A v, w \in Workers : wjob[v] = wjob[w] /\ wjob[v] # NoJob => v = w
  /\ \A i \in 1 .. Count, w \in Workers : queue[Slot(i)] # wjob[w]
  /\ \A i \in 1 .. Count : queue[Slot(i)] \notin done
  /\ \A w \in Workers : wjob[w] \notin done

\* The job a client is submitting has not been accepted before.
FreshInv ==
  \A j \in Accepted : /\ j[2] <= pcount[j[1]]
                      /\ ppc[j[1]] # "idle" => j[2] < pcount[j[1]]

RInv == IInv /\ UniqueInv /\ FreshInv

LEMMA ContentFacts ==
  ASSUME IInv
  PROVE  /\ Content \in Seq(Jobs)
         /\ Len(Content) = Count
         /\ \A i \in 1 .. Count : Content[i] = queue[Slot(i)] /\ queue[Slot(i)] \in Jobs
         /\ Executing \subseteq Jobs
         /\ Accepted \subseteq Jobs
<1>1. Count \in Nat
  BY CountFacts DEF IInv
<1>2. \A i \in 1 .. Count : queue[Slot(i)] \in Jobs
  BY CountFacts DEF IInv, NoHoles, TypeOK
<1>3. Content \in [1 .. Count -> Jobs]
  BY <1>2 DEF Content
<1>4. Content \in Seq(Jobs) /\ Len(Content) = Count
  BY <1>1, <1>3
<1>5. Executing \subseteq Jobs
  BY DEF Executing, IInv, TypeOK
<1>6. Accepted \subseteq Jobs
  BY <1>2, <1>5 DEF Accepted, IInv, TypeOK
<1> QED BY <1>2, <1>4, <1>5, <1>6 DEF Content

\* A step that moves no job keeps RInv and is invisible in JobQueue.
LEMMA StutterStep ==
  ASSUME RInv, IInv',
         UNCHANGED <<queue, queueHead, queueTail, queueSize, queueEmpty, wjob, done>>,
         \A p \in Pushers : /\ pcount[p] <= pcount'[p]
                            /\ ppc'[p] # "idle" /\ ppc[p] = "idle" => pcount[p] < pcount'[p]
  PROVE  RInv' /\ UNCHANGED JQ!jqVars
<1>1. Count' = Count /\ (\A i : Slot(i)' = Slot(i)) /\ Content' = Content
  BY SameBuffer
<1>2. Executing' = Executing
  BY DEF Executing
<1>3. Accepted' = Accepted
  BY <1>1, <1>2 DEF Accepted
<1>4. UniqueInv'
  BY <1>1 DEF RInv, UniqueInv
<1>5. FreshInv'
  <2> SUFFICES ASSUME NEW j \in Accepted
               PROVE  /\ j[2] <= pcount'[j[1]]
                      /\ ppc'[j[1]] # "idle" => j[2] < pcount'[j[1]]
    BY <1>3 DEF FreshInv
  <2>1. /\ j[1] \in Pushers /\ j[2] \in Nat
        /\ pcount[j[1]] \in Nat /\ pcount'[j[1]] \in Nat
    BY ContentFacts, PoolAssumption DEF Jobs, RInv, IInv, TypeOK
  <2> QED BY <2>1 DEF RInv, FreshInv
<1> QED BY <1>1, <1>2, <1>4, <1>5 DEF RInv, JQ!jqVars

\* POOL_thread takes a job: JobQueue starts its oldest one.
LEMMA PopStarts ==
  ASSUME RInv, IInv', NEW w \in Workers, WorkerPop(w)
  PROVE  RInv' /\ JQ!Start
<1>1. /\ TypeOK
      /\ UNCHANGED <<queue, queueSize, ppc, pcount, done>>
      /\ wpc[w] = "lock"
      /\ wjob' = [wjob EXCEPT ![w] = queue[queueHead]]
  BY DEF RInv, IInv, WorkerPop
<1>2. /\ Count > 0 /\ Count' = Count - 1 /\ Slot(1) = queueHead
      /\ \A i \in 1 .. Count' : Slot(i)' = Slot(i + 1)
  BY PopBuffer DEF RInv
<1>3. Count \in Nat /\ 1 \in 1 .. Count
  BY <1>2, CountFacts DEF RInv, IInv
<1>4. /\ \A i \in 1 .. Count' : i + 1 \in 1 .. Count /\ queue'[Slot(i)'] = queue[Slot(i + 1)]
      /\ wjob[w] = NoJob
  BY <1>1, <1>2, <1>3 DEF RInv, IInv, WorkersInv
<1>5. \A i \in 1 .. Count : queue[Slot(i)] \in Jobs
  BY ContentFacts DEF RInv
<1>6. wjob'[w] = queue[Slot(1)] /\ \A v \in Workers \ {w} : wjob'[v] = wjob[v]
  BY <1>1, <1>2 DEF TypeOK
<1>7. Executing' = Executing \cup {queue[Slot(1)]}
  BY <1>3, <1>4, <1>5, <1>6, NoJobIsNoJob DEF Executing
<1>8. Content' = Tail(Content) /\ Head(Content) = queue[Slot(1)] /\ Content # <<>>
  <2>1. /\ Content \in Seq(Jobs) /\ Len(Content) = Count
        /\ \A i \in 1 .. Count : Content[i] = queue[Slot(i)]
    BY ContentFacts DEF RInv
  <2>2. /\ Content' \in Seq(Jobs) /\ Len(Content') = Count'
        /\ \A i \in 1 .. Count' : Content'[i] = queue'[Slot(i)']
    <3>1. Content' \in [1 .. Count' -> Jobs] /\ Count' \in Nat
      BY <1>2, <1>3, <1>4, <1>5 DEF Content
    <3> QED BY <3>1 DEF Content
  <2>3. Content # <<>> /\ Head(Content) = queue[Slot(1)]
    BY <1>2, <1>3, <2>1
  <2>4. /\ Tail(Content) \in Seq(Jobs) /\ Len(Tail(Content)) = Count'
        /\ \A i \in 1 .. Count' : Tail(Content)[i] = Content[i + 1]
    BY <1>2, <1>3, <2>1, <2>3, HeadTailProperties
  <2>5. \A i \in 1 .. Count' : Content'[i] = Tail(Content)[i]
    BY <1>2, <1>3, <1>4, <2>1, <2>2, <2>4
  <2> QED BY <2>2, <2>3, <2>4, <2>5, SeqEqual
<1>9. UniqueInv'
  <2>1. \A i, k \in 1 .. Count' : queue'[Slot(i)'] = queue'[Slot(k)'] => i = k
    BY <1>2, <1>3, <1>4 DEF RInv, UniqueInv
  <2>2. \A i \in 1 .. Count', v \in Workers : queue'[Slot(i)'] # wjob'[v]
    <3> TAKE i \in 1 .. Count', v \in Workers
    <3>1. CASE v = w
      BY <1>2, <1>3, <1>4, <1>6, <3>1 DEF RInv, UniqueInv
    <3>2. CASE v # w
      BY <1>4, <1>6, <3>2 DEF RInv, UniqueInv
    <3> QED BY <3>1, <3>2
  <2>3. \A u, v \in Workers : wjob'[u] = wjob'[v] /\ wjob'[u] # NoJob => u = v
    BY <1>3, <1>6 DEF RInv, UniqueInv
  <2>4. \A i \in 1 .. Count' : queue'[Slot(i)'] \notin done'
    BY <1>1, <1>4 DEF RInv, UniqueInv
  <2>5. \A v \in Workers : wjob'[v] \notin done'
    BY <1>1, <1>3, <1>6 DEF RInv, UniqueInv
  <2> QED BY <2>1, <2>2, <2>3, <2>4, <2>5 DEF UniqueInv
<1>10. FreshInv'
  <2>1. Accepted' \subseteq Accepted
    BY <1>1, <1>3, <1>4, <1>7 DEF Accepted
  <2> QED BY <1>1, <2>1 DEF RInv, FreshInv
<1> QED BY <1>1, <1>7, <1>8, <1>9, <1>10 DEF RInv, JQ!Start

\* The job function returns: JobQueue finishes that job.
LEMMA RanFinishes ==
  ASSUME RInv, IInv', NEW w \in Workers, WorkerRan(w)
  PROVE  RInv' /\ \E j \in Jobs : JQ!Finish(j)
<1>1. /\ TypeOK
      /\ UNCHANGED <<queue, queueHead, queueTail, queueSize, queueEmpty, ppc, pcount>>
      /\ wpc[w] = "run"
      /\ wjob' = [wjob EXCEPT ![w] = NoJob]
      /\ done' = done \cup {wjob[w]}
  BY DEF RInv, IInv, WorkerRan, ctxVars
<1>2. Count' = Count /\ (\A i : Slot(i)' = Slot(i)) /\ Content' = Content
  BY <1>1, SameBuffer
<1>3. wjob[w] # NoJob /\ wjob[w] \in Jobs /\ wjob[w] \in Executing
  BY <1>1 DEF RInv, IInv, WorkersInv, TypeOK, Executing
<1>4. wjob'[w] = NoJob /\ \A v \in Workers \ {w} : wjob'[v] = wjob[v]
  BY <1>1 DEF TypeOK
<1>5. Executing' = Executing \ {wjob[w]}
  BY <1>3, <1>4 DEF Executing, RInv, UniqueInv
<1>6. UniqueInv'
  <2>1. done \subseteq Jobs /\ NoJob \notin done'
    BY <1>1, <1>3, NoJobIsNoJob DEF TypeOK
  <2>2. \A v \in Workers : wjob'[v] \notin done'
    BY <1>1, <1>3, <1>4, <2>1 DEF RInv, UniqueInv
  <2>3. \A i \in 1 .. Count, v \in Workers : queue[Slot(i)] # wjob'[v]
    BY <1>4, ContentFacts, NoJobIsNoJob DEF RInv, UniqueInv
  <2> QED BY <1>1, <1>2, <1>4, <2>2, <2>3 DEF RInv, UniqueInv
<1>7. FreshInv'
  <2>1. Accepted' = Accepted
    BY <1>1, <1>2, <1>3, <1>5 DEF Accepted
  <2> QED BY <1>1, <2>1 DEF RInv, FreshInv
<1>8. JQ!Finish(wjob[w])
  BY <1>1, <1>2, <1>3, <1>5 DEF JQ!Finish
<1> QED BY <1>3, <1>6, <1>7, <1>8 DEF RInv

\* An accepted job goes behind the others: JobQueue's Submit.  `fresh` says
\* the job was not accepted before, and that nothing is left to submit again.
LEMMA AddSubmits ==
  ASSUME RInv, IInv', ~IsQueueFull, ~shutdown, NEW job \in Jobs, AddInternal(job),
         UNCHANGED <<wjob, done>>,
         job \notin Accepted,
         \A j \in Accepted \cup {job} :
            /\ j[2] <= pcount'[j[1]]
            /\ ppc'[j[1]] # "idle" => j[2] < pcount'[j[1]]
  PROVE  RInv' /\ JQ!Submit(job)
<1>1. /\ Count' = Count + 1
      /\ \A i \in 1 .. Count : Slot(i)' = Slot(i) /\ queue'[Slot(i)'] = queue[Slot(i)]
      /\ queue'[Slot(Count)'] = job
  BY AddBuffer DEF RInv
<1>2. Count \in Nat
  BY CountFacts DEF RInv, IInv
<1>3. Executing' = Executing
  BY DEF Executing
<1>4. \A i \in 1 .. Count : queue[Slot(i)] \in Jobs
  BY ContentFacts DEF RInv
<1>5. Content' = Append(Content, job)
  <2>1. /\ Content \in Seq(Jobs) /\ Len(Content) = Count
        /\ \A i \in 1 .. Count : Content[i] = queue[Slot(i)]
    BY ContentFacts DEF RInv
  <2>2. \A i \in 1 .. Count' : queue'[Slot(i)'] = (IF i = Count' THEN job ELSE queue[Slot(i)])
    <3> TAKE i \in 1 .. Count'
    <3>1. CASE i = Count'
      BY <1>1, <3>1
    <3>2. CASE i # Count'
      <4>1. i \in 1 .. Count
        BY <1>1, <1>2, <3>2
      <4> QED BY <1>1, <3>2, <4>1
    <3> QED BY <3>1, <3>2
  <2>3. /\ Content' \in Seq(Jobs) /\ Len(Content') = Count'
        /\ \A i \in 1 .. Count' : Content'[i] = queue'[Slot(i)']
    <3>1. Content' \in [1 .. Count' -> Jobs] /\ Count' \in Nat
      BY <1>1, <1>2, <1>4, <2>2 DEF Content
    <3> QED BY <3>1 DEF Content
  <2>4. /\ Append(Content, job) \in Seq(Jobs) /\ Len(Append(Content, job)) = Count'
        /\ \A i \in 1 .. Count : Append(Content, job)[i] = Content[i]
        /\ Append(Content, job)[Count + 1] = job
    BY <1>1, <2>1, AppendProperties
  <2>5. \A i \in 1 .. Count' : Content'[i] = Append(Content, job)[i]
    BY <1>1, <1>2, <2>1, <2>2, <2>3, <2>4
  <2> QED BY <2>3, <2>4, <2>5, SeqEqual
<1>6. /\ \A i \in 1 .. Count : queue[Slot(i)] # job
      /\ \A w \in Workers : wjob[w] # job
      /\ job \notin done /\ job \notin Executing
  BY NoJobIsNoJob DEF Accepted, Executing
<1>7. \A i \in 1 .. Count' : \/ i \in 1 .. Count /\ queue'[Slot(i)'] = queue[Slot(i)]
                             \/ i = Count' /\ queue'[Slot(i)'] = job
  BY <1>1, <1>2
<1>8. UniqueInv'
  <2>1. \A i, k \in 1 .. Count' : queue'[Slot(i)'] = queue'[Slot(k)'] => i = k
    BY <1>6, <1>7 DEF RInv, UniqueInv
  <2>2. \A i \in 1 .. Count', w \in Workers : queue'[Slot(i)'] # wjob'[w]
    BY <1>6, <1>7 DEF RInv, UniqueInv
  <2>3. \A i \in 1 .. Count' : queue'[Slot(i)'] \notin done'
    BY <1>6, <1>7 DEF RInv, UniqueInv
  <2> QED BY <2>1, <2>2, <2>3 DEF RInv, UniqueInv
<1>9. FreshInv'
  <2>1. Accepted' \subseteq Accepted \cup {job}
    BY <1>3, <1>7 DEF Accepted
  <2> QED BY <2>1 DEF FreshInv
<1>10. JQ!Submit(job)
  <2>1. \A i \in 1 .. Len(Content) : Content[i] # job
    BY <1>6, ContentFacts DEF RInv
  <2> QED BY <1>3, <1>5, <1>6, <2>1 DEF JQ!Submit
<1> QED BY <1>8, <1>9, <1>10 DEF RInv

LEMMA ClientRefines ==
  ASSUME RInv, IInv', NEW p \in Pushers,
         CallAdd(p) \/ TryAdd(p) \/ AddSleep(p) \/ AddEnqueue(p)
  PROVE  RInv' /\ ((\E j \in Jobs : JQ!Submit(j)) \/ UNCHANGED JQ!jqVars)
<1>1. TypeOK /\ MaxJobs \in Nat /\ \A q \in Pushers : pcount[q] \in Nat
  BY PoolAssumption, SMTT(30) DEF RInv, IInv, TypeOK
<1>2. \A j \in Accepted : j \in Jobs /\ j[1] \in Pushers /\ j[2] \in Nat
  BY ContentFacts, PoolAssumption DEF RInv, Jobs
<1>3. CASE CallAdd(p)
  BY <1>1, <1>3, StutterStep DEF CallAdd, ctxVars, TypeOK
<1>4. CASE AddSleep(p)
  BY <1>1, <1>4, StutterStep DEF AddSleep, ctxVars, TypeOK
<1>5. CASE AddEnqueue(p)
  <2>1. /\ ppc[p] = "add" /\ AddInternal(JobOf(p))
        /\ ppc' = [ppc EXCEPT ![p] = "idle"]
        /\ UNCHANGED <<opc, wjob, pcount, done>>
    BY <1>5 DEF AddEnqueue
  <2>2. CASE shutdown
    BY <1>1, <2>1, <2>2, StutterStep DEF AddInternal, ctxVars, TypeOK
  <2>3. CASE ~shutdown
    <3>1. ~IsQueueFull
      BY <1>5, <2>3 DEF AddEnqueue
    <3>2. JobOf(p) \in Jobs /\ JobOf(p)[1] = p /\ JobOf(p)[2] = pcount[p]
      BY <1>1, <2>1 DEF JobOf, Jobs, RInv, IInv, ClientsInv, TypeOK
    <3>3. JobOf(p) \notin Accepted
      BY <1>1, <2>1, <3>2 DEF RInv, FreshInv
    <3>4. ASSUME NEW j \in Accepted \cup {JobOf(p)}
          PROVE  j[2] <= pcount'[j[1]] /\ (ppc'[j[1]] # "idle" => j[2] < pcount'[j[1]])
      <4>1. CASE j = JobOf(p)
        BY <1>1, <2>1, <3>2, <4>1 DEF TypeOK
      <4>2. CASE j \in Accepted
        BY <1>1, <1>2, <2>1, <4>2 DEF RInv, FreshInv, TypeOK
      <4> QED BY <4>1, <4>2
    <3> QED BY <2>1, <2>3, <3>1, <3>2, <3>3, <3>4, AddSubmits
  <2> QED BY <2>2, <2>3
<1>6. CASE TryAdd(p)
  <2>1. /\ ppc[p] = "idle" /\ UNCHANGED <<opc, wjob, ppc, done>>
        /\ pcount' = [pcount EXCEPT ![p] = @ + 1]
    BY <1>6 DEF TryAdd
  <2>2. CASE shutdown \/ IsQueueFull
    <3>1. UNCHANGED ctxVars
      BY <1>6, <2>2 DEF TryAdd, AddInternal
    <3> QED BY <1>1, <2>1, <3>1, StutterStep DEF ctxVars, TypeOK
  <2>3. CASE ~shutdown /\ ~IsQueueFull
    <3> DEFINE job == <<p, pcount[p] + 1>>
    <3>1. AddInternal(job)
      BY <1>6, <2>3 DEF TryAdd
    <3>2. job \in Jobs /\ job[1] = p /\ job[2] = pcount[p] + 1
      BY <1>1, <1>6 DEF TryAdd, Jobs, TypeOK
    <3>3. job \notin Accepted
      BY <1>1, <3>2 DEF RInv, FreshInv
    <3>4. ASSUME NEW j \in Accepted \cup {job}
          PROVE  j[2] <= pcount'[j[1]] /\ (ppc'[j[1]] # "idle" => j[2] < pcount'[j[1]])
      <4>1. CASE j = job
        BY <1>1, <2>1, <3>2, <4>1 DEF TypeOK
      <4>2. CASE j \in Accepted
        BY <1>1, <1>2, <2>1, <4>2 DEF RInv, FreshInv, TypeOK
      <4> QED BY <4>1, <4>2
    <3> HIDE DEF job
    <3> QED BY <2>1, <2>3, <3>1, <3>2, <3>3, <3>4, AddSubmits
  <2> QED BY <2>2, <2>3
<1> QED BY <1>3, <1>4, <1>5, <1>6

LEMMA NextRefines == RInv /\ [Next]_vars => RInv' /\ [JQ!JQNext]_(JQ!jqVars)
<1> SUFFICES ASSUME RInv, [Next]_vars PROVE RInv' /\ [JQ!JQNext]_(JQ!jqVars)
  OBVIOUS
<1>1. IInv'
  BY NextIInv DEF RInv
<1>2. TypeOK
  BY DEF RInv, IInv
<1>3. CASE CreateStep \/ FreeBegin \/ JoinStep \/ SpuriousWake
  <2>1. /\ UNCHANGED <<queue, queueHead, queueTail, queueSize, queueEmpty, wjob, done, pcount>>
        /\ \A p \in Pushers : ppc'[p] # "idle" => ppc[p] # "idle"
        /\ \A p \in Pushers : pcount[p] <= pcount[p]
    BY <1>2, <1>3
       DEF CreateStep, CreateThread, CreateDone, CreateFail, FreeBegin, JoinStep,
           JoinShutdown, JoinWakePushers, JoinWakeWorkers, FreeContext, SpuriousWake,
           ctxVars, TypeOK
  <2> QED BY <1>1, <2>1, StutterStep
<1>4. ASSUME NEW w \in Workers, WorkerStep(w) PROVE RInv' /\ [JQ!JQNext]_(JQ!jqVars)
  <2>1. CASE WorkerPop(w)
    BY <1>1, <2>1, PopStarts DEF JQ!JQNext
  <2>2. CASE WorkerRan(w)
    BY <1>1, <2>2, RanFinishes DEF JQ!JQNext
  <2>3. CASE \/ WorkerSleep(w) \/ WorkerExit(w) \/ WorkerSignalPopped(w)
             \/ WorkerUnbusy(w) \/ WorkerSignalIdle(w)
    <3>1. /\ UNCHANGED <<queue, queueHead, queueTail, queueSize, queueEmpty, wjob, done, pcount>>
          /\ \A p \in Pushers : ppc'[p] # "idle" => ppc[p] # "idle"
          /\ \A p \in Pushers : pcount[p] <= pcount[p]
      BY <1>2, <2>3, SignalPushEffect
         DEF WorkerSleep, WorkerExit, WorkerSignalPopped, WorkerUnbusy, WorkerSignalIdle,
             ctxVars, TypeOK
    <3> QED BY <1>1, <3>1, StutterStep
  <2> QED BY <1>4, <2>1, <2>2, <2>3 DEF WorkerStep
<1>5. ASSUME NEW p \in Pushers, CallAdd(p) \/ TryAdd(p) \/ AddStep(p)
      PROVE  RInv' /\ [JQ!JQNext]_(JQ!jqVars)
  BY <1>1, <1>5, ClientRefines DEF AddStep, JQ!JQNext
<1>6. CASE Terminated \/ UNCHANGED vars
  <2>1. UNCHANGED vars /\ \A p \in Pushers : pcount[p] <= pcount[p]
    BY <1>2, <1>6 DEF Terminated, TypeOK
  <2> QED BY <1>1, <2>1, StutterStep DEF vars, ctxVars
<1> QED BY <1>3, <1>4, <1>5, <1>6 DEF Next

LEMMA InitRefines == Init => RInv /\ JQ!JQInit
<1> SUFFICES ASSUME Init PROVE RInv /\ JQ!JQInit
  OBVIOUS
<1>1. Count = 0 /\ Executing = {} /\ done = {}
  BY DEF Init, Count, Executing
<1>2. Content = <<>>
  BY <1>1 DEF Content
<1>3. Accepted = {}
  BY <1>1 DEF Accepted
<1>4. UniqueInv /\ FreshInv
  BY <1>1, <1>3 DEF Init, UniqueInv, FreshInv
<1> QED BY <1>1, <1>2, <1>4, InitIInv DEF RInv, JQ!JQInit

\* Whatever the interleaving, POOL_add, POOL_tryAdd, POOL_thread and POOL_free
\* together behave as a FIFO queue of jobs, each executed at most once, for
\* every number of threads and clients and every queue size.
THEOREM PoolIsAJobQueue == Spec => ImplementsJobQueue
<1> QED BY InitRefines, NextRefines, PTL DEF Spec, ImplementsJobQueue, JQ!JQSpec
=============================================================================
