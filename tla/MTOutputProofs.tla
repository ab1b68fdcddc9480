--------------------------- MODULE MTOutputProofs ---------------------------
(***************************************************************************)
(* What the caller of MTStream receives is the encoding of its input, for  *)
(* any number of workers, any job table, job size, room, input and number  *)
(* of frames and failures: EncodesInput, the specification of MTFrame, and *)
(* ZeroMeansFlushed.                                                       *)
(*                                                                         *)
(* IInv of MTStreamProofs says where the jobs lie and who works on them;   *)
(* Content, below, what they contain.  The three uses of MTStream that     *)
(* break the rules of the others are left out (Uses = {}).                 *)
(***************************************************************************)
EXTENDS MTStreamProofs

\* What the jobs and the caller's output contain.  The frame's tokens are
\* numbered from 1: its header, a block for each chunk, the end mark, the checksum.

Tok(p) ==
  IF p = 1 THEN Header(want)
  ELSE IF p <= taken + 1 THEN Block(p - 1)
  ELSE IF p = taken + 2 THEN LastMark ELSE HashOf(taken)

Live == doneJobID .. nextJobID - 1

\* The chunks cut into jobs that were posted, and where the input of a job begins.
CutAt == IF jobReady THEN jobs[Slot(nextJobID)].lo ELSE taken - inBuff.filled
Lo(id) == IF id < nextJobID THEN jobs[Slot(id)].lo ELSE CutAt

\* The tokens before those of job j, and up to its last one.
Base(j) == IF j.jobID = 0 THEN 0 ELSE j.lo + 1
EndPos(j) == j.lo + j.size + 1 + (IF j.last THEN 1 + Flag(want) ELSE 0)
Full(j) == Base(j) + Len(j.out) + Flag(j.needSum) = EndPos(j)
Section(j) ==
  /\ \A i \in 1 .. Len(j.out) : j.out[i] = Tok(Base(j) + i)
  /\ Base(j) + Len(j.out) + Flag(j.needSum) <= EndPos(j)

\* Who writes the checksum: the worker of a frame's only job, or the
\* application thread when a later job that ends the frame is complete.
SumOf(j) ==
  /\ j.jobID = 0 => j.checksum = want
  /\ j.needSum => j.last /\ j.jobID > 0 /\ want
  /\ j.consumed < j.size /\ j.last /\ j.jobID > 0 /\ want => j.needSum

\* The input is cut into jobs one after the other; the last ends the frame.
Cutting ==
  /\ checksumFlag => want
  /\ status = "open" =>
       /\ ~frameEnded => checksumFlag = want
       /\ serial.checksum = want
       /\ frameEnded /\ ~jobReady => nextJobID > 0
       /\ doneJobID = 0 => Lo(0) = 0
       /\ jobReady =>
            LET r == jobs[Slot(nextJobID)] IN
            inBuff.filled = 0 /\ r.lo + r.size = taken /\ r.last = frameEnded /\ SumOf(r)
       /\ \A id \in Live :
            LET j == jobs[Slot(id)] IN
            /\ j.lo + j.size = Lo(id + 1) /\ j.lo + j.size <= taken
            /\ j.last = (frameEnded /\ ~jobReady /\ id = nextJobID - 1)
            /\ j.size = 0 => j.last
            /\ SumOf(j)

\* The output of each job is a section of the frame, whole once it is complete.
Writing ==
  status = "open" =>
    /\ \A id \in Live :
         LET j == jobs[Slot(id)] IN
         Section(j) /\ (Complete(j) /\ ~j.error => Full(j))
    /\ \A w \in Workers : wpc[w] \in {"finish", "report"} /\ ~Job(w).error => Full(Job(w))

\* What the caller has received, and how far into the frame that is.
Given ==
  status = "open" =>
    /\ \A i \in 1 .. Len(given) : given[i] = Tok(i)
    /\ doneJobID < nextJobID => Len(given) = Base(Current) + Current.dstFlushed
    /\ \A id \in Live : id # doneJobID => jobs[Slot(id)].dstFlushed = 0
    /\ doneJobID = nextJobID =>
         Len(given) = IF nextJobID = 0 THEN 0
                      ELSE IF frameEnded /\ ~jobReady THEN taken + 2 + Flag(want)
                      ELSE CutAt + 1

\* As long as no job failed the turns are taken in order, none is passed over,
\* and the hash covers the input up to the job whose turn it is.
Clean == \A id \in Live : ~jobs[Slot(id)].error

Turns ==
  status = "open" /\ Clean =>
    /\ \A w \in Workers :
         /\ wpc[w] \in {"begin", "serial", "asleep"} => serial.nextJobID <= Job(w).jobID
         /\ wpc[w] = "report" => Job(w).jobID < serial.nextJobID
    /\ queued # NoSlot => serial.nextJobID <= jobs[queued].jobID
    /\ \A id \in Live :
         LET j == jobs[Slot(id)] IN
         Complete(j) /\ j.size > 0 => id < serial.nextJobID
    /\ serial.nextJobID <= nextJobID
    /\ serial.nextJobID < doneJobID => doneJobID = nextJobID /\ frameEnded /\ ~jobReady
    /\ want /\ doneJobID <= serial.nextJobID => serial.hashed = Lo(serial.nextJobID)

Content == Cutting /\ Writing /\ Given /\ Turns /\ ZeroMeansFlushed

-----------------------------------------------------------------------------
\* The jobs posted, and those of the workers, are where their ids say.

LEMMA LiveJob ==
  ASSUME IInv, NEW id \in Live
  PROVE  /\ id \in Nat /\ doneJobID <= id /\ id < nextJobID
         /\ Slot(id) \in Slots /\ Slot(id) \in Pending
         /\ jobs[Slot(id)] \in JobRecord /\ JobBound(jobs[Slot(id)], frame)
         /\ jobs[Slot(id)].jobID = id /\ jobs[Slot(id)].dstFlushed <= Len(jobs[Slot(id)].out)
<1>1. doneJobID \in Nat /\ nextJobID \in Nat
  BY DEF IInv, Types
<1>2. id \in Nat /\ doneJobID <= id /\ id < nextJobID
  BY <1>1 DEF Live
<1>3. Slot(id) \in Slots /\ Slot(id) \in Pending
  BY <1>2, SlotInTable DEF Pending, Live
<1> QED BY <1>2, <1>3 DEF IInv, Types, Bounds, Placed, Live

LEMMA WorkerJob ==
  ASSUME IInv, NEW w \in Workers, Active(w)
  PROVE  /\ wjob[w] \in Slots /\ Job(w) = jobs[wjob[w]] /\ Job(w) \in JobRecord
         /\ Job(w).jobID \in Live /\ wjob[w] = Slot(Job(w).jobID)
         /\ Job(w).consumed < Job(w).size
<1>1. wjob[w] \in Pending /\ Job(w).consumed < Job(w).size
  BY DEF IInv, Working
<1>2. /\ wjob[w] \in Slots /\ jobs[wjob[w]].jobID \in Live
      /\ wjob[w] = Slot(jobs[wjob[w]].jobID)
  BY <1>1, PendingJob DEF IInv, Live
<1> QED BY <1>1, <1>2 DEF IInv, Types, Job

\* The prepared job has a slot of its own.
LEMMA ReadyJob ==
  ASSUME IInv, status = "open", jobReady
  PROVE  /\ nextJobID \in Nat /\ Slot(nextJobID) \in Slots \ Pending
         /\ jobs[Slot(nextJobID)] \in JobRecord /\ jobs[Slot(nextJobID)].jobID = nextJobID
         /\ Fresh(jobs[Slot(nextJobID)])
<1>1. nextJobID < doneJobID + NbSlots
  BY DEF IInv, Ready
<1>2. Slot(nextJobID) \in Slots \ Pending
  BY <1>1, NextSlotFree DEF IInv
<1> QED BY <1>2 DEF IInv, Types, Ready

-----------------------------------------------------------------------------
\* Initially, and steps that write nothing.

LEMMA InitContent == Init => Content
<1> SUFFICES ASSUME Init PROVE Content
  OBVIOUS
<1>1. checksumFlag = FALSE /\ status = "none" /\ ret = "none"
  BY DEF Init, FrameInit
<1> QED BY <1>1 DEF Content, Cutting, Writing, Given, Turns, ZeroMeansFlushed

LEMMA NothingWritten ==
  ASSUME Content,
         UNCHANGED <<jobs, doneJobID, nextJobID, jobReady, frameEnded, checksumFlag,
                     inBuff, serial, queued, wpc, wjob, ret, taken, given, want, status>>,
         mpc' = "idle" => mpc = "idle"
  PROVE  Content'
<1> USE DEF Content
<1>1. /\ Live' = Live /\ CutAt' = CutAt /\ Current' = Current
      /\ \A w : Job(w)' = Job(w)
  BY DEF Live, CutAt, Current, Job
<1>2. Cutting'
  BY <1>1 DEF Cutting, Lo, SumOf
<1>3. Writing'
  BY <1>1 DEF Writing, Section, Tok, EndPos, Full
<1>4. Given'
  BY <1>1 DEF Given, Tok
<1>5. Turns'
  BY <1>1 DEF Turns, Clean, Lo
<1>6. ZeroMeansFlushed'
  BY DEF ZeroMeansFlushed
<1> QED BY <1>2, <1>3, <1>4, <1>5, <1>6

LEMMA QuietContent ==
  ASSUME IInv, Content, \/ StartFrame \/ CreateNothing \/ FlushSleep \/ FlushError
                        \/ \E op \in {"continue", "flush", "end"}, room \in Rooms :
                             \/ CallNoInput(op, room)
                             \/ \E avail \in 1 .. MaxInput - taken : FillRefused(op, avail, room)
  PROVE  Content'
<1>1. CASE StartFrame \/ CreateNothing \/ FlushSleep \/ FlushError
  BY <1>1, NothingWritten DEF StartFrame, CreateNothing, FlushSleep, FlushError,
     mainVars, poolVars, workerVars, frameVars
<1>2. ASSUME NEW op \in {"continue", "flush", "end"}, NEW room \in Rooms,
             \/ CallNoInput(op, room)
             \/ \E avail \in 1 .. MaxInput - taken : FillRefused(op, avail, room)
      PROVE  Content'
  <2>1. /\ UNCHANGED <<jobs, mainVars, serial, poolVars, workerVars, ret, frameVars>>
        /\ mpc' = "create"
    BY <1>2 DEF CallNoInput, FillRefused, EnterCall
  <2> QED BY <2>1, NothingWritten DEF mainVars, poolVars, workerVars, frameVars
<1> QED BY <1>1, <1>2

\* New input changes nothing of what was cut, written or given: the end of the
\* frame is not yet in any output.
LEMMA FillInputContent ==
  ASSUME IInv, Content, NEW op \in {"continue", "flush", "end"}, NEW room \in Rooms,
         NEW avail \in 1 .. MaxInput - taken, FillInput(op, avail, room)
  PROVE  Content'
<1> USE DEF Content
<1> DEFINE load == Load(avail)
<1>1. /\ taken \in Nat /\ inBuff.filled \in Nat /\ avail \in Nat /\ avail > 0
      /\ doneJobID \in Nat /\ nextJobID \in Nat /\ doneJobID <= nextJobID
      /\ inBuff.filled <= taken /\ inBuff.filled <= TargetSize
  BY ConstantTypes DEF IInv, Types, Placed, Stages, Bounds
<1>2. load \in Nat
  BY <1>1, ConstantTypes DEF Load, Smallest
<1>3. /\ inBuff' = [set |-> TRUE, filled |-> inBuff.filled + load]
      /\ taken' = taken + load /\ mpc' = "create"
      /\ UNCHANGED <<jobs, doneJobID, nextJobID, jobReady, frameEnded,
                     checksumFlag, serial, queued, wpc, wjob, ret, given, want, status>>
      /\ status = "open" /\ ~jobReady /\ ~frameEnded
  BY <1>1 DEF FillInput, EnterCall, CanCall, poolVars, workerVars
<1> HIDE DEF load
<1>4. \A p \in Nat : p <= taken + 1 => Tok(p)' = Tok(p)
  BY <1>1, <1>2, <1>3 DEF Tok
<1>5. /\ Live' = Live /\ CutAt' = CutAt /\ CutAt <= taken /\ CutAt \in Nat /\ Current' = Current
      /\ \A w : Job(w)' = Job(w)
  BY <1>1, <1>2, <1>3 DEF Live, CutAt, Current, Job
<1>6. ASSUME NEW id \in Live
      PROVE  LET j == jobs[Slot(id)] IN
             /\ ~j.last /\ Base(j) \in Nat /\ Len(j.out) \in Nat
             /\ Base(j) + Len(j.out) <= taken + 1
  <2> DEFINE j == jobs[Slot(id)]
  <2>1. /\ j \in JobRecord /\ j.lo + j.size <= taken /\ ~j.last
        /\ Base(j) + Len(j.out) + Flag(j.needSum) <= EndPos(j)
    BY <1>3, LiveJob DEF Cutting, Writing, Section
  <2>2. /\ j.lo \in Nat /\ j.size \in Nat /\ Len(j.out) \in Nat /\ j.jobID \in Nat
        /\ Flag(j.needSum) \in Nat
    BY <2>1, JobFields DEF Flag
  <2> HIDE DEF j
  <2>3. Base(j) \in Nat /\ EndPos(j) = j.lo + j.size + 1
    BY <2>1, <2>2 DEF Base, EndPos
  <2>4. Base(j) + Len(j.out) <= taken + 1
    BY <1>1, <2>1, <2>2, <2>3
  <2> QED BY <2>1, <2>2, <2>3, <2>4 DEF j
<1>7. ASSUME NEW i \in 1 .. Len(given)
      PROVE  Tok(i)' = Tok(i) /\ i \in Nat
  <2>1. Len(given) \in Nat
    BY DEF IInv, Types
  <2>2. Len(given) <= taken + 1
    <3>1. CASE doneJobID = nextJobID
      BY <1>1, <1>3, <1>5, <3>1 DEF Given
    <3>2. CASE doneJobID # nextJobID
      <4>1. doneJobID \in Live /\ doneJobID < nextJobID
        BY <1>1, <3>2 DEF Live
      <4>2. /\ Current.dstFlushed <= Len(Current.out) /\ Current.dstFlushed \in Nat
            /\ Base(Current) \in Nat /\ Len(Current.out) \in Nat
            /\ Base(Current) + Len(Current.out) <= taken + 1
        BY <1>6, <4>1, LiveJob, JobFields DEF Current
      <4>3. Len(given) = Base(Current) + Current.dstFlushed
        BY <1>3, <4>1 DEF Given
      <4> QED BY <1>1, <4>2, <4>3
    <3> QED BY <3>1, <3>2
  <2>3. i \in Nat /\ i <= taken + 1
    BY <1>1, <2>1, <2>2
  <2> QED BY <1>4, <2>3
<1>8. ASSUME NEW id \in Live, NEW i \in 1 .. Len(jobs[Slot(id)].out)
      PROVE  Tok(Base(jobs[Slot(id)]) + i)' = Tok(Base(jobs[Slot(id)]) + i)
  <2> DEFINE b == Base(jobs[Slot(id)])  l == Len(jobs[Slot(id)].out)
  <2>1. b \in Nat /\ l \in Nat /\ b + l <= taken + 1
    BY <1>6
  <2> HIDE DEF l
  <2>5. b' = b
    BY <1>3 DEF Base
  <2> HIDE DEF b
  <2>2. i \in 1 .. l
    BY DEF l
  <2>3. b + i \in Nat /\ b + i <= taken + 1
    BY <1>1, <2>1, <2>2
  <2>4. Tok(b + i)' = Tok(b + i)
    BY <1>4, <2>3, <2>5
  <2> QED BY <1>3, <2>4 DEF b
<1>9. Cutting'
  <2>1. \A id \in Live : jobs[Slot(id)].lo + jobs[Slot(id)].size <= taken + load
    <3> SUFFICES ASSUME NEW id \in Live
                 PROVE  jobs[Slot(id)].lo + jobs[Slot(id)].size <= taken + load
      OBVIOUS
    <3>1. /\ jobs[Slot(id)].lo \in Nat /\ jobs[Slot(id)].size \in Nat
          /\ jobs[Slot(id)].lo + jobs[Slot(id)].size <= taken
      BY <1>3, LiveJob, JobFields DEF Cutting
    <3> QED BY <1>1, <1>2, <3>1
  <2> QED BY <1>3, <1>5, <2>1 DEF Cutting, Lo, SumOf
<1>10. Writing'
  BY <1>3, <1>5, <1>8 DEF Writing, Section, EndPos, Full, Base
<1>11. Given'
  BY <1>3, <1>5, <1>7 DEF Given
<1>12. Turns'
  BY <1>3, <1>5 DEF Turns, Clean, Lo
<1> QED BY <1>3, <1>9, <1>10, <1>11, <1>12 DEF ZeroMeansFlushed

-----------------------------------------------------------------------------
\* Steps of a worker on its job.

\* What a worker does to its job leaves the layout of the frame as it was.
LEMMA WorkerSame ==
  ASSUME IInv, NEW w \in Workers, Active(w), WorkerFrame, OnOwnJob(w)
  PROVE  /\ UNCHANGED <<doneJobID, nextJobID, jobReady, frameEnded, checksumFlag, inBuff,
                        queued, wjob, ret, taken, given, want, status>>
         /\ mpc' = "idle" => mpc = "idle"
         /\ Live' = Live /\ CutAt' = CutAt
         /\ \A id \in Nat : Lo(id)' = Lo(id)
         /\ \A v \in Workers \ {w} : Active(v) => Job(v)' = Job(v)
         /\ Job(w)' = jobs'[wjob[w]]
         /\ \A s \in Slots :
              LET j == jobs[s]  k == jobs'[s] IN
              /\ k.jobID = j.jobID /\ k.lo = j.lo /\ k.size = j.size /\ k.last = j.last
              /\ k.checksum = j.checksum /\ k.needSum = j.needSum
              /\ k.dstFlushed = j.dstFlushed /\ (j.error => k.error)
         /\ Clean' => Clean
<1>1. /\ UNCHANGED <<doneJobID, nextJobID, jobReady, frameEnded, checksumFlag, inBuff,
                     queued, wjob, ret, taken, given, want, status>>
      /\ mpc' = "idle" => mpc = "idle"
  BY DEF WorkerFrame, mainVars, poolVars, frameVars
<1>2. wjob[w] \in Slots
  BY WorkerJob
<1>3. \A s \in Slots :
        LET j == jobs[s]  k == jobs'[s] IN
        /\ k.jobID = j.jobID /\ k.lo = j.lo /\ k.size = j.size /\ k.last = j.last
        /\ k.checksum = j.checksum /\ k.needSum = j.needSum
        /\ k.dstFlushed = j.dstFlushed /\ (j.error => k.error)
  BY DEF OnOwnJob
<1>4. Live' = Live
  BY <1>1 DEF Live
<1>5. \A id \in Nat : jobs'[Slot(id)].lo = jobs[Slot(id)].lo
  BY <1>3, SlotInTable
<1>6. CutAt' = CutAt
  BY <1>1, <1>5 DEF CutAt, IInv, Types
<1>7. \A id \in Nat : Lo(id)' = Lo(id)
  BY <1>1, <1>5, <1>6 DEF Lo
<1>8. ASSUME NEW v \in Workers \ {w}, Active(v)
      PROVE  Job(v)' = Job(v)
  <2>1. wjob[v] # wjob[w] /\ wjob[v] \in Slots
    BY <1>8, WorkerJob DEF IInv, Exclusive
  <2> QED BY <1>1, <2>1 DEF OnOwnJob, Job
<1>9. Clean' => Clean
  <2>1. \A id \in Live : Slot(id) \in Slots
    BY LiveJob
  <2> QED BY <1>3, <1>4, <2>1 DEF Clean
<1>10. Job(w)' = jobs'[wjob[w]]
  BY <1>1 DEF Job
<1> QED BY <1>1, <1>3, <1>4, <1>6, <1>7, <1>8, <1>9, <1>10

LEMMA WorkerContent ==
  ASSUME IInv, IInv', Content, NEW w \in Workers, Active(w), WorkerFrame, OnOwnJob(w),
         status = "open" =>
           LET k == jobs'[wjob[w]] IN
           /\ Section(k)
           /\ (Complete(k) \/ wpc'[w] \in {"finish", "report"}) /\ ~k.error => Full(k),
         serial'.checksum = serial.checksum,
         Turns'
  PROVE  Content'
<1> USE DEF Content
<1> DEFINE o == wjob[w]
<1>1. /\ UNCHANGED <<doneJobID, nextJobID, jobReady, frameEnded, checksumFlag, inBuff,
                     queued, wjob, ret, taken, given, want, status>>
      /\ mpc' = "idle" => mpc = "idle"
      /\ Live' = Live /\ CutAt' = CutAt
      /\ \A id \in Nat : Lo(id)' = Lo(id)
      /\ \A v \in Workers \ {w} : Active(v) => Job(v)' = Job(v)
      /\ Job(w)' = jobs'[o]
      /\ \A s \in Slots :
           LET j == jobs[s]  k == jobs'[s] IN
           /\ k.jobID = j.jobID /\ k.lo = j.lo /\ k.size = j.size /\ k.last = j.last
           /\ k.checksum = j.checksum /\ k.needSum = j.needSum
           /\ k.dstFlushed = j.dstFlushed
  BY WorkerSame
<1>2. /\ o \in Slots /\ o = Slot(Job(w).jobID) /\ Job(w).jobID \in Live
      /\ Job(w).consumed < Job(w).size /\ Job(w) = jobs[o]
  BY WorkerJob
<1>3. \A s \in Slots : s # o => jobs'[s] = jobs[s]
  BY DEF OnOwnJob
<1>4. \A j : Section(j)' = Section(j) /\ Full(j)' = Full(j) /\ SumOf(j)' = SumOf(j)
  BY <1>1 DEF Section, Full, SumOf, Tok, EndPos
<1> HIDE DEF o
<1>5. Cutting'
  <2>1. ASSUME NEW s \in Slots, SumOf(jobs[s])
        PROVE  SumOf(jobs'[s])
    <3>1. CASE s = o
      <4>1. jobs[s].consumed < jobs[s].size
        BY <1>2, <3>1
      <4>2. jobs[s].last /\ jobs[s].jobID > 0 /\ want => jobs[s].needSum
        BY <2>1, <4>1 DEF SumOf
      <4>3. /\ jobs[s].jobID = 0 => jobs[s].checksum = want
            /\ jobs[s].needSum => jobs[s].last /\ jobs[s].jobID > 0 /\ want
        BY <2>1 DEF SumOf
      <4>4. LET j == jobs[s]  k == jobs'[s] IN
            /\ k.jobID = j.jobID /\ k.last = j.last /\ k.checksum = j.checksum
            /\ k.needSum = j.needSum /\ want' = want
        BY <1>1
      <4> QED BY <4>2, <4>3, <4>4 DEF SumOf
    <3>2. CASE s # o
      BY <1>1, <1>3, <2>1, <3>2 DEF SumOf
    <3> QED BY <3>1, <3>2
  <2>2. \A id \in Live : id \in Nat /\ id + 1 \in Nat /\ Slot(id) \in Slots
    BY LiveJob
  <2>3. Lo(0)' = Lo(0)
    BY <1>1
  <2>4. nextJobID \in Nat /\ Slot(nextJobID) \in Slots
    BY SlotInTable DEF IInv, Types
  <2>5. status = "open" =>
          \A id \in Live :
            LET j == jobs'[Slot(id)] IN
            /\ j.lo + j.size = Lo(id + 1) /\ j.lo + j.size <= taken
            /\ j.last = (frameEnded /\ ~jobReady /\ id = nextJobID - 1)
            /\ j.size = 0 => j.last
            /\ SumOf(j)
    BY <1>1, <2>1, <2>2 DEF Cutting
  <2>6. \A id \in Live : Lo(id + 1)' = Lo(id + 1)
    BY <1>1, <2>2
  <2>7. status = "open" /\ jobReady =>
          LET r == jobs'[Slot(nextJobID)] IN
          inBuff.filled = 0 /\ r.lo + r.size = taken /\ r.last = frameEnded /\ SumOf(r)
    BY <1>1, <2>1, <2>4 DEF Cutting
  <2>8. /\ checksumFlag => want
        /\ status = "open" => /\ ~frameEnded => checksumFlag = want
                              /\ serial.checksum = want
                              /\ frameEnded /\ ~jobReady => nextJobID > 0
                              /\ doneJobID = 0 => Lo(0) = 0
    BY DEF Cutting
  <2> QED BY <1>1, <1>4, <2>3, <2>5, <2>6, <2>7, <2>8 DEF Cutting
<1>6. Writing'
  <2> SUFFICES ASSUME status = "open" PROVE Writing'
    BY <1>1 DEF Writing
  <2>1. ASSUME NEW id \in Live
        PROVE  LET j == jobs'[Slot(id)] IN Section(j) /\ (Complete(j) /\ ~j.error => Full(j))
    <3>1. CASE Slot(id) = o
      BY <3>1 DEF o
    <3>2. CASE Slot(id) # o
      BY <1>3, <3>2, LiveJob DEF Writing
    <3> QED BY <3>1, <3>2
  <2>2. ASSUME NEW v \in Workers, wpc'[v] \in {"finish", "report"}, ~Job(v)'.error
        PROVE  Full(Job(v)')
    <3>1. CASE v = w
      BY <1>1, <2>2, <3>1 DEF o
    <3>2. CASE v # w
      <4>1. wpc[v] = wpc'[v]
        BY <2>2, <3>2 DEF OnOwnJob
      <4>2. Job(v)' = Job(v)
        BY <1>1, <2>2, <3>2, <4>1 DEF Active
      <4> QED BY <2>2, <4>1, <4>2 DEF Writing
    <3> QED BY <3>1, <3>2
  <2> QED BY <1>1, <1>4, <2>1, <2>2 DEF Writing
<1>7. Given'
  <2>1. Slot(doneJobID) \in Slots
    BY SlotInTable DEF IInv, Types
  <2>2. Base(Current)' = Base(Current) /\ Current'.dstFlushed = Current.dstFlushed
    BY <1>1, <2>1 DEF Current, Base
  <2>3. \A id \in Live : jobs'[Slot(id)].dstFlushed = jobs[Slot(id)].dstFlushed
    BY <1>1, LiveJob
  <2> QED BY <1>1, <2>2, <2>3 DEF Given, Tok
<1>8. ZeroMeansFlushed'
  BY <1>1 DEF ZeroMeansFlushed
<1> QED BY <1>5, <1>6, <1>7, <1>8

\* A step that leaves the serial state alone keeps the turns in order.
LEMMA WorkerTurns ==
  ASSUME IInv, Content, NEW w \in Workers, Active(w), WorkerFrame, OnOwnJob(w),
         UNCHANGED serial,
         wpc'[w] \in {"begin", "serial", "asleep"} => wpc[w] \in {"begin", "serial", "asleep"},
         status = "open" /\ Clean =>
           (wpc'[w] = "report" \/ Complete(jobs'[wjob[w]]) => Job(w).jobID < serial.nextJobID)
  PROVE  Turns'
<1> SUFFICES ASSUME status = "open", Clean' PROVE Turns'
  BY WorkerSame DEF Turns
<1> USE DEF Content
<1>1. /\ UNCHANGED <<doneJobID, nextJobID, jobReady, frameEnded, queued, wjob, want, status>>
      /\ Live' = Live
      /\ \A id \in Nat : Lo(id)' = Lo(id)
      /\ \A v \in Workers \ {w} : Active(v) => Job(v)' = Job(v)
      /\ Job(w)' = jobs'[wjob[w]]
      /\ \A s \in Slots : jobs'[s].jobID = jobs[s].jobID /\ jobs'[s].size = jobs[s].size
      /\ Clean
  BY WorkerSame
<1>2. /\ wjob[w] \in Slots /\ wjob[w] = Slot(Job(w).jobID) /\ Job(w).jobID \in Live
      /\ Job(w) = jobs[wjob[w]]
  BY WorkerJob
<1>3. Job(w)'.jobID = Job(w).jobID
  BY <1>1, <1>2
<1>4. ASSUME NEW v \in Workers
      PROVE  /\ wpc'[v] \in {"begin", "serial", "asleep"} => serial.nextJobID <= Job(v)'.jobID
             /\ wpc'[v] = "report" => Job(v)'.jobID < serial.nextJobID
  <2>1. CASE v = w
    BY <1>1, <1>3, <2>1 DEF Turns
  <2>2. CASE v # w
    <3>1. wpc'[v] = wpc[v] \/ (wpc[v] = "asleep" /\ wpc'[v] = "serial")
      BY <2>2 DEF OnOwnJob
    <3>2. Active(v) => Job(v)' = Job(v)
      BY <1>1, <2>2
    <3> QED BY <1>1, <3>1, <3>2 DEF Turns, Active
  <2> QED BY <2>1, <2>2
<1>5. queued # NoSlot => serial.nextJobID <= jobs'[queued].jobID
  <2>1. queued # NoSlot => queued \in Slots
    BY DEF IInv, Types
  <2> QED BY <1>1, <2>1 DEF Turns
<1>6. ASSUME NEW id \in Live, LET j == jobs'[Slot(id)] IN Complete(j) /\ j.size > 0
      PROVE  id < serial.nextJobID
  <2>1. CASE Slot(id) = wjob[w]
    <3>1. id = Job(w).jobID
      BY <1>2, <2>1, LiveJob
    <3> QED BY <1>1, <1>6, <2>1, <3>1
  <2>2. CASE Slot(id) # wjob[w]
    <3>1. jobs'[Slot(id)] = jobs[Slot(id)]
      BY <2>2, LiveJob DEF OnOwnJob
    <3> QED BY <1>1, <1>6, <3>1 DEF Turns
  <2> QED BY <2>1, <2>2
<1>7. serial.nextJobID \in Nat
  BY SerialFields DEF IInv
<1>8. /\ serial.nextJobID <= nextJobID
      /\ serial.nextJobID < doneJobID => doneJobID = nextJobID /\ frameEnded /\ ~jobReady
      /\ want /\ doneJobID <= serial.nextJobID => serial.hashed = Lo(serial.nextJobID)
  BY <1>1 DEF Turns
<1>9. Lo(serial.nextJobID)' = Lo(serial.nextJobID)
  BY <1>1, <1>7
<1> QED BY <1>1, <1>4, <1>5, <1>6, <1>8, <1>9 DEF Turns

LEMMA WaitContent ==
  ASSUME IInv, IInv', Content, NEW w \in Workers, BeginJob(w) \/ SerialSleep(w)
  PROVE  Content'
<1> USE DEF Content
<1>1. Active(w) /\ WorkerFrame /\ OnOwnJob(w)
  BY BeginJobInv, SerialSleepInv
<1>2. /\ wpc[w] \in {"begin", "serial"} /\ wpc'[w] \in {"serial", "asleep"}
      /\ UNCHANGED <<jobs, serial>>
  BY DEF BeginJob, SerialSleep, IInv, Types
<1>3. /\ wjob[w] = Slot(Job(w).jobID) /\ Job(w).jobID \in Live /\ Job(w) = jobs[wjob[w]]
      /\ ~Complete(Job(w))
  <2>1. Job(w).size \in Nat /\ Job(w).consumed < Job(w).size
    BY <1>1, WorkerJob, JobFields
  <2> QED BY <1>1, <2>1, WorkerJob DEF Complete
<1>4. Turns'
  BY <1>1, <1>2, <1>3, WorkerTurns
<1>5. status = "open" => Section(jobs'[wjob[w]])
  BY <1>2, <1>3 DEF Writing
<1> QED BY <1>1, <1>2, <1>3, <1>4, <1>5, WorkerContent

LEMMA FailJobContent ==
  ASSUME IInv, IInv', Content, NEW w \in Workers, FailJob(w)
  PROVE  Content'
<1> USE DEF Content
<1> DEFINE o == wjob[w]  j == jobs[o]  k == jobs'[o]
<1>1. Active(w) /\ WorkerFrame /\ OnOwnJob(w)
  BY FailJobInv
<1>2. /\ o \in Slots /\ o = Slot(Job(w).jobID) /\ Job(w).jobID \in Live /\ Job(w) = j
      /\ j \in JobRecord
  BY <1>1, WorkerJob
<1>3. jobs' = [jobs EXCEPT ![o] = [j EXCEPT !.error = TRUE]] /\ UNCHANGED serial
  BY DEF FailJob, SetJob, Job
<1>4. k = [j EXCEPT !.error = TRUE]
  BY <1>2, <1>3 DEF IInv, Types
<1>5. k.error /\ k.out = j.out
  BY <1>2, <1>4 DEF JobRecord
<1>6. Turns'
  <2>1. ~Clean'
    <3>1. Live' = Live
      BY <1>1, WorkerSame
    <3> QED BY <1>2, <1>5, <3>1 DEF Clean
  <2> QED BY <2>1 DEF Turns
<1>7. status = "open" => Section(k)
  <2>1. status = "open" => Section(j)
    BY <1>2 DEF Writing
  <2>2. k.jobID = j.jobID /\ k.lo = j.lo /\ k.size = j.size /\ k.last = j.last
        /\ k.needSum = j.needSum
    BY <1>1, <1>2, WorkerSame
  <2> QED BY <1>5, <2>1, <2>2 DEF Section, Base, EndPos
<1> QED BY <1>1, <1>3, <1>5, <1>6, <1>7, WorkerContent

LEMMA SerialTurnContent ==
  ASSUME IInv, IInv', Content, NEW w \in Workers, SerialTurn(w)
  PROVE  Content'
<1> USE DEF Content
<1> DEFINE j == Job(w)  id == j.jobID  n == serial.nextJobID
<1>1. Active(w) /\ WorkerFrame /\ OnOwnJob(w)
  BY SerialTurnInv
<1>2. /\ wpc[w] = "serial" /\ n >= id /\ UNCHANGED jobs
      /\ serial' = [serial EXCEPT !.nextJobID = @ + 1, !.hashed = Hash(j)]
      /\ BroadcastSerial(w, "compress")
  BY DEF SerialTurn
<1>3. /\ wjob[w] = Slot(id) /\ id \in Live /\ j = jobs[wjob[w]] /\ wjob[w] \in Slots
      /\ j \in JobRecord /\ j.size \in Nat /\ j.consumed < j.size /\ ~Complete(j)
      /\ id \in Nat /\ doneJobID <= id /\ id < nextJobID /\ nextJobID \in Nat
      /\ doneJobID \in Nat
  <2>1. /\ wjob[w] = Slot(id) /\ id \in Live /\ j = jobs[wjob[w]] /\ wjob[w] \in Slots
        /\ j \in JobRecord /\ j.size \in Nat /\ j.consumed < j.size
    BY <1>1, WorkerJob, JobFields
  <2>2. ~Complete(j)
    BY <2>1 DEF Complete
  <2> QED BY <2>1, <2>2, LiveJob DEF IInv, Types
<1>4. n \in Nat /\ serial'.nextJobID = n + 1 /\ serial'.checksum = serial.checksum
      /\ serial'.hashed = Hash(j)
  BY <1>2 DEF IInv, Types, SerialRecord
<1>5. wpc'[w] = "compress"
  BY <1>2 DEF BroadcastSerial, IInv, Types
<1>6. Turns'
  <2> SUFFICES ASSUME status = "open", Clean' PROVE Turns'
    BY <1>1, WorkerSame DEF Turns
  <2>1. /\ UNCHANGED <<doneJobID, nextJobID, jobReady, frameEnded, queued, wjob, want, status>>
        /\ Live' = Live /\ Clean
        /\ \A i \in Nat : Lo(i)' = Lo(i)
        /\ \A v \in Workers \ {w} : Active(v) => Job(v)' = Job(v)
    BY <1>1, WorkerSame
  <2>2. n = id
    <3>1. n <= id
      BY <1>2, <2>1 DEF Turns
    <3> QED BY <1>2, <1>3, <1>4, <3>1
  <2>3. ASSUME NEW v \in Workers
        PROVE  /\ wpc'[v] \in {"begin", "serial", "asleep"} => id + 1 <= Job(v)'.jobID
               /\ wpc'[v] = "report" => Job(v)'.jobID < id + 1
    <3>1. CASE v = w
      BY <1>5, <3>1
    <3>2. CASE v # w
      <4>1. wpc'[v] = wpc[v] \/ (wpc[v] = "asleep" /\ wpc'[v] = "serial")
        BY <1>1, <3>2 DEF OnOwnJob
      <4>2. Active(v) => /\ Job(v)' = Job(v) /\ Job(v).jobID \in Nat
                         /\ Job(v).jobID # id
        <5>1. Active(v) => wjob[v] # wjob[w]
          BY <1>1, <3>2 DEF IInv, Exclusive
        <5> QED BY <1>3, <2>1, <3>2, <5>1, WorkerJob, JobFields
      <4>3. wpc[v] \in {"begin", "serial", "asleep"} => id <= Job(v).jobID
        BY <2>1, <2>2 DEF Turns
      <4>4. wpc[v] = "report" => Job(v).jobID < id
        BY <2>1, <2>2 DEF Turns
      <4> QED BY <1>3, <4>1, <4>2, <4>3, <4>4 DEF Active
    <3> QED BY <3>1, <3>2
  <2>4. queued # NoSlot => id + 1 <= jobs[queued].jobID
    <3> SUFFICES ASSUME queued # NoSlot PROVE id + 1 <= jobs[queued].jobID
      OBVIOUS
    <3>1. queued \in Pending /\ queued # wjob[w]
      BY <1>1 DEF IInv, Queue, Working
    <3>2. queued = Slot(jobs[queued].jobID) /\ jobs[queued].jobID \in Live
      BY <3>1, PendingJob DEF IInv, Live
    <3>3. jobs[queued].jobID \in Nat /\ jobs[queued].jobID # id
      BY <1>3, <3>1, <3>2, LiveJob
    <3>4. id <= jobs[queued].jobID
      BY <2>1, <2>2 DEF Turns
    <3> QED BY <1>3, <3>3, <3>4
  <2>5. \A i \in Live : LET k == jobs[Slot(i)] IN Complete(k) /\ k.size > 0 => i < id + 1
    <3>1. \A i \in Live : i \in Nat
      BY LiveJob
    <3> QED BY <1>3, <2>1, <2>2, <3>1 DEF Turns
  <2>6. want => Hash(j) = Lo(id + 1)
    <3> SUFFICES ASSUME want PROVE Hash(j) = Lo(id + 1)
      OBVIOUS
    <3>1. serial.checksum /\ j.lo + j.size = Lo(id + 1)
      BY <1>3 DEF Cutting
    <3>2. serial.hashed = j.lo
      <4>1. serial.hashed = Lo(id)
        BY <1>3, <2>1, <2>2 DEF Turns
      <4> QED BY <1>3, <4>1 DEF Lo
    <3>3. j.size > 0
      <4>1. j.consumed \in Nat
        BY <1>3, JobFields
      <4> QED BY <1>3, <4>1
    <3> QED BY <2>2, <3>1, <3>2, <3>3 DEF Hash
  <2>7. serial'.nextJobID = id + 1 /\ Lo(id + 1)' = Lo(id + 1)
    <3>1. id' = id /\ id + 1 \in Nat
      BY <1>2, <1>3, <2>1 DEF Job
    <3> HIDE DEF id
    <3> QED BY <1>4, <2>1, <2>2, <3>1
  <2>8. id + 1 <= nextJobID /\ ~(id + 1 < doneJobID)
    BY <1>3
  <2> HIDE DEF j, id, n
  <2> QED BY <1>2, <1>4, <2>1, <2>3, <2>4, <2>5, <2>6, <2>7, <2>8 DEF Turns
<1>7. status = "open" => Section(jobs'[wjob[w]])
  BY <1>2, <1>3 DEF Writing
<1> QED BY <1>1, <1>2, <1>3, <1>4, <1>5, <1>6, <1>7, WorkerContent

LEMMA EnsureFinishedContent ==
  ASSUME IInv, IInv', Content, NEW w \in Workers, EnsureFinished(w)
  PROVE  Content'
<1> USE DEF Content
<1>1. Active(w) /\ WorkerFrame /\ OnOwnJob(w)
  BY EnsureFinishedInv
<1>2. /\ wpc[w] = "finish" /\ UNCHANGED jobs
      /\ serial.nextJobID <= Job(w).jobID \/ UNCHANGED serial
      /\ serial'.checksum = serial.checksum /\ wpc'[w] = "report"
  BY DEF EnsureFinished, BroadcastSerial, IInv, Types, SerialRecord
<1>3. /\ wjob[w] = Slot(Job(w).jobID) /\ Job(w).jobID \in Live /\ Job(w) = jobs[wjob[w]]
      /\ Job(w).jobID \in Nat /\ ~Complete(Job(w)) /\ serial.nextJobID \in Nat
  <2>1. Job(w).size \in Nat /\ Job(w).consumed < Job(w).size
    BY <1>1, WorkerJob, JobFields
  <2>2. ~Complete(Job(w))
    BY <2>1 DEF Complete
  <2> QED BY <1>1, <2>2, WorkerJob, LiveJob, SerialFields DEF IInv
<1>4. Turns'
  <2>1. CASE ~(status = "open" /\ Clean)
    BY <1>1, <2>1, WorkerSame DEF Turns
  <2>2. CASE status = "open" /\ Clean
    <3>1. ~Job(w).error
      BY <1>3, <2>2 DEF Clean
    <3>2. serial.nextJobID > Job(w).jobID
      BY <1>1, <1>2, <3>1 DEF IInv, Working, Progress
    <3>3. UNCHANGED serial
      BY <1>2, <1>3, <3>2
    <3> QED BY <1>1, <1>2, <1>3, <3>2, <3>3, WorkerTurns
  <2> QED BY <2>1, <2>2
<1>5. status = "open" =>
        Section(jobs'[wjob[w]]) /\ (~jobs'[wjob[w]].error => Full(jobs'[wjob[w]]))
  BY <1>2, <1>3 DEF Writing
<1> QED BY <1>1, <1>2, <1>4, <1>5, WorkerContent

LEMMA ReportJobContent ==
  ASSUME IInv, IInv', Content, NEW w \in Workers, ReportJob(w)
  PROVE  Content'
<1> USE DEF Content
<1> DEFINE o == wjob[w]  j == jobs[o]  k == jobs'[o]
<1>1. Active(w) /\ WorkerFrame /\ OnOwnJob(w)
  BY ReportJobInv
<1>2. /\ o \in Slots /\ o = Slot(Job(w).jobID) /\ Job(w).jobID \in Live /\ Job(w) = j
      /\ j \in JobRecord
  BY <1>1, WorkerJob
<1>3. /\ wpc[w] = "report" /\ wpc'[w] = "unbusy" /\ UNCHANGED serial
      /\ jobs' = [jobs EXCEPT ![o] = [j EXCEPT !.consumed = j.size]]
  BY DEF ReportJob, SetJob, Job, IInv, Types
<1>4. k = [j EXCEPT !.consumed = j.size]
  BY <1>2, <1>3 DEF IInv, Types
<1>5. /\ k.out = j.out /\ k.error = j.error
      /\ k.jobID = j.jobID /\ k.lo = j.lo /\ k.size = j.size /\ k.last = j.last
      /\ k.needSum = j.needSum
  BY <1>2, <1>4 DEF JobRecord
<1>6. Turns'
  BY <1>1, <1>2, <1>3, WorkerTurns DEF Turns
<1>7. status = "open" => Section(k) /\ (~k.error => Full(k))
  <2>1. status = "open" => Section(j) /\ (~j.error => Full(j))
    BY <1>2, <1>3 DEF Writing
  <2> QED BY <1>5, <2>1 DEF Section, Full, Base, EndPos
<1> QED BY <1>1, <1>3, <1>6, <1>7, WorkerContent

-----------------------------------------------------------------------------
\* A worker takes a job from the pool, and comes back to it.

LEMMA PoolStepContent ==
  ASSUME IInv, Content, NEW w \in Workers, TakeJob(w) \/ Unbusy(w)
  PROVE  Content'
<1> USE DEF Content
<1>1. /\ UNCHANGED <<jobs, mainVars, serial, callVars, frame, failures, frameVars>>
      /\ \A v \in Workers \ {w} : wpc'[v] = wpc[v] /\ Job(v)' = Job(v)
      /\ \/ wpc'[w] = "idle" /\ queued' = queued
         \/ /\ wpc'[w] = "begin" /\ queued # NoSlot /\ queued' = NoSlot
            /\ Job(w)' = jobs[queued]
  BY DEF TakeJob, Unbusy, IInv, Types, Job
<1>2. /\ Live' = Live /\ CutAt' = CutAt /\ Current' = Current
      /\ \A j : Section(j)' = Section(j) /\ Full(j)' = Full(j) /\ SumOf(j)' = SumOf(j)
  BY <1>1 DEF Live, CutAt, Current, Section, Full, SumOf, Tok, EndPos, mainVars, frameVars
<1>3. Cutting'
  BY <1>1, <1>2 DEF Cutting, Lo, mainVars, frameVars
<1>4. Writing'
  <2>1. \A v \in Workers :
          wpc'[v] \in {"finish", "report"} =>
            wpc[v] \in {"finish", "report"} /\ Job(v)' = Job(v)
    BY <1>1
  <2> QED BY <1>1, <1>2, <2>1 DEF Writing, mainVars, frameVars
<1>5. Given'
  BY <1>1, <1>2 DEF Given, Tok, mainVars, frameVars
<1>6. Turns'
  <2> SUFFICES ASSUME status = "open", Clean PROVE Turns'
    BY <1>1, <1>2 DEF Turns, Clean, frameVars
  <2>1. ASSUME NEW v \in Workers
        PROVE  /\ wpc'[v] \in {"begin", "serial", "asleep"} => serial.nextJobID <= Job(v)'.jobID
               /\ wpc'[v] = "report" => Job(v)'.jobID < serial.nextJobID
    <3>1. CASE v = w
      BY <1>1, <3>1 DEF Turns
    <3>2. CASE v # w
      BY <1>1, <3>2 DEF Turns
    <3> QED BY <3>1, <3>2
  <2>2. queued' # NoSlot => serial.nextJobID <= jobs[queued'].jobID
    BY <1>1 DEF Turns
  <2> QED BY <1>1, <1>2, <2>1, <2>2 DEF Turns, Lo, mainVars, frameVars
<1>7. ZeroMeansFlushed'
  BY <1>1 DEF ZeroMeansFlushed, mainVars, callVars, frameVars
<1> QED BY <1>3, <1>4, <1>5, <1>6, <1>7

-----------------------------------------------------------------------------
\* A worker compresses.

\* Sections that follow each other make one section.
LEMMA Appended ==
  ASSUME NEW s \in Seq(Token), NEW t \in Seq(Token), NEW b \in Nat,
         \A i \in 1 .. Len(s) : s[i] = Tok(b + i),
         \A i \in 1 .. Len(t) : t[i] = Tok(b + Len(s) + i)
  PROVE  /\ s \o t \in Seq(Token) /\ Len(s \o t) = Len(s) + Len(t)
         /\ \A i \in 1 .. Len(s \o t) : (s \o t)[i] = Tok(b + i)
<1>1. s \o t \in Seq(Token) /\ Len(s \o t) = Len(s) + Len(t)
  BY Concat
<1>2. Len(s) \in Nat /\ Len(t) \in Nat
  OBVIOUS
<1> SUFFICES ASSUME NEW i \in 1 .. Len(s \o t) PROVE (s \o t)[i] = Tok(b + i)
  BY <1>1
<1>3. CASE i <= Len(s)
  BY <1>1, <1>2, <1>3
<1>4. CASE i > Len(s)
  <2>1. (s \o t)[i] = t[i - Len(s)] /\ i - Len(s) \in 1 .. Len(t)
    BY <1>1, <1>2, <1>4
  <2>2. b + Len(s) + (i - Len(s)) = b + i
    BY <1>2
  <2> QED BY <2>1, <2>2
<1> QED BY <1>2, <1>3, <1>4

\* The job of a worker that compresses, and its next chunk.
LEMMA ChunkWritten ==
  ASSUME IInv, Content, NEW w \in Workers, wpc[w] = "compress", status = "open",
         NEW i \in Nat, i = wchunk[w] + 1
  PROVE  LET j == Job(w)
             s == (j.out \o FrameHeader(j, i)) \o <<Block(j.lo + i)>> IN
         /\ j \in JobRecord /\ i <= j.size
         /\ s \in Seq(Token) /\ Base(j) \in Nat /\ Len(s) \in Nat
         /\ Base(j) + Len(s) = j.lo + 1 + i
         /\ \A p \in 1 .. Len(s) : s[p] = Tok(Base(j) + p)
<1> USE DEF Content
<1> DEFINE j == Job(w)  b == Base(j)  h == FrameHeader(j, i)  t == <<Block(j.lo + i)>>
<1>1. /\ j \in JobRecord /\ j.jobID \in Live /\ j = jobs[Slot(j.jobID)]
      /\ wchunk[w] < j.size /\ Section(j)
      /\ Len(j.out) = IF j.jobID = 0 /\ wchunk[w] > 0 THEN wchunk[w] + 1 ELSE wchunk[w]
  BY WorkerJob DEF Active, IInv, Working, Progress, Writing
<1>2. /\ j.jobID \in Nat /\ j.lo \in Nat /\ j.size \in Nat /\ j.out \in Seq(Token)
      /\ Len(j.out) \in Nat /\ j.checksum \in BOOLEAN /\ wchunk[w] \in Nat
  BY <1>1, JobFields DEF IInv, Types
<1>3. j.lo + j.size <= taken /\ taken \in Nat /\ SumOf(j) /\ want \in BOOLEAN
  BY <1>1 DEF Cutting, IInv, Types
<1>4. j.jobID = 0 => j.lo = 0
  <2> SUFFICES ASSUME j.jobID = 0 PROVE j.lo = 0
    OBVIOUS
  <2>1. doneJobID = 0 /\ 0 < nextJobID
    BY <1>1, LiveJob DEF IInv, Types
  <2>2. Lo(0) = 0
    BY <2>1 DEF Cutting
  <2> QED BY <1>1, <2>1, <2>2 DEF Lo
<1> HIDE DEF j
<1>5. b \in Nat
  BY <1>2 DEF Base
<1>6. /\ h \in Seq(Token) /\ Len(h) = IF j.jobID = 0 /\ i <= 1 THEN 1 ELSE 0
  BY <1>1, HeaderLength
<1>7. \A p \in 1 .. Len(h) : h[p] = Tok(b + Len(j.out) + p)
  <2> SUFFICES ASSUME NEW p \in 1 .. Len(h) PROVE h[p] = Tok(b + Len(j.out) + p)
    OBVIOUS
  <2>1. j.jobID = 0 /\ i <= 1 /\ p = 1
    BY <1>6
  <2>2. h[p] = Header(j.checksum) /\ j.checksum = want
    BY <1>3, <2>1 DEF FrameHeader, SumOf
  <2>3. b = 0 /\ Len(j.out) = 0
    BY <1>1, <1>2, <2>1 DEF Base
  <2> QED BY <2>1, <2>2, <2>3 DEF Tok
<1>8. t \in Seq(Token) /\ Len(t) = 1 /\ t[1] = Block(j.lo + i)
  BY <1>2, Tokens
<1> DEFINE u == j.out \o h
<1>9. /\ u \in Seq(Token) /\ Len(u) = Len(j.out) + Len(h)
      /\ \A p \in 1 .. Len(u) : u[p] = Tok(b + p)
  <2> HIDE DEF h, b
  <2>1. \A p \in 1 .. Len(j.out) : j.out[p] = Tok(b + p)
    BY <1>1 DEF Section, b
  <2> QED BY <1>2, <1>5, <1>6, <1>7, <2>1, Appended
<1>10. b + Len(u) = j.lo + i
  <2> DEFINE l == Len(j.out)  m == Len(h)  lo == j.lo  c == wchunk[w]
  <2>1. /\ Len(u) = l + m /\ l \in Nat /\ lo \in Nat /\ c \in Nat /\ i = c + 1
        /\ l = IF j.jobID = 0 /\ c > 0 THEN c + 1 ELSE c
        /\ m = IF j.jobID = 0 /\ i <= 1 THEN 1 ELSE 0
        /\ b = IF j.jobID = 0 THEN 0 ELSE lo + 1
        /\ j.jobID = 0 => lo = 0
    BY <1>1, <1>2, <1>4, <1>6, <1>9 DEF Base
  <2> HIDE DEF u, h, b, l, m, lo, c
  <2> SUFFICES b + Len(u) = lo + i
    BY DEF lo
  <2>2. CASE j.jobID = 0
    <3>1. CASE c = 0
      BY <2>1, <2>2, <3>1
    <3>2. CASE c # 0
      BY <2>1, <2>2, <3>2
    <3> QED BY <3>1, <3>2
  <2>3. CASE j.jobID # 0
    BY <2>1, <2>3
  <2> QED BY <2>2, <2>3
<1>11. Tok(b + Len(u) + 1) = Block(j.lo + i)
  <2> DEFINE lo == j.lo  n == j.size  c == wchunk[w]
  <2>1. /\ lo \in Nat /\ n \in Nat /\ c \in Nat /\ i = c + 1 /\ c < n
        /\ lo + n <= taken /\ taken \in Nat
    BY <1>1, <1>2, <1>3
  <2> HIDE DEF u, b, lo, n, c
  <2>2. /\ lo + i + 1 <= taken + 1 /\ lo + i + 1 # 1 /\ (lo + i + 1) - 1 = lo + i
    BY <2>1
  <2>3. b + Len(u) + 1 = lo + i + 1
    BY <1>10 DEF lo
  <2>4. Tok(b + Len(u) + 1) = Block(lo + i)
    BY <2>2, <2>3 DEF Tok
  <2> QED BY <2>4 DEF lo
<1> HIDE DEF u, t, b, h
<1>12. /\ u \o t \in Seq(Token) /\ Len(u \o t) = Len(u) + 1
       /\ \A p \in 1 .. Len(u \o t) : (u \o t)[p] = Tok(b + p)
  <2>1. \A p \in 1 .. Len(t) : t[p] = Tok(b + Len(u) + p)
    BY <1>8, <1>11
  <2>2. t \in Seq(Token) /\ u \in Seq(Token) /\ b \in Nat
        /\ \A p \in 1 .. Len(u) : u[p] = Tok(b + p)
    BY <1>5, <1>8, <1>9
  <2>3. /\ u \o t \in Seq(Token) /\ Len(u \o t) = Len(u) + Len(t)
        /\ \A p \in 1 .. Len(u \o t) : (u \o t)[p] = Tok(b + p)
    BY <2>1, <2>2, Appended
  <2> QED BY <1>8, <2>3
<1>13. b + Len(u \o t) = j.lo + 1 + i /\ Len(u \o t) \in Nat
  <2> DEFINE m == Len(u)  n == Len(u \o t)  lo == j.lo
  <2>1. /\ m \in Nat /\ n = m + 1 /\ b \in Nat /\ lo \in Nat /\ b + m = lo + i
    BY <1>2, <1>5, <1>9, <1>10, <1>12
  <2> HIDE DEF m, n, lo
  <2>2. b + n = lo + 1 + i /\ n \in Nat
    BY <2>1
  <2> QED BY <2>2 DEF n, lo
<1>14. i <= j.size
  <2> DEFINE n == j.size  c == wchunk[w]
  <2>1. n \in Nat /\ c \in Nat /\ i = c + 1 /\ c < n
    BY <1>1, <1>2
  <2> HIDE DEF n, c
  <2>2. i <= n
    BY <2>1
  <2> QED BY <2>2 DEF n
<1> QED BY <1>1, <1>5, <1>12, <1>13, <1>14 DEF u, t, b, h, j

LEMMA CompressChunkContent ==
  ASSUME IInv, IInv', Content, NEW w \in Workers, CompressChunk(w)
  PROVE  Content'
<1> USE DEF Content
<1> DEFINE o == wjob[w]  j == jobs[o]  i == wchunk[w] + 1
           s == (j.out \o FrameHeader(j, i)) \o <<Block(j.lo + i)>>
           k == [j EXCEPT !.out = s, !.consumed = i]
<1>1. Active(w) /\ WorkerFrame /\ OnOwnJob(w)
  BY CompressChunkInv
<1>2. /\ o \in Slots /\ o = Slot(Job(w).jobID) /\ Job(w).jobID \in Live /\ Job(w) = j
      /\ j \in JobRecord /\ j.size \in Nat /\ j.lo \in Nat
  BY <1>1, WorkerJob, JobFields
<1>3. /\ wpc[w] = "compress" /\ wpc'[w] = "compress" /\ UNCHANGED serial /\ i < j.size
      /\ jobs' = [jobs EXCEPT ![o] = k]
  BY DEF CompressChunk, SetJob, Job
<1>4. i \in Nat
  <2>1. wchunk[w] \in Nat
    BY DEF IInv, Types
  <2> QED BY <2>1
<1>5. /\ jobs'[o] = k /\ k.out = s /\ k.consumed = i /\ k.size = j.size /\ k.jobID = j.jobID
      /\ k.lo = j.lo /\ k.last = j.last /\ k.needSum = j.needSum
  <2> HIDE DEF s, i, j
  <2> QED BY <1>2, <1>3 DEF IInv, Types, JobRecord
<1>6. ~Complete(k)
  <2>1. i # j.size
    BY <1>2, <1>3, <1>4
  <2> HIDE DEF i, j, k
  <2> QED BY <1>5, <2>1 DEF Complete
<1>7. status = "open" => Section(k)
  <2> SUFFICES ASSUME status = "open" PROVE Section(k)
    OBVIOUS
  <2>1. /\ Len(s) \in Nat /\ Base(j) \in Nat /\ Base(j) + Len(s) = j.lo + 1 + i
        /\ \A p \in 1 .. Len(s) : s[p] = Tok(Base(j) + p)
    <3> HIDE DEF i, j
    <3>1. i = wchunk[w] + 1
      BY DEF i
    <3> QED BY <1>2, <1>3, <1>4, <3>1, ChunkWritten
  <2>2. SumOf(j)
    <3> HIDE DEF i, s, k
    <3>1. \A id \in Live : SumOf(jobs[Slot(id)])
      BY DEF Cutting
    <3> HIDE DEF Content
    <3> QED BY <1>2, <3>1
  <2>3. Base(k) = Base(j) /\ EndPos(k) = EndPos(j)
    <3> HIDE DEF Content, i, s, j, k
    <3> QED BY <1>5 DEF Base, EndPos
  <2>4. Base(j) + Len(s) + Flag(j.needSum) <= EndPos(j)
    <3> DEFINE lo == j.lo  n == j.size  b == Base(j)  l == Len(s)  f == Flag(j.needSum)
               e == IF j.last THEN 1 + Flag(want) ELSE 0
    <3>1. /\ lo \in Nat /\ n \in Nat /\ b \in Nat /\ l \in Nat /\ i \in Nat /\ i < n
          /\ b + l = lo + 1 + i
      BY <1>2, <1>3, <1>4, <2>1
    <3>2. e \in Nat /\ f \in Nat /\ f <= e
      <4> HIDE DEF j
      <4> QED BY <2>2 DEF SumOf, Flag
    <3>3. EndPos(j) = lo + n + 1 + e
      BY DEF EndPos
    <3> HIDE DEF lo, n, b, l, f, e, i
    <3>4. b + l + f <= lo + n + 1 + e
      BY <3>1, <3>2
    <3> QED BY <3>3, <3>4 DEF b, l, f
  <2> HIDE DEF s, k
  <2> QED BY <1>5, <2>1, <2>3, <2>4 DEF Section
<1> HIDE DEF k, o
<1>8. Turns'
  BY <1>1, <1>3, <1>5, <1>6, WorkerTurns DEF o
<1> QED BY <1>1, <1>3, <1>5, <1>6, <1>7, <1>8, WorkerContent DEF o

\* The end of the frame, which follows the last chunk.
LEMMA EndWritten ==
  ASSUME IInv, Content, status = "open", NEW id \in Live, NEW j, j = jobs[Slot(id)],
         j.consumed < j.size
  PROVE  LET fend == IF j.last THEN FrameEnd(j) ELSE <<>> IN
         /\ fend \in Seq(Token) /\ Len(fend) \in Nat
         /\ Len(fend) + Flag(j.needSum) = IF j.last THEN 1 + Flag(want) ELSE 0
         /\ \A p \in 1 .. Len(fend) : fend[p] = Tok(j.lo + j.size + 1 + p)
<1> USE DEF Content
<1>1. /\ j \in JobRecord /\ j.lo \in Nat /\ j.size \in Nat /\ j.jobID = id /\ id \in Nat
      /\ j.last \in BOOLEAN /\ j.checksum \in BOOLEAN /\ SumOf(j)
      /\ taken \in Nat /\ want \in BOOLEAN
  BY LiveJob, JobFields DEF Cutting, IInv, Types
<1>2. CASE ~j.last
  <2>1. ~j.needSum
    BY <1>1, <1>2 DEF SumOf
  <2> QED BY <1>2, <2>1 DEF Flag
<1>3. CASE j.last
  <2>1. j.lo + j.size = taken
    <3>1. frameEnded /\ ~jobReady /\ id = nextJobID - 1 /\ j.lo + j.size = Lo(id + 1)
      BY <1>3 DEF Cutting
    <3>2. inBuff.filled = 0 /\ nextJobID \in Nat
      BY <3>1 DEF IInv, Types, Stages
    <3>3. id + 1 = nextJobID
      BY <1>1, <3>1, <3>2
    <3>4. Lo(nextJobID) = taken
      BY <1>1, <3>1, <3>2 DEF Lo, CutAt
    <3> QED BY <3>1, <3>3, <3>4
  <2>2. /\ FrameEnd(j) \in Seq(Token)
        /\ Len(FrameEnd(j)) = IF j.jobID = 0 /\ j.checksum THEN 2 ELSE 1
    BY <1>1, EndLength
  <2>3. /\ j.jobID = 0 => j.checksum = want /\ ~j.needSum
        /\ j.jobID # 0 => j.needSum = want
    <3>1. /\ j.jobID = 0 => j.checksum = want
          /\ j.needSum => j.last /\ j.jobID > 0 /\ want
          /\ j.consumed < j.size /\ j.last /\ j.jobID > 0 /\ want => j.needSum
      BY <1>1 DEF SumOf
    <3>2. (j.jobID > 0) = (j.jobID # 0)
      BY <1>1
    <3>3. j.needSum \in BOOLEAN
      BY <1>1, JobFields
    <3> QED BY <1>1, <1>3, <3>1, <3>2, <3>3
  <2>4. Len(FrameEnd(j)) + Flag(j.needSum) = 1 + Flag(want)
    <3>1. CASE j.jobID = 0
      <4>1. Flag(j.needSum) = 0
        BY <2>3, <3>1 DEF Flag
      <4>2. Len(FrameEnd(j)) = IF want THEN 2 ELSE 1
        BY <2>2, <2>3, <3>1
      <4> QED BY <4>1, <4>2 DEF Flag
    <3>2. CASE j.jobID # 0
      <4>1. Flag(j.needSum) = Flag(want) /\ Flag(want) \in Nat
        BY <2>3, <3>2 DEF Flag
      <4>2. Len(FrameEnd(j)) = 1
        BY <2>2, <3>2
      <4> QED BY <4>1, <4>2
    <3> QED BY <3>1, <3>2
  <2>5. ASSUME NEW p \in 1 .. Len(FrameEnd(j))
        PROVE  FrameEnd(j)[p] = Tok(taken + 1 + p)
    <3>1. p \in 1 .. 2 /\ (p = 2 => j.jobID = 0 /\ j.checksum)
      BY <2>2
    <3>2. CASE p = 1
      <4>1. FrameEnd(j)[1] = LastMark
        BY DEF FrameEnd
      <4>2. Tok(taken + 2) = LastMark
        BY <1>1 DEF Tok
      <4>3. taken + 1 + 1 = taken + 2
        BY <1>1
      <4> QED BY <3>2, <4>1, <4>2, <4>3
    <3>3. CASE p = 2
      <4>1. FrameEnd(j)[2] = HashOf(taken)
        <5> DEFINE h == HashOf(taken)
        <5>1. FrameEnd(j) = <<LastMark>> \o <<h>>
          BY <2>1, <3>1, <3>3 DEF FrameEnd
        <5> HIDE DEF h
        <5>2. (<<LastMark>> \o <<h>>)[2] = h
          OBVIOUS
        <5> QED BY <5>1, <5>2 DEF h
      <4>2. Tok(taken + 3) = HashOf(taken)
        BY <1>1 DEF Tok
      <4>3. taken + 1 + 2 = taken + 3
        BY <1>1
      <4> QED BY <3>3, <4>1, <4>2, <4>3
    <3> QED BY <3>1, <3>2, <3>3
  <2>6. Len(FrameEnd(j)) \in Nat
    BY <2>2
  <2> QED BY <1>3, <2>1, <2>2, <2>4, <2>5, <2>6
<1> QED BY <1>1, <1>2, <1>3

LEMMA CompressLastContent ==
  ASSUME IInv, IInv', Content, NEW w \in Workers, CompressLast(w)
  PROVE  Content'
<1> USE DEF Content
<1> DEFINE o == wjob[w]  j == jobs[o]  i == j.size
           block == IF i > 0 THEN <<Block(j.lo + i)>> ELSE <<>>
           fend == IF j.last THEN FrameEnd(j) ELSE <<>>
           s == (j.out \o FrameHeader(j, i)) \o <<Block(j.lo + i)>>
           k == [j EXCEPT !.out = s \o fend]
<1>1. Active(w) /\ WorkerFrame /\ OnOwnJob(w)
  BY CompressLastInv
<1>2. /\ o \in Slots /\ o = Slot(Job(w).jobID) /\ Job(w).jobID \in Live /\ Job(w) = j
      /\ j \in JobRecord /\ j.size \in Nat /\ j.lo \in Nat /\ j.consumed \in Nat
      /\ j.consumed < j.size
  BY <1>1, WorkerJob, JobFields
<1>3. /\ wpc[w] = "compress" /\ wpc'[w] = "finish" /\ UNCHANGED serial
      /\ wchunk[w] + 1 >= j.size
      /\ jobs' = [jobs EXCEPT ![o] = [j EXCEPT !.out =
                    ((j.out \o FrameHeader(j, i)) \o block) \o fend]]
  BY DEF CompressLast, SetJob, Job, IInv, Types
<1>4. wchunk[w] \in Nat /\ wchunk[w] < j.size
  BY <1>1, <1>2 DEF IInv, Types, Working
<1>5. i > 0 /\ i = wchunk[w] + 1 /\ i \in Nat
  <2> DEFINE c == wchunk[w]
  <2>1. i \in Nat /\ c \in Nat /\ c + 1 >= i /\ c < i
    BY <1>2, <1>3, <1>4
  <2> HIDE DEF i, c
  <2>2. i > 0 /\ i = c + 1
    BY <2>1
  <2> QED BY <2>1, <2>2 DEF c
<1>6. /\ jobs'[o] = k /\ k.out = s \o fend /\ k.consumed = j.consumed /\ k.size = j.size
      /\ k.jobID = j.jobID /\ k.lo = j.lo /\ k.last = j.last /\ k.needSum = j.needSum
  <2>1. block = <<Block(j.lo + i)>>
    BY <1>5
  <2>2. jobs' = [jobs EXCEPT ![o] = k]
    BY <1>3, <2>1
  <2> HIDE DEF s, fend, i, j
  <2> QED BY <1>2, <2>2 DEF IInv, Types, JobRecord
<1>7. ~Complete(k)
  <2>1. j.consumed # j.size
    BY <1>2
  <2> HIDE DEF k, j
  <2> QED BY <1>6, <2>1 DEF Complete
<1>8. status = "open" => Section(k) /\ Full(k)
  <2> SUFFICES ASSUME status = "open" PROVE Section(k) /\ Full(k)
    OBVIOUS
  <2>1. /\ s \in Seq(Token) /\ Len(s) \in Nat /\ Base(j) \in Nat
        /\ Base(j) + Len(s) = j.lo + 1 + i
        /\ \A p \in 1 .. Len(s) : s[p] = Tok(Base(j) + p)
    <3> HIDE DEF i, j
    <3> QED BY <1>2, <1>3, <1>5, ChunkWritten
  <2>2. /\ fend \in Seq(Token) /\ Len(fend) \in Nat
        /\ Len(fend) + Flag(j.needSum) = IF j.last THEN 1 + Flag(want) ELSE 0
        /\ \A p \in 1 .. Len(fend) : fend[p] = Tok(j.lo + j.size + 1 + p)
    <3> HIDE DEF j
    <3>1. Job(w).jobID \in Live /\ j = jobs[Slot(Job(w).jobID)]
      BY <1>2 DEF j
    <3> QED BY <1>2, <3>1, EndWritten
  <2>3. Base(k) = Base(j) /\ EndPos(k) = EndPos(j)
    <3> HIDE DEF k, j
    <3> QED BY <1>6 DEF Base, EndPos
  <2> DEFINE lo == j.lo  b == Base(j)  l == Len(s)  m == Len(fend)  f == Flag(j.needSum)
             e == IF j.last THEN 1 + Flag(want) ELSE 0
  <2>4. /\ lo \in Nat /\ b \in Nat /\ l \in Nat /\ m \in Nat /\ e \in Nat /\ f \in Nat
        /\ i \in Nat /\ m + f = e /\ b + l = lo + 1 + i
    <3>1. e \in Nat /\ f \in Nat
      <4> HIDE DEF j
      <4> QED BY DEF Flag
    <3> QED BY <1>2, <1>5, <2>1, <2>2, <3>1
  <2>5. EndPos(j) = lo + i + 1 + e
    BY DEF EndPos
  <2>6. lo + i + 1 = b + l
    <3> HIDE DEF lo, b, l, m, f, e, i
    <3> QED BY <2>4
  <2>7. \A p \in 1 .. m : fend[p] = Tok(b + l + p)
    BY <2>2, <2>6
  <2>8. /\ s \o fend \in Seq(Token) /\ Len(s \o fend) = l + m
        /\ \A p \in 1 .. Len(s \o fend) : (s \o fend)[p] = Tok(b + p)
    <3>1. \A p \in 1 .. l : s[p] = Tok(b + p)
      BY <2>1
    <3> HIDE DEF s, fend, b
    <3> QED BY <2>1, <2>2, <2>4, <2>7, <3>1, Appended
  <2>9. b + (l + m) + f = lo + i + 1 + e
    <3> HIDE DEF lo, b, l, m, f, e, i
    <3> QED BY <2>4
  <2>10. Len(k.out) = l + m /\ Base(k) + Len(k.out) + Flag(k.needSum) = EndPos(k)
    <3> HIDE DEF k, s, fend, l, m, i, e
    <3> QED BY <1>6, <2>3, <2>5, <2>8, <2>9
  <2>11. EndPos(k) <= EndPos(k)
    <3>1. EndPos(j) \in Nat
      <4> HIDE DEF lo, e, i
      <4> QED BY <2>4, <2>5
    <3> HIDE DEF k, j
    <3> QED BY <2>3, <3>1
  <2>12. \A p \in 1 .. Len(k.out) : k.out[p] = Tok(Base(k) + p)
    <3> HIDE DEF k, s, fend, l, m, i, e
    <3> QED BY <1>6, <2>3, <2>8
  <2> HIDE DEF k
  <2> QED BY <2>10, <2>11, <2>12 DEF Section, Full
<1> HIDE DEF k, o
<1>9. Turns'
  BY <1>1, <1>3, <1>6, <1>7, WorkerTurns DEF o
<1> QED BY <1>1, <1>3, <1>6, <1>7, <1>8, <1>9, WorkerContent DEF o

-----------------------------------------------------------------------------
\* A frame begins, or fails.

LEMMA InitCStreamContent ==
  ASSUME IInv, Content, NEW sum \in BOOLEAN, InitCStream(sum, sum)
  PROVE  Content'
<1> USE DEF Content
<1>1. /\ ~jobReady /\ ~jobReady' /\ checksumFlag' = sum /\ want' = sum /\ ret' = "none"
      /\ inBuff' = NoInput /\ doneJobID' = 0 /\ nextJobID' = 0 /\ frameEnded' = FALSE
      /\ serial' = [nextJobID |-> 0, checksum |-> sum, hashed |-> 0]
      /\ taken' = 0 /\ given' = <<>> /\ UNCHANGED <<poolVars, workerVars>>
  BY DEF InitCStream, IInv, Stages
<1>2. doneJobID = nextJobID => Pending = {}
  BY NoneBetween DEF Pending, IInv, Types
<1>3. AllComplete
  BY <1>2 DEF InitCStream, IInv, Stages, AllComplete
<1>4. queued = NoSlot /\ \A w \in Workers : ~Active(w)
  BY <1>3, NobodyWorks
<1>5. Live' = {}
  BY <1>1, NoneBetween DEF Live
<1>6. CutAt' = 0 /\ Lo(0)' = 0
  BY <1>1 DEF CutAt, Lo, NoInput
<1>7. Cutting'
  BY <1>1, <1>5, <1>6 DEF Cutting
<1>8. Writing'
  BY <1>1, <1>4, <1>5 DEF Writing, Active, workerVars
<1>9. Given'
  BY <1>1, <1>5 DEF Given
<1>10. Turns'
  BY <1>1, <1>4, <1>5, <1>6 DEF Turns, Active, poolVars, workerVars
<1> QED BY <1>1, <1>7, <1>8, <1>9, <1>10 DEF ZeroMeansFlushed

LEMMA FrameLimitContent ==
  ASSUME IInv, Content, Uses = {}, InitNewFrame \/ ResetCStream \/ FailFrame
  PROVE  Content'
<1> USE DEF Content
<1>1. CASE InitNewFrame
  BY <1>1, InitCStreamContent DEF InitNewFrame
<1>2. CASE ResetCStream
  <2>1. checksumFlag \in BOOLEAN /\ ~want /\ want \in BOOLEAN /\ (checksumFlag => want)
    BY <1>2 DEF ResetCStream, IInv, Types, Cutting
  <2>2. InitCStream(FALSE, FALSE)
    <3>1. checksumFlag = FALSE /\ want = FALSE
      BY <2>1
    <3> QED BY <1>2, <3>1 DEF ResetCStream
  <2> QED BY <2>2, InitCStreamContent
<1>3. CASE FailFrame
  <2>1. status' = "failed" /\ ret' = "error" /\ UNCHANGED <<checksumFlag, want>>
    BY <1>3 DEF FailFrame
  <2> QED BY <2>1 DEF Cutting, Writing, Given, Turns, ZeroMeansFlushed
<1> QED BY <1>1, <1>2, <1>3

-----------------------------------------------------------------------------
\* The application thread makes and posts a job.

\* The job of nextJobID takes the input that was not in any job.
LEMMA PostedContent ==
  ASSUME IInv, Content, status = "open", ~TableFull, mpc' = "flush",
         nextJobID' = nextJobID + 1, ~jobReady', inBuff'.filled = 0,
         UNCHANGED <<doneJobID, serial, workerVars, taken, given, want, status>>,
         \A s \in Slots : s # Slot(nextJobID) => jobs'[s] = jobs[s],
         queued' = queued \/ queued' = Slot(nextJobID),
         frameEnded => jobReady,
         checksumFlag' => want, ~frameEnded' => checksumFlag' = want,
         LET k == jobs'[Slot(nextJobID)] IN
           /\ k \in JobRecord /\ k.jobID = nextJobID /\ k.dstFlushed = 0
           /\ k.lo = CutAt /\ k.lo + k.size = taken /\ k.last = frameEnded'
           /\ k.size = 0 => k.last
           /\ Complete(k) => k.size = 0
           /\ SumOf(k) /\ Section(k) /\ (Complete(k) /\ ~k.error => Full(k))
  PROVE  Content'
<1> USE DEF Content
<1> DEFINE o == Slot(nextJobID)  k == jobs'[o]  d == doneJobID  n == nextJobID
<1>1. /\ n \in Nat /\ d \in Nat /\ d <= n /\ n < d + NbSlots /\ NbSlots \in Nat
      /\ o \in Slots
  BY ConstantTypes, SlotInTable DEF TableFull, IInv, Types, Placed
<1>2. \A id \in Live : Slot(id) \in Slots /\ jobs'[Slot(id)] = jobs[Slot(id)] /\ id \in Nat
  <2>1. o \notin Pending
    BY <1>1, NextSlotFree DEF IInv
  <2> QED BY <2>1, LiveJob
<1>3. Live' = Live \cup {n} /\ n \notin Live
  BY <1>1 DEF Live
<1>4. CutAt' = taken
  <2>1. taken \in Nat
    BY DEF IInv, Types
  <2> QED BY <2>1 DEF CutAt
<1>5. /\ \A id \in Live : Lo(id)' = Lo(id)
      /\ Lo(n) = k.lo /\ jobs'[Slot(n)].lo = k.lo
  <2>1. \A id \in Live : id < nextJobID /\ id < nextJobID'
    BY <1>1, <1>2, LiveJob
  <2> QED BY <1>1, <1>2, <2>1 DEF Lo
<1>6. \A i \in Nat : i <= n => Lo(i)' = jobs'[Slot(i)].lo
  BY <1>1 DEF Lo
<1>7. \A i \in Nat : i = n + 1 => Lo(i)' = taken
  BY <1>1, <1>4 DEF Lo
<1>8. \A j : Section(j)' = Section(j) /\ Full(j)' = Full(j) /\ SumOf(j)' = SumOf(j)
  BY DEF Section, Full, SumOf, Tok, EndPos
<1>9. \A w \in Workers : Active(w) => Job(w)' = Job(w)
  <2>1. ASSUME NEW w \in Workers, Active(w)
        PROVE  Job(w)' = Job(w)
    BY <1>2, <2>1, WorkerJob DEF Job, workerVars
  <2> QED BY <2>1
<1>10. \A i \in Nat : d <= i /\ i <= n => Lo(i)' = Lo(i)
  <2> SUFFICES ASSUME NEW i \in Nat, d <= i, i <= n PROVE Lo(i)' = Lo(i)
    OBVIOUS
  <2>1. CASE i = n
    BY <1>1, <1>5, <1>6, <2>1
  <2>2. CASE i # n
    <3>1. i \in Live
      BY <1>1, <2>2 DEF Live
    <3> QED BY <1>5, <3>1
  <2> QED BY <2>1, <2>2
<1> HIDE DEF o, k, d, n
<1>11. Cutting'
  <2>1. ASSUME NEW id \in Live
        PROVE  LET j == jobs'[Slot(id)] IN
               /\ j.lo + j.size = Lo(id + 1)' /\ j.lo + j.size <= taken
               /\ ~j.last /\ (j.size = 0 => j.last) /\ SumOf(j)
    <3>1. LET j == jobs[Slot(id)] IN
          /\ j.lo + j.size = Lo(id + 1) /\ j.lo + j.size <= taken
          /\ ~j.last /\ (j.size = 0 => j.last) /\ SumOf(j)
      BY DEF Cutting
    <3>2. id + 1 \in Nat /\ d <= id + 1 /\ id + 1 <= n
      BY <1>1, LiveJob DEF d, n
    <3>3. Lo(id + 1)' = Lo(id + 1)
      BY <1>10, <3>2
    <3> QED BY <1>2, <3>1, <3>3
  <2>2. /\ \A i \in Nat : i = n + 1 => k.lo + k.size = Lo(i)'
        /\ k.lo + k.size <= taken /\ k.last = frameEnded'
        /\ (k.size = 0 => k.last) /\ SumOf(k)
    <3>1. taken \in Nat
      BY DEF IInv, Types
    <3> QED BY <1>7, <3>1 DEF k, o
  <2>3. n' - 1 = n /\ n' > 0 /\ n' = nextJobID' /\ n = nextJobID
    BY <1>1 DEF n
  <2>4. d = 0 => Lo(0)' = 0
    <3>1. d = 0 => Lo(0) = 0
      BY DEF Cutting, d
    <3> QED BY <1>1, <1>10, <3>1
  <2>5. ASSUME NEW id \in Live'
        PROVE  LET j == jobs'[Slot(id)] IN
               /\ j.lo + j.size = Lo(id + 1)' /\ j.lo + j.size <= taken
               /\ j.last = (frameEnded' /\ id = nextJobID' - 1)
               /\ (j.size = 0 => j.last) /\ SumOf(j)
    <3>1. CASE id = n
      <4>1. id = nextJobID' - 1 /\ jobs'[Slot(id)] = k
        BY <2>3, <3>1 DEF k, o
      <4>2. k.last \in BOOLEAN
        BY JobFields DEF k, o
      <4>3. k.last = (frameEnded' /\ id = nextJobID' - 1)
        BY <2>2, <4>1, <4>2
      <4>4. k.lo + k.size = Lo(id + 1)'
        <5>1. id + 1 \in Nat /\ id + 1 = n + 1
          BY <1>1, <3>1
        <5> QED BY <2>2, <5>1
      <4> QED BY <2>2, <4>1, <4>3, <4>4
    <3>2. CASE id # n
      <4>1. id \in Live /\ id # nextJobID' - 1
        BY <1>3, <2>3, <3>2
      <4>2. jobs'[Slot(id)].last \in BOOLEAN
        BY <1>2, <4>1, LiveJob, JobFields
      <4>3. jobs'[Slot(id)].last = (frameEnded' /\ id = nextJobID' - 1)
        BY <2>1, <4>1, <4>2
      <4> QED BY <2>1, <4>1, <4>3
    <3> QED BY <3>1, <3>2
  <2>6. serial'.checksum = want
    BY DEF Cutting
  <2> QED BY <1>8, <2>3, <2>4, <2>5, <2>6 DEF Cutting, d
<1>12. Writing'
  <2>1. ASSUME NEW id \in Live'
        PROVE  LET j == jobs'[Slot(id)] IN Section(j) /\ (Complete(j) /\ ~j.error => Full(j))
    <3>1. CASE id = n
      BY <3>1 DEF k, o, n
    <3>2. CASE id # n
      <4>1. id \in Live
        BY <1>3, <3>2
      <4> QED BY <1>2, <4>1 DEF Writing
    <3> QED BY <3>1, <3>2
  <2>2. \A w \in Workers : wpc[w] \in {"finish", "report"} =>
          Job(w)' = Job(w) /\ (~Job(w).error => Full(Job(w)))
    BY <1>9 DEF Writing, Active
  <2> QED BY <1>8, <2>1, <2>2 DEF Writing, workerVars
<1>13. Given'
  <2>1. \A i \in 1 .. Len(given) : given[i] = Tok(i)
    BY DEF Given
  <2>2. Len(given) = Base(Current') + Current'.dstFlushed
    <3>1. CASE d = n
      <4>1. Current' = k
        BY <3>1 DEF Current, d, n, k, o
      <4>2. Len(given) = IF n = 0 THEN 0 ELSE CutAt + 1
        BY <3>1 DEF Given, d, n
      <4>3. k.jobID = n /\ k.dstFlushed = 0 /\ k.lo = CutAt /\ k.lo \in Nat
        BY JobFields DEF k, o, n
      <4> QED BY <4>1, <4>2, <4>3 DEF Base
    <3>2. CASE d # n
      <4>1. d \in Live /\ d < n
        BY <1>1, <3>2 DEF Live, d, n
      <4>2. Current' = Current
        BY <1>2, <4>1 DEF Current, d
      <4> QED BY <4>1, <4>2 DEF Given, d, n
    <3> QED BY <3>1, <3>2
  <2>3. doneJobID' < nextJobID'
    BY <1>1 DEF d, n
  <2>4. \A j : Base(j)' = Base(j)
    BY DEF Base
  <2>5. /\ \A i \in 1 .. Len(given') : given'[i] = Tok(i)'
        /\ Len(given') = (Base(Current) + Current.dstFlushed)'
    BY <2>1, <2>2, <2>4 DEF Tok, Base
  <2>6. doneJobID' # nextJobID'
    BY <1>1, <2>3 DEF d, n
  <2>7. ASSUME NEW id \in Live', id # doneJobID
        PROVE  jobs'[Slot(id)].dstFlushed = 0
    <3>1. CASE id = n
      BY <3>1 DEF n, k, o
    <3>2. CASE id # n
      <4>1. id \in Live
        BY <1>3, <3>2
      <4> QED BY <1>2, <2>7, <4>1 DEF Given
    <3> QED BY <3>1, <3>2
  <2> QED BY <2>5, <2>6, <2>7 DEF Given
<1>14. Turns'
  <2> SUFFICES ASSUME Clean' PROVE Turns'
    BY DEF Turns
  <2>1. Clean
    BY <1>2, <1>3 DEF Clean
  <2>2. ASSUME NEW w \in Workers
        PROVE  /\ wpc[w] \in {"begin", "serial", "asleep"} => serial.nextJobID <= Job(w)'.jobID
               /\ wpc[w] = "report" => Job(w)'.jobID < serial.nextJobID
    BY <1>9, <2>1 DEF Turns, Active
  <2>3. serial.nextJobID <= n /\ serial.nextJobID \in Nat
    BY <2>1, SerialFields DEF Turns, n, IInv
  <2>4. queued' # NoSlot => serial.nextJobID <= jobs'[queued'].jobID
    <3>1. CASE queued' = o
      BY <2>3, <3>1 DEF k, o, n
    <3>2. CASE queued' = queued
      <4> SUFFICES ASSUME queued # NoSlot PROVE serial.nextJobID <= jobs'[queued].jobID
        BY <3>2
      <4>1. PICK id \in Live : queued = Slot(id)
        BY DEF IInv, Queue, Pending, Live
      <4> QED BY <1>2, <2>1, <4>1 DEF Turns
    <3> QED BY <3>1, <3>2 DEF o
  <2>5. ASSUME NEW id \in Live', LET j == jobs'[Slot(id)] IN Complete(j) /\ j.size > 0
        PROVE  id < serial.nextJobID
    <3>1. CASE id = n
      <4>1. Complete(k) /\ k.size > 0
        BY <2>5, <3>1 DEF k, o, n
      <4> QED BY <4>1 DEF k, o
    <3>2. CASE id # n
      <4>1. id \in Live
        BY <1>3, <3>2
      <4> QED BY <1>2, <2>1, <2>5, <4>1 DEF Turns
    <3> QED BY <3>1, <3>2
  <2>6. d <= serial.nextJobID
    <3>1. ~(serial.nextJobID < d)
      BY <2>1 DEF Turns, d
    <3> QED BY <1>1, <2>3, <3>1
  <2>7. want => serial.hashed = Lo(serial.nextJobID)'
    <3>1. want => serial.hashed = Lo(serial.nextJobID)
      BY <2>1, <2>6 DEF Turns, d
    <3>2. Lo(serial.nextJobID)' = Lo(serial.nextJobID)
      <4>1. \A i \in Nat : i = serial.nextJobID => Lo(i)' = Lo(i)
        BY <1>10, <2>3, <2>6
      <4>2. serial' = serial
        OBVIOUS
      <4> QED BY <2>3, <4>1, <4>2
    <3> QED BY <3>1, <3>2
  <2>8. serial.nextJobID <= nextJobID' /\ ~(serial.nextJobID < doneJobID')
    BY <1>1, <2>3, <2>6 DEF d, n
  <2> QED BY <2>2, <2>4, <2>5, <2>7, <2>8 DEF Turns, workerVars
<1> QED BY <1>11, <1>12, <1>13, <1>14 DEF ZeroMeansFlushed

\* A job that has no output yet.
LEMMA FreshSection ==
  ASSUME NEW j \in JobRecord, j.out = <<>>, SumOf(j)
  PROVE  Section(j)
<1>1. j.lo \in Nat /\ j.size \in Nat /\ j.needSum \in BOOLEAN
  BY JobFields
<1> DEFINE lo == j.lo  n == j.size  f == Flag(j.needSum)  b == Base(j)
           e == IF j.last THEN 1 + Flag(want) ELSE 0
<1>2. f \in Nat /\ e \in Nat /\ f <= e
  BY DEF SumOf, Flag
<1>3. b = 0 \/ b = lo + 1
  BY DEF Base
<1>4. EndPos(j) = lo + n + 1 + e
  BY DEF EndPos
<1>5. Len(j.out) = 0
  OBVIOUS
<1>6. b + 0 + f <= lo + n + 1 + e
  <2>1. lo \in Nat /\ n \in Nat
    BY <1>1
  <2> HIDE DEF lo, n, f, e, b
  <2> QED BY <1>2, <1>3, <2>1
<1>7. Base(j) + Len(j.out) + Flag(j.needSum) <= EndPos(j)
  BY <1>4, <1>5, <1>6
<1>8. 1 .. Len(j.out) = {}
  BY <1>5
<1> HIDE DEF lo, n, f, e, b
<1> QED BY <1>7, <1>8 DEF Section

LEMMA PostReadyJobContent ==
  ASSUME IInv, Content, PostReadyJob
  PROVE  Content'
<1> USE DEF Content
<1>1. /\ jobReady /\ status = "open" /\ ~TableFull /\ mpc' = "flush"
      /\ UNCHANGED <<jobs, doneJobID, frameEnded, checksumFlag, inBuff, serial, workerVars,
                     ret, taken, given, want, status>>
  BY DEF PostReadyJob, frameVars, IInv, Stages
<1>2. CASE IsQueueFull
  <2>1. UNCHANGED <<queued, nextJobID, jobReady>>
    BY <1>1, <1>2 DEF PostReadyJob, PostJob
  <2> QED BY <1>1, <2>1, NothingWritten DEF workerVars
<1>3. CASE ~IsQueueFull
  <2> DEFINE k == jobs[Slot(nextJobID)]
  <2>1. queued' = Slot(nextJobID) /\ nextJobID' = nextJobID + 1 /\ ~jobReady'
    BY <1>3 DEF PostReadyJob, PostJob
  <2>2. k \in JobRecord /\ k.jobID = nextJobID /\ Fresh(k) /\ nextJobID \in Nat
    BY <1>1, ReadyJob
  <2>3. /\ inBuff.filled = 0 /\ k.lo + k.size = taken /\ k.last = frameEnded /\ SumOf(k)
        /\ checksumFlag => want
        /\ ~frameEnded => checksumFlag = want
    BY <1>1 DEF Cutting
  <2>4. k.lo = CutAt
    BY <1>1 DEF CutAt
  <2>5. /\ k.size > 0 /\ k.size \in Nat /\ k.consumed = 0 /\ k.out = <<>> /\ k.dstFlushed = 0
        /\ k.lo \in Nat /\ k.needSum \in BOOLEAN
    BY <2>2, JobFields DEF Fresh
  <2>6. ~Complete(k) /\ k.size # 0
    <3> HIDE DEF k
    <3> QED BY <2>5 DEF Complete
  <2>7. Section(k)
    <3> HIDE DEF k
    <3> QED BY <2>2, <2>3, <2>5, FreshSection
  <2> HIDE DEF k
  <2> QED BY <1>1, <2>1, <2>2, <2>3, <2>4, <2>5, <2>6, <2>7, PostedContent DEF k
<1> QED BY <1>2, <1>3

\* The job made of what is in no job yet.
LEMMA NewJobContent ==
  ASSUME IInv, Content, status = "open", mpc = "create", ~jobReady, ~frameEnded
  PROVE  /\ NewJob.lo = CutAt /\ NewJob.lo + NewJob.size = taken /\ NewJob.lo \in Nat
         /\ NewJob.last = (call.op = "end") /\ SumOf(NewJob)
         /\ (call.op = "end") /\ nextJobID > 0 => NewJob.needSum = want
         /\ checksumFlag = want
<1> USE DEF Content
<1>1. /\ inBuff.filled \in Nat /\ taken \in Nat /\ inBuff.filled <= taken
      /\ checksumFlag = want /\ checksumFlag \in BOOLEAN
  BY DEF IInv, Types, Stages, Cutting
<1>2. /\ NewJob.lo = taken - inBuff.filled /\ NewJob.size = inBuff.filled
      /\ NewJob.jobID = nextJobID /\ NewJob.checksum = checksumFlag
      /\ NewJob.last = (call.op = "end")
      /\ NewJob.needSum = (call.op = "end" /\ nextJobID > 0 /\ checksumFlag)
  BY DEF NewJob, JobFor
<1>3. NewJob.lo = CutAt
  BY <1>2 DEF CutAt
<1> HIDE DEF NewJob
<1>4. SumOf(NewJob)
  <2>1. NewJob.jobID = 0 => NewJob.checksum = want
    BY <1>1, <1>2
  <2>2. NewJob.needSum => NewJob.last /\ NewJob.jobID > 0 /\ want
    <3>1. NewJob.needSum => call.op = "end" /\ nextJobID > 0 /\ checksumFlag
      BY <1>2
    <3>2. checksumFlag => want
      BY <1>1
    <3> QED BY <1>2, <3>1, <3>2
  <2>3. NewJob.last /\ NewJob.jobID > 0 /\ want => NewJob.needSum
    BY Zenon, <1>1, <1>2
  <2> QED BY <2>1, <2>2, <2>3 DEF SumOf
<1>5. (call.op = "end") /\ nextJobID > 0 => NewJob.needSum = want
  BY <1>1, <1>2
<1>6. NewJob.lo + NewJob.size = taken /\ NewJob.lo \in Nat
  <2> DEFINE a == inBuff.filled
  <2>1. a \in Nat /\ taken \in Nat /\ a <= taken
    BY <1>1
  <2> HIDE DEF a
  <2>2. (taken - a) + a = taken /\ taken - a \in Nat
    BY <2>1
  <2> QED BY <1>2, <2>2 DEF a
<1> QED BY <1>1, <1>2, <1>3, <1>4, <1>5, <1>6

LEMMA CreateJobContent ==
  ASSUME IInv, Content, CreateJob
  PROVE  Content'
<1> USE DEF Content
<1> DEFINE o == Slot(nextJobID)  e == (call.op = "end")
<1>1. /\ mpc = "create" /\ mpc' = "flush" /\ ~TableFull /\ ~jobReady /\ status = "open"
      /\ jobs' = [jobs EXCEPT ![o] = NewJob]
      /\ PrepareJob /\ PostJob
      /\ UNCHANGED <<doneJobID, allJobsCompleted, serial, nbBusy, workerVars,
                     call, ret, frame, failures, taken, given, want, status>>
  BY DEF CreateJob, IInv, Stages, frameVars
<1>2. /\ nextJobID \in Nat /\ doneJobID \in Nat /\ doneJobID <= nextJobID /\ o \in Slots
      /\ nextJobID < doneJobID + NbSlots
  BY <1>1, SlotInTable, ConstantTypes DEF IInv, Types, Placed, TableFull
<1>3. inBuff.filled > 0 /\ inBuff.filled \in Nat /\ ~frameEnded
  BY <1>1, ConstantTypes DEF CreateJob, NeedsJob, IInv, Stages, Types
<1>4. /\ NewJob \in JobRecord /\ NewJob.jobID = nextJobID /\ NewJob.size = inBuff.filled
      /\ NewJob.consumed = 0 /\ NewJob.out = <<>> /\ ~NewJob.error /\ NewJob.dstFlushed = 0
  BY <1>1, NewJobFields
<1>5. /\ NewJob.lo = CutAt /\ NewJob.lo + NewJob.size = taken /\ NewJob.lo \in Nat
      /\ NewJob.last = e /\ SumOf(NewJob) /\ checksumFlag = want
  BY <1>1, <1>3, NewJobContent
<1>6. /\ frameEnded' = e /\ inBuff'.filled = 0
      /\ checksumFlag' => want
      /\ ~e \/ nextJobID # 0 => checksumFlag' = want
  <2>1. /\ frameEnded' = (frameEnded \/ e) /\ inBuff' = NoInput
        /\ checksumFlag' = (checksumFlag /\ ~(e /\ nextJobID = 0))
    BY <1>1 DEF PrepareJob
  <2>2. checksumFlag \in BOOLEAN
    BY DEF IInv, Types
  <2>3. frameEnded' = e
    BY <1>3, <2>1
  <2> HIDE DEF e
  <2> QED BY <1>5, <2>1, <2>2, <2>3 DEF NoInput
<1>7. ~Complete(NewJob) /\ NewJob.size # 0
  BY <1>3, <1>4 DEF Complete
<1>8. Section(NewJob)
  BY <1>4, <1>5, FreshSection
<1>9. jobs'[o] = NewJob /\ \A s \in Slots : s # o => jobs'[s] = jobs[s]
  BY <1>1, <1>2 DEF IInv, Types
<1> HIDE DEF o, e, NewJob
<1>10. CASE ~IsQueueFull
  <2>1. queued' = o /\ nextJobID' = nextJobID + 1 /\ ~jobReady'
    BY <1>1, <1>10 DEF PostJob, o
  <2> QED BY <1>1, <1>3, <1>4, <1>5, <1>6, <1>7, <1>8, <1>9, <2>1, PostedContent DEF o
<1>11. CASE IsQueueFull
  <2>1. jobReady' /\ UNCHANGED <<queued, nextJobID>>
    BY <1>1, <1>11 DEF PostJob
  <2>2. o \in Slots \ Pending
    BY <1>2, NextSlotFree DEF IInv, o
  <2>3. /\ Live' = Live
        /\ \A id \in Live : id \in Nat /\ Slot(id) \in Slots /\ jobs'[Slot(id)] = jobs[Slot(id)]
    BY <1>1, <1>9, <2>1, <2>2, LiveJob DEF Live
  <2>4. CutAt' = CutAt
    BY <1>5, <1>9, <2>1 DEF CutAt, o
  <2>5. \A i \in Nat : doneJobID <= i => Lo(i)' = Lo(i)
    <3> SUFFICES ASSUME NEW i \in Nat, doneJobID <= i PROVE Lo(i)' = Lo(i)
      OBVIOUS
    <3>1. CASE i < nextJobID
      <4>1. i \in Live
        BY <1>2, <3>1 DEF Live
      <4> QED BY <2>1, <2>3, <3>1, <4>1 DEF Lo
    <3>2. CASE ~(i < nextJobID)
      BY <2>1, <2>4, <3>2 DEF Lo
    <3> QED BY <3>1, <3>2
  <2>6. \A j : Section(j)' = Section(j) /\ Full(j)' = Full(j) /\ SumOf(j)' = SumOf(j)
    BY <1>1 DEF Section, Full, SumOf, Tok, EndPos
  <2>7. \A w \in Workers : Active(w) => Job(w)' = Job(w)
    <3> SUFFICES ASSUME NEW w \in Workers, Active(w) PROVE Job(w)' = Job(w)
      OBVIOUS
    <3> QED BY <1>1, <2>3, WorkerJob DEF Job, workerVars
  <2>8. Cutting'
    <3>1. ASSUME NEW id \in Live
          PROVE  LET j == jobs[Slot(id)] IN
                 /\ j.lo + j.size = Lo(id + 1)' /\ j.lo + j.size <= taken
                 /\ j.last = FALSE /\ (j.size = 0 => j.last) /\ SumOf(j)
      <4>1. id + 1 \in Nat /\ doneJobID <= id + 1
        <5>1. id \in Nat /\ doneJobID <= id /\ doneJobID \in Nat
          BY LiveJob DEF IInv, Types
        <5> HIDE DEF Content
        <5> QED BY <5>1
      <4>2. Lo(id + 1)' = Lo(id + 1)
        BY <2>5, <4>1
      <4> QED BY <1>1, <1>3, <4>2 DEF Cutting
    <3>2. doneJobID = 0 => Lo(0)' = 0
      BY <1>1, <1>2, <2>5 DEF Cutting
    <3>3. /\ inBuff'.filled = 0 /\ NewJob.lo + NewJob.size = taken
          /\ NewJob.last = frameEnded' /\ SumOf(NewJob)
          /\ checksumFlag' => want
          /\ ~frameEnded' => checksumFlag' = want
          /\ serial.checksum = want
      BY <1>1, <1>5, <1>6 DEF Cutting
    <3>4. /\ jobReady' /\ nextJobID' = nextJobID /\ jobs'[Slot(nextJobID')] = NewJob
          /\ UNCHANGED <<status, taken, want, serial, doneJobID>>
      <4> HIDE DEF Content
      <4> QED BY <1>1, <1>9, <2>1 DEF o
    <3>5. SumOf(jobs[Slot(nextJobID)])'
      BY <2>6, <3>3, <3>4
    <3>6. ASSUME NEW id \in Live
          PROVE  LET j == jobs'[Slot(id)] IN
                 /\ j.lo + j.size = Lo(id + 1)' /\ j.lo + j.size <= taken
                 /\ j.last = FALSE /\ (j.size = 0 => j.last) /\ SumOf(jobs[Slot(id)])'
      <4> HIDE DEF Content
      <4> QED BY <2>3, <2>6, <3>1
    <3> HIDE DEF Content
    <3> QED BY <2>3, <3>2, <3>3, <3>4, <3>5, <3>6 DEF Cutting
  <2>9. Writing'
    BY <1>1, <2>3, <2>6, <2>7 DEF Writing, workerVars, Active
  <2>10. Given'
    <3>1. doneJobID < nextJobID => Current' = Current
      <4>1. doneJobID < nextJobID => doneJobID \in Live
        BY <1>2 DEF Live
      <4> QED BY <1>1, <2>3, <4>1 DEF Current
    <3>2. \A j : Base(j)' = Base(j)
      BY DEF Base
    <3>3. doneJobID < nextJobID => (Base(Current) + Current.dstFlushed)' = Base(Current) + Current.dstFlushed
      BY <3>1, <3>2 DEF Base
    <3>4. \A id \in Live' : id # doneJobID => jobs'[Slot(id)].dstFlushed = 0
      BY <1>1, <2>3 DEF Given
    <3> QED BY <1>1, <1>3, <2>1, <2>4, <3>3, <3>4 DEF Given, Tok
  <2>11. Turns'
    <3> SUFFICES ASSUME Clean' PROVE Turns'
      BY DEF Turns
    <3>1. Clean
      BY <2>3 DEF Clean
    <3>2. ASSUME NEW w \in Workers
          PROVE  /\ wpc[w] \in {"begin", "serial", "asleep"} => serial.nextJobID <= Job(w)'.jobID
                 /\ wpc[w] = "report" => Job(w)'.jobID < serial.nextJobID
      BY <1>1, <2>7, <3>1 DEF Turns, Active
    <3>3. queued # NoSlot => serial.nextJobID <= jobs'[queued].jobID
      <4> SUFFICES ASSUME queued # NoSlot PROVE serial.nextJobID <= jobs'[queued].jobID
        OBVIOUS
      <4>1. PICK id \in Live : queued = Slot(id)
        BY DEF IInv, Queue, Pending, Live
      <4> QED BY <1>1, <2>3, <3>1, <4>1 DEF Turns
    <3>4. /\ serial.nextJobID <= nextJobID /\ serial.nextJobID \in Nat
          /\ ~(serial.nextJobID < doneJobID)
      BY <1>1, <1>3, <3>1, SerialFields DEF Turns, IInv
    <3>5. want => serial.hashed = Lo(serial.nextJobID)'
      <4>1. \A i \in Nat : i = serial.nextJobID => Lo(i)' = Lo(i)
        BY <1>2, <2>5, <3>4
      <4>2. doneJobID <= serial.nextJobID
        BY <1>2, <3>4
      <4>3. want => serial.hashed = Lo(serial.nextJobID)
        BY <1>1, <3>1, <4>2 DEF Turns
      <4>4. Lo(serial.nextJobID)' = Lo(serial.nextJobID)
        BY <1>1, <3>4, <4>1
      <4> QED BY <4>3, <4>4
    <3>6. \A id \in Live : LET j == jobs[Slot(id)] IN Complete(j) /\ j.size > 0 => id < serial.nextJobID
      BY <1>1, <3>1 DEF Turns
    <3> QED BY <1>1, <2>1, <2>3, <3>2, <3>3, <3>4, <3>5, <3>6 DEF Turns, workerVars
  <2> QED BY <1>1, <2>8, <2>9, <2>10, <2>11 DEF ZeroMeansFlushed
<1> QED BY <1>10, <1>11

LEMMA CreateLastEmptyBlockContent ==
  ASSUME IInv, Content, CreateLastEmptyBlock
  PROVE  Content'
<1> USE DEF Content
<1> DEFINE o == Slot(nextJobID)
           a == [NewJob EXCEPT !.out = <<LastMark>>]  b == [NewJob EXCEPT !.error = TRUE]
<1>1. /\ mpc = "create" /\ mpc' = "flush" /\ ~TableFull /\ ~jobReady /\ status = "open"
      /\ inBuff.filled = 0 /\ call.op = "end" /\ ~frameEnded /\ nextJobID > 0
      /\ jobs' = [jobs EXCEPT ![o] = a] \/ jobs' = [jobs EXCEPT ![o] = b]
      /\ PrepareJob /\ nextJobID' = nextJobID + 1
      /\ UNCHANGED <<doneJobID, jobReady, serial, poolVars, workerVars, call, ret,
                     taken, given, want, status>>
  BY ConstantTypes DEF CreateLastEmptyBlock, IInv, Stages, NeedsJob, frameVars
<1>2. nextJobID \in Nat /\ o \in Slots /\ taken \in Nat /\ want \in BOOLEAN
  BY SlotInTable DEF IInv, Types
<1>3. /\ NewJob \in JobRecord /\ NewJob.jobID = nextJobID /\ NewJob.size = 0
      /\ NewJob.consumed = 0 /\ NewJob.out = <<>> /\ ~NewJob.error /\ NewJob.dstFlushed = 0
  BY <1>1, NewJobFields
<1>4. /\ NewJob.lo = CutAt /\ NewJob.lo + NewJob.size = taken /\ NewJob.lo \in Nat
      /\ NewJob.last = TRUE /\ SumOf(NewJob) /\ NewJob.needSum = want /\ checksumFlag = want
  BY <1>1, NewJobContent
<1>5. /\ frameEnded' = TRUE /\ inBuff'.filled = 0 /\ (checksumFlag' => want)
  BY <1>1, <1>4 DEF PrepareJob, NoInput
<1>6. NewJob.lo = taken
  BY <1>2, <1>3, <1>4
<1> HIDE DEF NewJob
<1>7. /\ a \in JobRecord /\ a.jobID = nextJobID /\ a.dstFlushed = 0 /\ a.lo = NewJob.lo
      /\ a.size = 0 /\ a.last /\ a.last \in BOOLEAN /\ a.checksum = NewJob.checksum
      /\ a.needSum = want /\ a.consumed = 0 /\ a.out = <<LastMark>> /\ ~a.error
  <2>1. <<LastMark>> \in Seq(Token)
    BY Tokens
  <2> DEFINE s == <<LastMark>>
  <2> HIDE DEF s
  <2>2. a = [NewJob EXCEPT !.out = s]
    BY DEF a, s
  <2>3. /\ a \in JobRecord /\ a.jobID = nextJobID /\ a.dstFlushed = 0 /\ a.lo = NewJob.lo
        /\ a.size = 0 /\ a.last = NewJob.last /\ a.checksum = NewJob.checksum
        /\ a.needSum = NewJob.needSum /\ a.consumed = 0 /\ a.out = s /\ ~a.error
    BY <1>3, <2>1, <2>2 DEF JobRecord, s
  <2> QED BY <1>4, <2>3 DEF s
<1>8. /\ b \in JobRecord /\ b.jobID = nextJobID /\ b.dstFlushed = 0 /\ b.lo = NewJob.lo
      /\ b.size = 0 /\ b.last /\ b.last \in BOOLEAN /\ b.checksum = NewJob.checksum
      /\ b.needSum = want /\ b.consumed = 0 /\ b.out = <<>> /\ b.error
  BY <1>3, <1>4 DEF JobRecord
<1> HIDE DEF a, b
<1>9. /\ Section(b) /\ SumOf(b) /\ Complete(b)
  <2>1. SumOf(b) /\ Complete(b)
    BY <1>1, <1>2, <1>8 DEF SumOf, Complete
  <2> QED BY <1>4, <1>8, <2>1, FreshSection
<1>10. /\ Section(a) /\ SumOf(a) /\ Complete(a) /\ Full(a)
  <2>1. SumOf(a) /\ Complete(a)
    BY <1>1, <1>2, <1>7 DEF SumOf, Complete
  <2>2. Base(a) = taken + 1 /\ EndPos(a) = taken + 0 + 1 + (1 + Flag(want))
    BY <1>1, <1>2, <1>6, <1>7 DEF Base, EndPos
  <2>3. Flag(a.needSum) = Flag(want) /\ Flag(want) \in Nat /\ Len(a.out) = 1
    BY <1>7 DEF Flag
  <2>4. Base(a) + Len(a.out) + Flag(a.needSum) = EndPos(a) /\ EndPos(a) \in Nat
    <3> DEFINE f == Flag(want)
    <3>1. f \in Nat /\ (taken + 1) + 1 + f = taken + 0 + 1 + (1 + f)
          /\ taken + 0 + 1 + (1 + f) \in Nat
      <4>1. f \in Nat
        BY <2>3
      <4> HIDE DEF f
      <4> QED BY <1>2, <4>1
    <3> QED BY <2>2, <2>3, <3>1
  <2>5. ASSUME NEW i \in 1 .. Len(a.out)
        PROVE  a.out[i] = Tok(Base(a) + i)
    <3>1. i = 1 /\ a.out[1] = LastMark
      BY <1>7, <2>3
    <3>2. taken + 1 + 1 = taken + 2 /\ taken + 2 # 1 /\ ~(taken + 2 <= taken + 1)
      BY <1>2
    <3>3. Tok(taken + 2) = LastMark
      BY <3>2 DEF Tok
    <3> QED BY <2>2, <3>1, <3>2, <3>3
  <2>6. EndPos(a) <= EndPos(a)
    BY <2>4
  <2> QED BY <2>1, <2>4, <2>5, <2>6 DEF Section, Full
<1>11. PICK k : /\ k = a \/ k = b
                /\ jobs' = [jobs EXCEPT ![o] = k]
  BY <1>1
<1>12. jobs'[o] = k /\ \A s \in Slots : s # o => jobs'[s] = jobs[s]
  BY <1>2, <1>11 DEF IInv, Types
<1>13. /\ k \in JobRecord /\ k.jobID = nextJobID /\ k.dstFlushed = 0
       /\ k.lo = CutAt /\ k.lo + k.size = taken /\ k.last = frameEnded'
       /\ k.size = 0 /\ k.last /\ SumOf(k) /\ Section(k) /\ (Complete(k) /\ ~k.error => Full(k))
  <2>1. taken + 0 = taken
    BY <1>2
  <2>2. CASE k = a
    BY <1>4, <1>5, <1>6, <1>7, <1>10, <2>1, <2>2
  <2>3. CASE k = b
    BY <1>4, <1>5, <1>6, <1>8, <1>9, <2>1, <2>3
  <2> QED BY <1>11, <2>2, <2>3
<1> QED BY <1>1, <1>5, <1>12, <1>13, PostedContent DEF poolVars

-----------------------------------------------------------------------------
\* The application thread flushes the oldest job.

\* Where that job ends, in the input.
LEMMA FlushedJobEnds ==
  ASSUME IInv, Content, status = "open", doneJobID < nextJobID
  PROVE  LET j == Current IN
         /\ doneJobID \in Live /\ doneJobID \in Nat /\ doneJobID + 1 <= nextJobID
         /\ j = jobs[Slot(doneJobID)] /\ j.jobID = doneJobID /\ j \in JobRecord
         /\ Section(j) /\ SumOf(j) /\ (Complete(j) /\ ~j.error => Full(j))
         /\ j.lo + j.size = Lo(doneJobID + 1) /\ j.lo + j.size <= taken
         /\ j.size = 0 => j.last
         /\ j.last = (frameEnded /\ ~jobReady /\ doneJobID = nextJobID - 1)
         /\ j.last => doneJobID + 1 = nextJobID /\ j.lo + j.size = taken
         /\ doneJobID + 1 = nextJobID => j.lo + j.size = CutAt
         /\ j.last => CutAt = taken
<1> USE DEF Content
<1>1. doneJobID \in Nat /\ nextJobID \in Nat /\ taken \in Nat
  BY DEF IInv, Types
<1>2. doneJobID \in Live /\ doneJobID + 1 <= nextJobID
  BY <1>1 DEF Live
<1>3. LET j == Current IN
      /\ j = jobs[Slot(doneJobID)] /\ j.jobID = doneJobID /\ j \in JobRecord
      /\ Section(j) /\ SumOf(j) /\ (Complete(j) /\ ~j.error => Full(j))
      /\ j.lo + j.size = Lo(doneJobID + 1) /\ j.lo + j.size <= taken
      /\ j.size = 0 => j.last
      /\ j.last = (frameEnded /\ ~jobReady /\ doneJobID = nextJobID - 1)
  BY <1>2, LiveJob DEF Current, Cutting, Writing
<1>4. doneJobID + 1 = nextJobID => Current.lo + Current.size = CutAt
  BY <1>1, <1>3 DEF Lo
<1>5. Current.last => doneJobID + 1 = nextJobID /\ CutAt = taken
  <2> SUFFICES ASSUME Current.last PROVE doneJobID + 1 = nextJobID /\ CutAt = taken
    OBVIOUS
  <2>1. frameEnded /\ ~jobReady /\ doneJobID = nextJobID - 1
    BY <1>3
  <2>2. inBuff.filled = 0
    BY <2>1 DEF IInv, Stages
  <2> QED BY <1>1, <2>1, <2>2 DEF CutAt
<1> QED BY <1>1, <1>2, <1>3, <1>4, <1>5

\* What is flushed is a section of the frame, with its checksum appended by the
\* application thread if a later job than the first ends the frame.
LEMMA FlushedSection ==
  ASSUME IInv, Content, Flush, doneJobID < nextJobID
  PROVE  LET j == Current IN
         /\ \A i \in 1 .. Len(FlushOut) : FlushOut[i] = Tok(Base(j) + i)
         /\ Complete(j) => Base(j) + Len(FlushOut) = EndPos(j)
         /\ Base(j) \in Nat /\ EndPos(j) \in Nat
<1> USE DEF Content
<1> DEFINE j == Current
<1>1. status = "open" /\ mpc = "flush" /\ ~j.error
  BY FlushStep DEF IInv, Stages
<1>2. /\ doneJobID \in Live /\ doneJobID \in Nat /\ doneJobID + 1 <= nextJobID
      /\ j = jobs[Slot(doneJobID)] /\ j.jobID = doneJobID /\ j \in JobRecord
      /\ Section(j) /\ SumOf(j) /\ (Complete(j) => Full(j))
      /\ j.size = 0 => j.last
      /\ j.last => doneJobID + 1 = nextJobID /\ j.lo + j.size = taken
      /\ doneJobID + 1 = nextJobID => j.lo + j.size = CutAt
      /\ j.last => CutAt = taken
  BY <1>1, FlushedJobEnds
<1>3. /\ j.lo \in Nat /\ j.size \in Nat /\ j.jobID \in Nat /\ Len(j.out) \in Nat
      /\ j.needSum \in BOOLEAN /\ j.out \in Seq(Token) /\ j.last \in BOOLEAN
      /\ j.lo + j.size \in Nat
  BY <1>2, JobFields
<1>4. taken \in Nat /\ nextJobID \in Nat /\ want \in BOOLEAN /\ serial.nextJobID \in Nat
  BY SerialFields DEF IInv, Types
<1>5. Base(j) \in Nat /\ EndPos(j) \in Nat
  <2> HIDE DEF j
  <2>1. Base(j) \in Nat
    BY <1>3 DEF Base
  <2>2. (IF j.last THEN 1 + Flag(want) ELSE 0) \in Nat
    BY DEF Flag
  <2> QED BY <1>3, <2>1, <2>2 DEF EndPos
<1>6. CASE ~(Complete(j) /\ j.needSum)
  <2>1. FlushOut = j.out
    BY <1>6 DEF FlushOut
  <2>2. Complete(j) => Base(j) + Len(j.out) = EndPos(j)
    <3> SUFFICES ASSUME Complete(j) PROVE Base(j) + Len(j.out) = EndPos(j)
      OBVIOUS
    <3>1. Flag(j.needSum) = 0
      BY <1>6 DEF Flag
    <3>2. Base(j) + Len(j.out) + Flag(j.needSum) = EndPos(j)
      BY <1>2 DEF Full
    <3> HIDE DEF j
    <3> QED BY <1>3, <1>5, <3>1, <3>2
  <2> HIDE DEF j
  <2> QED BY <1>2, <1>5, <2>1, <2>2 DEF Section, j
<1>7. CASE Complete(j) /\ j.needSum
  <2>1. j.last /\ j.jobID > 0 /\ want
    BY <1>2, <1>7 DEF SumOf
  <2>2. doneJobID + 1 = nextJobID /\ j.lo + j.size = taken /\ CutAt = taken
    BY <1>2, <2>1
  <2>3. Base(j) + Len(j.out) + 1 = taken + 3 /\ EndPos(j) = taken + 3
    <3>1. Base(j) + Len(j.out) + Flag(j.needSum) = EndPos(j)
      BY <1>2, <1>7 DEF Full
    <3>2. Flag(j.needSum) = 1 /\ Flag(want) = 1
      BY <1>7, <2>1 DEF Flag
    <3>3. EndPos(j) = taken + 1 + (1 + 1)
      BY <2>1, <2>2, <3>2 DEF EndPos
    <3> HIDE DEF j
    <3> QED BY <1>3, <1>4, <1>5, <3>1, <3>2, <3>3
  <2>4. serial.hashed = taken
    <3>1. Live = {doneJobID}
      BY <1>2, <1>4, <2>2 DEF Live
    <3>2. Clean
      BY <1>1, <1>2, <3>1 DEF Clean
    <3>3. /\ serial.nextJobID <= nextJobID
          /\ serial.nextJobID < doneJobID => doneJobID = nextJobID
          /\ want /\ doneJobID <= serial.nextJobID => serial.hashed = Lo(serial.nextJobID)
          /\ Complete(j) /\ j.size > 0 => doneJobID < serial.nextJobID
      BY <1>1, <1>2, <3>2 DEF Turns
    <3>4. serial.nextJobID = doneJobID \/ serial.nextJobID = nextJobID
      BY <1>2, <1>4, <2>2, <3>3
    <3>5. serial.hashed = Lo(serial.nextJobID)
      BY <1>2, <1>4, <2>1, <2>2, <3>3, <3>4
    <3>6. CASE serial.nextJobID = nextJobID
      BY <1>4, <2>2, <3>5, <3>6 DEF Lo
    <3>7. CASE serial.nextJobID = doneJobID
      <4>1. j.size = 0
        BY <1>2, <1>3, <1>7, <3>3, <3>7
      <4>2. Lo(doneJobID) = j.lo
        BY <1>2 DEF Lo
      <4>3. j.lo = taken
        <5> HIDE DEF j
        <5> QED BY <1>3, <1>4, <2>2, <4>1
      <4> QED BY <3>5, <3>7, <4>2, <4>3
    <3> QED BY <3>4, <3>6, <3>7
  <2>5. FlushOut = Append(j.out, HashOf(taken))
    BY <1>7, <2>4 DEF FlushOut
  <2>6. Tok(taken + 3) = HashOf(taken)
    <3>1. taken + 3 # 1 /\ ~(taken + 3 <= taken + 1) /\ taken + 3 # taken + 2
      BY <1>4
    <3> QED BY <3>1 DEF Tok
  <2>7. \A i \in 1 .. Len(j.out) : j.out[i] = Tok(Base(j) + i)
    BY <1>2 DEF Section
  <2> DEFINE h == HashOf(taken)  b == Base(j)  s == j.out  l == Len(s)
  <2>8. s \in Seq(Token) /\ h \in Token
    BY <1>3, <1>4, Tokens
  <2> HIDE DEF j, h
  <2>9. Len(FlushOut) = l + 1 /\ FlushOut[l + 1] = h /\ \A i \in 1 .. l : FlushOut[i] = s[i]
    <3> HIDE DEF s
    <3> QED BY <2>5, <2>8 DEF h, s
  <2>10. l \in Nat /\ b \in Nat /\ b + l + 1 = taken + 3 /\ EndPos(j) = taken + 3
    BY <1>3, <1>5, <2>3
  <2>11. ASSUME NEW i \in 1 .. Len(FlushOut)
         PROVE  FlushOut[i] = Tok(b + i)
    <3> HIDE DEF l, b, s
    <3>1. CASE i = l + 1
      <4>1. b + i = taken + 3
        BY <1>4, <2>10, <3>1
      <4> QED BY <2>6, <2>9, <3>1, <4>1 DEF h
    <3>2. CASE i # l + 1
      <4>1. i \in 1 .. l
        BY <2>9, <2>10, <3>2
      <4>2. s[i] = Tok(b + i)
        BY <2>7, <4>1 DEF s, b, l
      <4> QED BY <2>9, <4>1, <4>2
    <3> QED BY <3>1, <3>2
  <2>12. b + Len(FlushOut) = EndPos(j)
    <3> HIDE DEF l, b, s
    <3> QED BY <1>4, <2>9, <2>10
  <2> QED BY <1>5, <2>11, <2>12 DEF j
<1> QED BY <1>6, <1>7

\* What flushing leaves alone.
LEMMA FlushSame ==
  ASSUME IInv, Content, Flush
  PROVE  /\ status = "open" /\ ~Current.error /\ Slot(doneJobID) \in Slots
         /\ jobs'[Slot(doneJobID)] = FlushedJob
         /\ \A s \in Slots : s # Slot(doneJobID) => jobs'[s] = jobs[s]
         /\ UNCHANGED <<nextJobID, jobReady, frameEnded, checksumFlag, inBuff, serial, queued,
                        wpc, wjob, taken, want>>
         /\ doneJobID' = IF FlushOver THEN doneJobID + 1 ELSE doneJobID
         /\ FlushOver => doneJobID < nextJobID /\ Complete(Current)
         /\ \A s \in Slots :
              LET j == jobs[s]  k == jobs'[s] IN
              /\ k.jobID = j.jobID /\ k.lo = j.lo /\ k.size = j.size /\ k.last = j.last
              /\ k.checksum = j.checksum /\ k.consumed = j.consumed /\ k.error = j.error
         /\ Live' = IF FlushOver THEN Live \ {doneJobID} ELSE Live
         /\ CutAt' = CutAt
         /\ \A i \in Nat : Lo(i)' = Lo(i)
         /\ Clean' => Clean
<1> USE DEF Content
<1> DEFINE c == Slot(doneJobID)
<1>1. /\ status = "open" /\ ~Current.error
      /\ UNCHANGED <<nextJobID, jobReady, frameEnded, checksumFlag, inBuff, serial, queued,
                     wpc, wjob, taken, want>>
      /\ doneJobID' = IF FlushOver THEN doneJobID + 1 ELSE doneJobID
      /\ jobs' = [jobs EXCEPT ![c] = FlushedJob]
  BY FlushStep DEF FlushDone, poolVars, workerVars, IInv, Stages
<1>2. c \in Slots
  BY FlushCurrent
<1>3. jobs'[c] = FlushedJob /\ \A s \in Slots : s # c => jobs'[s] = jobs[s]
  BY <1>1, <1>2 DEF IInv, Types
<1>4. doneJobID \in Nat /\ nextJobID \in Nat /\ doneJobID <= nextJobID
  BY DEF IInv, Types, Placed
<1>5. FlushOver => doneJobID < nextJobID /\ Complete(Current)
  <2>1. doneJobID = nextJobID => FlushOut = <<>>
    BY FlushCurrent
  <2> QED BY <1>4, <2>1 DEF FlushOver
<1>6. ASSUME NEW s \in Slots
      PROVE  LET j == jobs[s]  k == jobs'[s] IN
             /\ k.jobID = j.jobID /\ k.lo = j.lo /\ k.size = j.size /\ k.last = j.last
             /\ k.checksum = j.checksum /\ k.consumed = j.consumed /\ k.error = j.error
  <2>1. CASE s = c
    BY <1>3, <2>1, FlushedFields DEF Current
  <2>2. CASE s # c
    BY <1>3, <2>2
  <2> QED BY <2>1, <2>2
<1>7. Live' = IF FlushOver THEN Live \ {doneJobID} ELSE Live
  <2>1. CASE FlushOver
    <3>1. (doneJobID + 1) .. nextJobID - 1 = (doneJobID .. nextJobID - 1) \ {doneJobID}
      BY <1>4
    <3>2. Live' = (doneJobID + 1) .. nextJobID - 1
      BY <1>1, <2>1 DEF Live
    <3> QED BY <2>1, <3>1, <3>2 DEF Live
  <2>2. CASE ~FlushOver
    BY <1>1, <2>2 DEF Live
  <2> QED BY <2>1, <2>2
<1>8. CutAt' = CutAt
  BY <1>1, <1>4, <1>6, SlotInTable DEF CutAt
<1>9. \A i \in Nat : Lo(i)' = Lo(i)
  BY <1>1, <1>6, <1>8, SlotInTable DEF Lo
<1>10. Clean' => Clean
  <2> SUFFICES ASSUME Clean', NEW id \in Live PROVE ~jobs[Slot(id)].error
    BY DEF Clean
  <2>1. CASE id = doneJobID
    BY <1>1, <2>1 DEF Current
  <2>2. CASE id # doneJobID
    <3>1. id \in Live' /\ Slot(id) \in Slots
      BY <1>7, <2>2, LiveJob
    <3> QED BY <1>6, <3>1 DEF Clean
  <2> QED BY <2>1, <2>2
<1> QED BY <1>1, <1>2, <1>3, <1>5, <1>6, <1>7, <1>8, <1>9, <1>10

\* What the caller has received once it is flushed.
LEMMA FlushGiven ==
  ASSUME IInv, Content, Flush
  PROVE  /\ \A i \in 1 .. Len(given') : given'[i] = Tok(i)
         /\ doneJobID' < nextJobID =>
              LET k == jobs'[Slot(doneJobID')] IN Len(given') = Base(k) + k.dstFlushed
         /\ doneJobID' = nextJobID =>
              Len(given') = IF nextJobID = 0 THEN 0
                            ELSE IF frameEnded /\ ~jobReady THEN taken + 2 + Flag(want)
                            ELSE CutAt + 1
<1> USE DEF Content
<1> DEFINE j == Current  d == j.dstFlushed  n == FlushEnd
           t == SubSeq(FlushOut, d + 1, n)  z == 0
<1>1. /\ status = "open" /\ given' = given \o t
      /\ doneJobID' = IF FlushOver THEN doneJobID + 1 ELSE doneJobID
      /\ jobs'[Slot(doneJobID)] = FlushedJob
      /\ FlushOver => doneJobID < nextJobID /\ Complete(j)
  BY FlushStep, FlushSame
<1>2. /\ FlushOut \in Seq(Token) /\ Len(FlushOut) \in Nat /\ n \in Nat /\ d <= n
      /\ j \in JobRecord /\ d \in Nat
      /\ doneJobID < nextJobID => n <= Len(FlushOut)
      /\ doneJobID = nextJobID => FlushOut = <<>> /\ n = d
  BY FlushCurrent, JobFields
<1>3. /\ doneJobID \in Nat /\ nextJobID \in Nat /\ doneJobID <= nextJobID
      /\ given \in Seq(Token) /\ Len(given) \in Nat
  BY DEF IInv, Types, Placed
<1>4. z \in Nat /\ \A i \in Nat : z + i = i
  OBVIOUS
<1> HIDE DEF z
<1>5. \A i \in 1 .. Len(given) : given[i] = Tok(z + i)
  <2>1. \A i \in 1 .. Len(given) : given[i] = Tok(i) /\ z + i = i
    BY <1>1, <1>3, <1>4 DEF Given
  <2> QED BY <2>1
<1>6. CASE doneJobID = nextJobID
  <2>1. t = <<>>
    <3> HIDE DEF n, d
    <3>1. FlushOut = <<>> /\ n = d
      BY <1>2, <1>6
    <3> QED BY <1>2, <3>1
  <2>2. given' = given
    <3>1. given \o <<>> = given
      BY <1>3, ConcatEmptySeq
    <3> QED BY <1>1, <2>1, <3>1
  <2>3. doneJobID' = doneJobID
    BY <1>1, <1>3, <1>6
  <2>4. ~(doneJobID' < nextJobID)
    BY <1>3, <1>6, <2>3
  <2> HIDE DEF t
  <2> QED BY <1>1, <1>6, <2>2, <2>3, <2>4 DEF Given
<1>7. CASE doneJobID < nextJobID
  <2>1. /\ \A i \in 1 .. Len(FlushOut) : FlushOut[i] = Tok(Base(j) + i)
        /\ Complete(j) => Base(j) + Len(FlushOut) = EndPos(j)
        /\ Base(j) \in Nat /\ EndPos(j) \in Nat
    BY <1>7, FlushedSection
  <2>2. n <= Len(FlushOut)
    BY <1>2, <1>7
  <2> DEFINE b == Base(j)  g == Len(given)
  <2> HIDE DEF b, d, n, j
  <2>3. g = b + d /\ b \in Nat /\ g \in Nat
    BY <1>1, <1>3, <1>7, <2>1 DEF Given, b, d, j
  <2>4. t \in Seq(Token) /\ Len(t) = n - d /\ \A i \in 1 .. Len(t) : t[i] = FlushOut[d + i]
    <3>1. \A i \in d + 1 .. n : FlushOut[i] \in Token
      BY <1>2, <2>2
    <3>2. t \in Seq(Token) /\ Len(t) = n - d
      BY <1>2, <2>2
    <3>3. \A i \in 1 .. n - d : t[i] = FlushOut[d + i]
      BY <1>2, <2>2
    <3> QED BY <3>2, <3>3
  <2>5. \A i \in 1 .. Len(t) : t[i] = Tok(z + Len(given) + i)
    <3> SUFFICES ASSUME NEW i \in 1 .. Len(t) PROVE t[i] = Tok(z + Len(given) + i)
      OBVIOUS
    <3> HIDE DEF t, g
    <3>1. i \in Nat /\ d + i \in 1 .. Len(FlushOut)
      BY <1>2, <2>2, <2>4
    <3>2. t[i] = Tok(b + (d + i))
      BY <2>1, <2>4, <3>1 DEF b
    <3>3. b + (d + i) = z + g + i
      BY <1>2, <1>4, <2>3, <3>1
    <3> QED BY <3>2, <3>3 DEF g
  <2> HIDE DEF t
  <2>6. /\ Len(given') = g + (n - d)
        /\ \A i \in 1 .. Len(given') : given'[i] = Tok(z + i)
    <3>1. /\ Len(given \o t) = Len(given) + Len(t)
          /\ \A i \in 1 .. Len(given \o t) : (given \o t)[i] = Tok(z + i)
      BY <1>3, <1>4, <1>5, <2>4, <2>5, Appended
    <3> QED BY <1>1, <2>4, <3>1 DEF g
  <2> HIDE DEF g
  <2>7. Len(given') = b + n
    BY <1>2, <2>3, <2>6
  <2>8. \A i \in 1 .. Len(given') : given'[i] = Tok(i)
    <3>1. \A i \in 1 .. Len(given') : z + i = i
      BY <1>2, <1>4, <2>3, <2>7
    <3> QED BY <2>6, <3>1
  <2>9. /\ doneJobID \in Live /\ doneJobID + 1 <= nextJobID /\ j.jobID = doneJobID
        /\ j.lo + j.size = Lo(doneJobID + 1)
        /\ j.last = (frameEnded /\ ~jobReady /\ doneJobID = nextJobID - 1)
        /\ j.last => doneJobID + 1 = nextJobID /\ j.lo + j.size = taken
        /\ doneJobID + 1 = nextJobID => j.lo + j.size = CutAt
        /\ j.last => CutAt = taken
    BY <1>1, <1>7, FlushedJobEnds DEF j
  <2>10. CASE ~FlushOver
    <3>1. doneJobID' = doneJobID /\ doneJobID # nextJobID
      BY <1>1, <1>3, <1>7, <2>10
    <3>2. Base(FlushedJob) = b /\ FlushedJob.dstFlushed = n
      BY FlushedFields DEF Base, b, j, n
    <3> QED BY <1>1, <2>7, <2>8, <3>1, <3>2
  <2>11. CASE FlushOver
    <3>1. doneJobID' = doneJobID + 1 /\ n = Len(FlushOut)
      BY <1>1, <2>11 DEF FlushOver, n
    <3>2. Len(given') = EndPos(j)
      BY <1>1, <2>1, <2>7, <2>11, <3>1 DEF b
    <3>3. CASE doneJobID + 1 = nextJobID
      <4>1. Len(given') = IF frameEnded /\ ~jobReady THEN taken + 2 + Flag(want) ELSE CutAt + 1
        <5>1. doneJobID = nextJobID - 1
          BY <1>3, <3>3
        <5>2. CASE frameEnded /\ ~jobReady
          <6>1. j.last
            BY <2>9, <5>1, <5>2
          <6>2. EndPos(j) = taken + 1 + (1 + Flag(want)) /\ taken \in Nat /\ Flag(want) \in Nat
            BY <2>9, <6>1 DEF EndPos, Flag, IInv, Types
          <6>3. taken + 1 + (1 + Flag(want)) = taken + 2 + Flag(want)
            BY <6>2
          <6> QED BY <3>2, <5>2, <6>2, <6>3
        <5>3. CASE ~(frameEnded /\ ~jobReady)
          <6>1. ~j.last
            BY <2>9, <5>3
          <6>2. EndPos(j) = CutAt + 1 + 0
            BY <2>9, <3>3, <6>1 DEF EndPos
          <6>3. CutAt \in Nat
            BY <1>2, <2>9, <3>3, JobFields
          <6> QED BY <3>2, <5>3, <6>2, <6>3
        <5> QED BY <5>2, <5>3
      <4>2. nextJobID # 0 /\ ~(doneJobID' < nextJobID)
        BY <1>3, <3>1, <3>3
      <4> QED BY <2>8, <4>1, <4>2
    <3>4. CASE doneJobID + 1 # nextJobID
      <4> DEFINE e == doneJobID + 1  k == jobs[Slot(e)]
      <4>1. e \in Live /\ e # doneJobID /\ e # 0 /\ e < nextJobID /\ e \in Nat
        BY <1>3, <2>9, <3>4 DEF Live
      <4> HIDE DEF e
      <4>2. k.jobID = e /\ k.dstFlushed = 0 /\ k.lo = Lo(e) /\ k.lo \in Nat
        BY <1>1, <4>1, LiveJob, JobFields DEF Given, Lo
      <4>3. jobs'[Slot(e)] = k
        <5>1. Slot(e) # Slot(doneJobID) /\ Slot(e) \in Slots
          BY <2>9, <4>1, LiveJob
        <5> QED BY <5>1, FlushSame
      <4>4. Base(k) = Lo(e) + 1
        BY <4>1, <4>2 DEF Base
      <4>5. EndPos(j) = Lo(e) + 1 + 0
        <5>1. ~j.last
          BY <2>9, <3>4
        <5> QED BY <2>9, <5>1 DEF EndPos, e
      <4>6. Len(given') = Base(k) + k.dstFlushed
        BY <3>2, <4>2, <4>4, <4>5
      <4>7. doneJobID' = e /\ doneJobID' # nextJobID
        BY <3>1, <4>1 DEF e
      <4> HIDE DEF k
      <4> QED BY <2>8, <4>3, <4>6, <4>7
    <3> QED BY <3>3, <3>4
  <2> QED BY <2>10, <2>11
<1> QED BY <1>3, <1>6, <1>7

\* The encoding, token by token.
LEMMA EncodingTokens ==
  ASSUME taken \in Nat, want \in BOOLEAN
  PROVE  LET all == Encoding(taken, want) IN
         /\ all \in Seq(Token) /\ Len(all) = taken + 2 + Flag(want)
         /\ \A i \in 1 .. Len(all) : all[i] = Tok(i)
<1> DEFINE z == 0
           h == <<Header(want)>>  blocks == [i \in 1 .. taken |-> Block(i)]
           e == <<LastMark>>  sum == IF want THEN <<HashOf(taken)>> ELSE <<>>
<1>1. z \in Nat /\ \A i \in Nat : z + i = i
  OBVIOUS
<1> HIDE DEF z
<1>2. h \in Seq(Token) /\ Len(h) = 1 /\ \A i \in 1 .. Len(h) : h[i] = Tok(z + i)
  <2>1. h \in Seq(Token) /\ Len(h) = 1 /\ h[1] = Header(want)
    BY Tokens
  <2>2. Tok(z + 1) = Header(want)
    BY <1>1 DEF Tok
  <2> HIDE DEF h
  <2> QED BY <2>1, <2>2
<1>3. /\ blocks \in Seq(Token) /\ Len(blocks) = taken
      /\ \A i \in 1 .. Len(blocks) : blocks[i] = Tok(z + Len(h) + i)
  <2>1. blocks \in [1 .. taken -> Token]
    BY Tokens
  <2>2. blocks \in Seq(Token) /\ Len(blocks) = taken
    BY <2>1
  <2>3. ASSUME NEW i \in 1 .. taken
        PROVE  blocks[i] = Tok(z + Len(h) + i)
    <3>1. blocks[i] = Block(i)
      OBVIOUS
    <3>2. z + Len(h) + i = 1 + i
      <4> HIDE DEF h
      <4>1. z + Len(h) = 1
        BY <1>1, <1>2
      <4> QED BY <4>1
    <3>3. 1 + i # 1 /\ 1 + i <= taken + 1 /\ (1 + i) - 1 = i
      OBVIOUS
    <3>4. Tok(1 + i) = Block(i)
      BY <3>3 DEF Tok
    <3> QED BY <3>1, <3>2, <3>4
  <2> QED BY <2>2, <2>3
<1> HIDE DEF h, blocks
<1> DEFINE u == h \o blocks
<1>4. /\ u \in Seq(Token) /\ Len(u) = 1 + taken
      /\ \A i \in 1 .. Len(u) : u[i] = Tok(z + i)
  <2>1. /\ h \in Seq(Token) /\ blocks \in Seq(Token)
        /\ \A i \in 1 .. Len(h) : h[i] = Tok(z + i)
        /\ \A i \in 1 .. Len(blocks) : blocks[i] = Tok(z + Len(h) + i)
    BY <1>2, <1>3
  <2>2. /\ u \in Seq(Token) /\ Len(u) = Len(h) + Len(blocks)
        /\ \A i \in 1 .. Len(u) : u[i] = Tok(z + i)
    BY <1>1, <2>1, Appended
  <2> HIDE DEF u
  <2> QED BY <1>2, <1>3, <2>2
<1> HIDE DEF u
<1>5. /\ e \in Seq(Token) /\ Len(e) = 1
      /\ \A i \in 1 .. Len(e) : e[i] = Tok(z + Len(u) + i)
  <2>1. e \in Seq(Token) /\ Len(e) = 1 /\ e[1] = LastMark
    BY Tokens
  <2>2. z + Len(u) + 1 = taken + 2
    <3>1. z + Len(u) = Len(u)
      BY <1>1, <1>4
    <3> QED BY <1>4, <3>1
  <2>3. Tok(taken + 2) = LastMark
    BY DEF Tok
  <2> HIDE DEF e
  <2> QED BY <2>1, <2>2, <2>3
<1> HIDE DEF e
<1> DEFINE v == u \o e
<1>6. /\ v \in Seq(Token) /\ Len(v) = taken + 2
      /\ \A i \in 1 .. Len(v) : v[i] = Tok(z + i)
  <2>1. /\ u \in Seq(Token) /\ e \in Seq(Token)
        /\ \A i \in 1 .. Len(u) : u[i] = Tok(z + i)
        /\ \A i \in 1 .. Len(e) : e[i] = Tok(z + Len(u) + i)
    BY <1>4, <1>5
  <2>2. /\ v \in Seq(Token) /\ Len(v) = Len(u) + Len(e)
        /\ \A i \in 1 .. Len(v) : v[i] = Tok(z + i)
    BY <1>1, <2>1, Appended
  <2> HIDE DEF v
  <2> QED BY <1>4, <1>5, <2>2
<1> HIDE DEF v
<1>7. /\ sum \in Seq(Token) /\ Len(sum) = Flag(want)
      /\ \A i \in 1 .. Len(sum) : sum[i] = Tok(z + Len(v) + i)
  <2>1. CASE want
    <3>1. sum = <<HashOf(taken)>> /\ HashOf(taken) \in Token
      BY <2>1, Tokens
    <3>2. z + Len(v) + 1 = taken + 3
      <4>1. z + Len(v) = Len(v)
        BY <1>1, <1>6
      <4> QED BY <1>6, <4>1
    <3>3. Tok(taken + 3) = HashOf(taken)
      BY DEF Tok
    <3>4. sum \in Seq(Token) /\ Len(sum) = 1 /\ sum[1] = HashOf(taken)
      BY <3>1
    <3>5. Flag(want) = 1
      BY <2>1 DEF Flag
    <3> HIDE DEF sum
    <3> QED BY <3>2, <3>3, <3>4, <3>5
  <2>2. CASE ~want
    BY <2>2 DEF Flag
  <2> QED BY <2>1, <2>2
<1> DEFINE w == v \o sum
<1> HIDE DEF sum
<1>8. /\ w \in Seq(Token) /\ Len(w) = Len(v) + Len(sum)
      /\ \A i \in 1 .. Len(w) : w[i] = Tok(z + i)
  <2>1. /\ v \in Seq(Token) /\ sum \in Seq(Token)
        /\ \A i \in 1 .. Len(v) : v[i] = Tok(z + i)
        /\ \A i \in 1 .. Len(sum) : sum[i] = Tok(z + Len(v) + i)
    BY <1>6, <1>7
  <2> QED BY <1>1, <2>1, Appended
<1> HIDE DEF w
<1>9. Encoding(taken, want) = w
  BY DEF Encoding, w, v, u, h, blocks, e, sum
<1>10. Len(w) = taken + 2 + Flag(want) /\ Len(w) \in Nat
  BY <1>6, <1>7, <1>8 DEF Flag
<1>11. ASSUME NEW i \in 1 .. Len(w)
       PROVE  w[i] = Tok(i)
  <2>1. z + i = i
    BY <1>1, <1>10
  <2> QED BY <1>8, <2>1
<1> QED BY <1>8, <1>9, <1>10, <1>11

\* Told that nothing is left, the caller has everything.
LEMMA FlushZero ==
  ASSUME IInv, IInv', Content, Flush
  PROVE  ZeroMeansFlushed'
<1> USE DEF Content
<1> SUFFICES ASSUME ret' = "clean"
             PROVE  /\ \A p \in 1 .. taken : \E i \in 1 .. Len(given') : given'[i] = Block(p)
                    /\ frameEnded => given' = Encoding(taken, want)
  BY FlushSame DEF ZeroMeansFlushed
<1>1. /\ status = "open" /\ taken \in Nat /\ want \in BOOLEAN /\ given' \in Seq(Token)
      /\ doneJobID' \in Nat /\ nextJobID \in Nat /\ Len(given') \in Nat
  <2>1. status = "open"
    BY FlushSame
  <2>2. taken \in Nat /\ want \in BOOLEAN /\ nextJobID \in Nat
    BY DEF IInv, Types
  <2>3. given' \in Seq(Token) /\ doneJobID' \in Nat
    BY DEF IInv, Types
  <2>4. Len(given') \in Nat
    BY <2>3
  <2> QED BY <2>1, <2>2, <2>3, <2>4
<1>2. /\ doneJobID' = nextJobID /\ ~jobReady /\ inBuff.filled = 0
  <2>1. FlushTold = "clean" /\ doneJobID' = FlushDone
    BY FlushStep, FlushAnswer
  <2>2. ~(doneJobID' < nextJobID) /\ ~jobReady /\ ~(inBuff.filled > 0)
    BY <2>1, FlushAnswer
  <2>3. doneJobID' <= nextJobID'
    BY DEF IInv, Placed
  <2>4. inBuff.filled \in Nat
    BY DEF IInv, Types
  <2>5. nextJobID' = nextJobID
    BY FlushSame
  <2> HIDE DEF Content
  <2> QED BY <1>1, <2>2, <2>3, <2>4, <2>5
<1>3. /\ \A i \in 1 .. Len(given') : given'[i] = Tok(i)
      /\ Len(given') = IF nextJobID = 0 THEN 0
                       ELSE IF frameEnded THEN taken + 2 + Flag(want) ELSE taken + 1
  <2>1. CutAt = taken
    BY <1>1, <1>2 DEF CutAt
  <2> QED BY <1>2, <2>1, FlushGiven
<1>4. nextJobID = 0 => taken = 0 /\ ~frameEnded
  BY <1>1, <1>2 DEF Cutting, IInv, Stages
<1>5. ASSUME NEW p \in 1 .. taken
      PROVE  \E i \in 1 .. Len(given') : given'[i] = Block(p)
  <2>1. nextJobID # 0
    BY <1>1, <1>4
  <2>2. p + 1 \in 1 .. Len(given')
    <3>1. Flag(want) \in Nat
      BY DEF Flag
    <3>2. Len(given') >= taken + 1
      BY <1>1, <1>3, <2>1, <3>1
    <3> QED BY <1>1, <3>2
  <2>3. Tok(p + 1) = Block(p)
    <3>1. p + 1 # 1 /\ p + 1 <= taken + 1 /\ (p + 1) - 1 = p
      BY <1>1
    <3> QED BY <3>1 DEF Tok
  <2>4. given'[p + 1] = Block(p)
    BY <1>3, <2>2, <2>3
  <2> QED BY <2>2, <2>4
<1>6. ASSUME frameEnded
      PROVE  given' = Encoding(taken, want)
  <2> DEFINE all == Encoding(taken, want)
  <2>1. /\ all \in Seq(Token) /\ Len(all) = taken + 2 + Flag(want)
        /\ \A i \in 1 .. Len(all) : all[i] = Tok(i)
    BY <1>1, EncodingTokens
  <2> HIDE DEF all
  <2>2. Len(given') = Len(all)
    BY <1>3, <1>4, <1>6, <2>1
  <2>3. \A i \in 1 .. Len(given') : given'[i] = all[i]
    BY <1>3, <2>1, <2>2
  <2> QED BY <1>1, <2>1, <2>2, <2>3, SeqEqual DEF all
<1> QED BY <1>5, <1>6

LEMMA FlushContent ==
  ASSUME IInv, IInv', Content, Flush
  PROVE  Content'
<1> USE DEF Content
<1> DEFINE j == Current  k == FlushedJob  c == Slot(doneJobID)
<1>1. /\ status = "open" /\ ~j.error /\ c \in Slots /\ jobs'[c] = k
      /\ \A s \in Slots : s # c => jobs'[s] = jobs[s]
      /\ UNCHANGED <<nextJobID, jobReady, frameEnded, checksumFlag, inBuff, serial, queued,
                     wpc, wjob, taken, want>>
      /\ doneJobID' = IF FlushOver THEN doneJobID + 1 ELSE doneJobID
      /\ FlushOver => doneJobID < nextJobID /\ Complete(j)
      /\ \A s \in Slots :
           LET a == jobs[s]  b == jobs'[s] IN
           /\ b.jobID = a.jobID /\ b.lo = a.lo /\ b.size = a.size /\ b.last = a.last
           /\ b.checksum = a.checksum /\ b.consumed = a.consumed /\ b.error = a.error
      /\ Live' = IF FlushOver THEN Live \ {doneJobID} ELSE Live
      /\ CutAt' = CutAt
      /\ \A i \in Nat : Lo(i)' = Lo(i)
      /\ Clean' => Clean
  BY FlushSame
<1>2. doneJobID \in Nat /\ nextJobID \in Nat /\ doneJobID <= nextJobID
  BY DEF IInv, Types, Placed
<1>3. /\ \A id \in Live' : id \in Live
      /\ \A id \in Live : id \in Nat /\ Slot(id) \in Slots /\ jobs[Slot(id)].jobID = id
                          /\ (Slot(id) = c => id = doneJobID)
  <2>1. \A id \in Live' : id \in Live
    BY <1>1
  <2>2. ASSUME NEW id \in Live
        PROVE  id \in Nat /\ Slot(id) \in Slots /\ jobs[Slot(id)].jobID = id
               /\ (Slot(id) = c => id = doneJobID)
    <3>1. doneJobID \in Live
      BY <1>2, LiveJob DEF Live
    <3> QED BY <3>1, LiveJob
  <2> QED BY <2>1, <2>2
<1>4. \A x : Section(x)' = Section(x) /\ Full(x)' = Full(x) /\ SumOf(x)' = SumOf(x)
  BY <1>1 DEF Section, Full, SumOf, Tok, EndPos
<1>5. /\ k.jobID = j.jobID /\ k.lo = j.lo /\ k.size = j.size /\ k.last = j.last
      /\ k.consumed = j.consumed /\ k.error = j.error /\ k.checksum = j.checksum
      /\ k.out = IF FlushOver THEN <<>> ELSE FlushOut
      /\ k.needSum = (j.needSum /\ ~Complete(j))
      /\ ~Complete(j) => k.out = j.out /\ k.needSum = j.needSum /\ ~FlushOver
  BY FlushedFields
<1>6. j = jobs[c] /\ j \in JobRecord /\ j.size \in Nat /\ j.consumed \in Nat
      /\ j.needSum \in BOOLEAN
  BY FlushCurrent, JobFields DEF Current
<1> HIDE DEF j, k, c
<1>7. Cutting'
  <2>1. ASSUME NEW s \in Slots, SumOf(jobs[s])
        PROVE  SumOf(jobs'[s])
    <3>1. CASE s = c
      <4>1. jobs'[s] = k /\ SumOf(j)
        BY <1>1, <1>6, <2>1, <3>1
      <4>2. j.consumed < j.size => ~Complete(j)
        BY <1>6 DEF Complete
      <4>3. k.needSum => k.last /\ k.jobID > 0 /\ want
        BY <1>5, <4>1 DEF SumOf
      <4>4. k.consumed < k.size /\ k.last /\ k.jobID > 0 /\ want => k.needSum
        BY <1>5, <4>1, <4>2 DEF SumOf
      <4>5. k.jobID = 0 => k.checksum = want
        BY <1>5, <4>1 DEF SumOf
      <4> QED BY <4>1, <4>3, <4>4, <4>5 DEF SumOf
    <3>2. CASE s # c
      BY <1>1, <2>1, <3>2
    <3> QED BY <3>1, <3>2
  <2>2. ASSUME NEW id \in Live'
        PROVE  LET x == jobs'[Slot(id)] IN
               /\ x.lo + x.size = Lo(id + 1)' /\ x.lo + x.size <= taken
               /\ x.last = (frameEnded /\ ~jobReady /\ id = nextJobID - 1)
               /\ x.size = 0 => x.last
               /\ SumOf(x)
    <3>1. id \in Live /\ id + 1 \in Nat /\ Slot(id) \in Slots
      BY <1>3
    <3>2. Lo(id + 1)' = Lo(id + 1)
      BY <1>1, <3>1
    <3>3. LET x == jobs[Slot(id)] IN
          /\ x.lo + x.size = Lo(id + 1) /\ x.lo + x.size <= taken
          /\ x.last = (frameEnded /\ ~jobReady /\ id = nextJobID - 1)
          /\ x.size = 0 => x.last
          /\ SumOf(x)
      BY <1>1, <3>1 DEF Cutting
    <3>4. SumOf(jobs'[Slot(id)])
      BY <2>1, <3>1, <3>3
    <3> QED BY <1>1, <3>1, <3>2, <3>3, <3>4
  <2>3. doneJobID' = 0 => doneJobID = 0
    BY <1>1, <1>2
  <2>4. doneJobID = 0 => Lo(0)' = 0
    BY <1>1 DEF Cutting
  <2>5. jobReady => LET r == jobs'[Slot(nextJobID)] IN
                    inBuff.filled = 0 /\ r.lo + r.size = taken /\ r.last = frameEnded /\ SumOf(r)
    <3>1. Slot(nextJobID) \in Slots
      BY <1>2, SlotInTable
    <3> QED BY <1>1, <2>1, <3>1 DEF Cutting
  <2>6. /\ checksumFlag => want
        /\ ~frameEnded => checksumFlag = want
        /\ serial.checksum = want
        /\ frameEnded /\ ~jobReady => nextJobID > 0
    BY <1>1 DEF Cutting
  <2> QED BY <1>1, <1>4, <2>2, <2>3, <2>4, <2>5, <2>6 DEF Cutting
<1>8. Writing'
  <2>1. ASSUME NEW id \in Live'
        PROVE  LET x == jobs'[Slot(id)] IN Section(x) /\ (Complete(x) /\ ~x.error => Full(x))
    <3>1. CASE id = doneJobID
      <4>1. ~FlushOver /\ doneJobID < nextJobID /\ jobs'[Slot(id)] = k
        <5>1. ~FlushOver
          BY <1>1, <2>1, <3>1
        <5>2. doneJobID < nextJobID
          BY <1>2, <1>3, <2>1, <3>1, LiveJob
        <5> QED BY <1>1, <3>1, <5>1, <5>2 DEF c
      <4>2. /\ \A i \in 1 .. Len(FlushOut) : FlushOut[i] = Tok(Base(j) + i)
            /\ Complete(j) => Base(j) + Len(FlushOut) = EndPos(j)
            /\ Base(j) \in Nat /\ EndPos(j) \in Nat
        BY <4>1, FlushedSection DEF j
      <4>3. k.out = FlushOut /\ Base(k) = Base(j) /\ EndPos(k) = EndPos(j)
            /\ Complete(k) = Complete(j)
        BY <1>5, <4>1 DEF Base, EndPos, Complete
      <4>4. CASE Complete(j)
        <5>1. Flag(k.needSum) = 0 /\ Len(FlushOut) \in Nat
          BY <1>5, <4>4, FlushCurrent DEF Flag
        <5>2. Base(k) + Len(k.out) + Flag(k.needSum) = EndPos(k)
          BY <4>2, <4>3, <4>4, <5>1
        <5>3. Base(k) + Len(k.out) + Flag(k.needSum) <= EndPos(k)
          BY <4>2, <4>3, <5>2
        <5> QED BY <4>1, <4>2, <4>3, <5>2, <5>3 DEF Section, Full
      <4>5. CASE ~Complete(j)
        <5>1. Section(j)
          BY <1>1, <1>3, <1>6, <2>1, <3>1 DEF Writing, c
        <5>2. k.out = j.out /\ k.needSum = j.needSum
          BY <1>5, <4>5
        <5>3. Section(k)
          BY <4>3, <5>1, <5>2 DEF Section
        <5> QED BY <4>1, <4>3, <4>5, <5>3
      <4> QED BY <4>4, <4>5
    <3>2. CASE id # doneJobID
      <4>1. id \in Live /\ jobs'[Slot(id)] = jobs[Slot(id)]
        BY <1>1, <1>3, <3>2
      <4> QED BY <1>1, <4>1 DEF Writing
    <3> QED BY <3>1, <3>2
  <2>2. ASSUME NEW w \in Workers, wpc[w] \in {"finish", "report"}, ~Job(w)'.error
        PROVE  Full(Job(w)')
    <3>1. Active(w)
      BY <2>2 DEF Active
    <3>2. /\ wjob[w] \in Slots /\ Job(w) = jobs[wjob[w]] /\ Job(w).consumed < Job(w).size
          /\ Job(w)' = jobs'[wjob[w]]
      BY <1>1, <3>1, WorkerJob DEF Job
    <3>3. ~Job(w).error
      BY <1>1, <2>2, <3>2
    <3>4. Full(Job(w))
      BY <1>1, <2>2, <3>3 DEF Writing
    <3>5. CASE wjob[w] = c
      <4>1. Job(w) = j /\ Job(w)' = k
        BY <1>1, <1>6, <3>2, <3>5
      <4>2. ~Complete(j)
        BY <1>6, <3>2, <4>1 DEF Complete
      <4>3. k.out = j.out /\ k.needSum = j.needSum
        BY <1>5, <4>2
      <4> QED BY <1>5, <3>4, <4>1, <4>3 DEF Full, Base, EndPos
    <3>6. CASE wjob[w] # c
      BY <1>1, <3>2, <3>4, <3>6
    <3> QED BY <3>5, <3>6
  <2> QED BY <1>1, <1>4, <2>1, <2>2 DEF Writing
<1>9. Given'
  <2>1. ASSUME NEW id \in Live', id # doneJobID'
        PROVE  jobs'[Slot(id)].dstFlushed = 0
    <3>1. id \in Live /\ id # doneJobID
      BY <1>1, <1>3, <2>1
    <3> QED BY <1>1, <1>3, <3>1 DEF Given
  <2>2. \A x : Base(x)' = Base(x)
    BY DEF Base
  <2>3. /\ \A i \in 1 .. Len(given') : given'[i] = Tok(i)'
        /\ doneJobID' < nextJobID' => Len(given') = (Base(Current) + Current.dstFlushed)'
        /\ doneJobID' = nextJobID' =>
             Len(given') = IF nextJobID' = 0 THEN 0
                           ELSE IF frameEnded' /\ ~jobReady' THEN taken' + 2 + Flag(want')
                           ELSE CutAt' + 1
    BY <1>1, <2>2, FlushGiven DEF Tok, Current, Base
  <2> QED BY <2>1, <2>3 DEF Given
<1>10. Turns'
  <2> SUFFICES ASSUME Clean' PROVE Turns'
    BY DEF Turns
  <2>1. Clean
    BY <1>1
  <2>2. ASSUME NEW w \in Workers
        PROVE  /\ wpc[w] \in {"begin", "serial", "asleep"} => serial.nextJobID <= Job(w)'.jobID
               /\ wpc[w] = "report" => Job(w)'.jobID < serial.nextJobID
    <3>1. Active(w) => Job(w)'.jobID = Job(w).jobID
      BY <1>1, WorkerJob DEF Job
    <3> QED BY <1>1, <2>1, <3>1 DEF Turns, Active
  <2>3. queued # NoSlot => serial.nextJobID <= jobs'[queued].jobID
    <3>1. queued # NoSlot => queued \in Slots
      BY DEF IInv, Types
    <3> QED BY <1>1, <2>1, <3>1 DEF Turns
  <2>4. ASSUME NEW id \in Live', LET x == jobs'[Slot(id)] IN Complete(x) /\ x.size > 0
        PROVE  id < serial.nextJobID
    <3>1. id \in Live /\ LET x == jobs[Slot(id)] IN Complete(x) /\ x.size > 0
      BY <1>1, <1>3, <2>4 DEF Complete
    <3> QED BY <1>1, <2>1, <3>1 DEF Turns
  <2>5. serial.nextJobID \in Nat /\ serial.nextJobID <= nextJobID
    BY <1>1, <2>1, SerialFields DEF Turns, IInv
  <2>6. serial.nextJobID < doneJobID' => doneJobID' = nextJobID /\ frameEnded /\ ~jobReady
    <3> SUFFICES ASSUME serial.nextJobID < doneJobID'
                 PROVE  doneJobID' = nextJobID /\ frameEnded /\ ~jobReady
      OBVIOUS
    <3>1. CASE ~FlushOver
      BY <1>1, <2>1, <3>1 DEF Turns
    <3>2. CASE FlushOver
      <4>1. doneJobID < nextJobID /\ Complete(j) /\ doneJobID' = doneJobID + 1
        BY <1>1, <3>2
      <4>2. doneJobID \in Live
        BY <1>2, <4>1 DEF Live
      <4>3. serial.nextJobID = doneJobID
        <5>1. ~(serial.nextJobID < doneJobID)
          BY <1>1, <1>2, <2>1, <4>1 DEF Turns
        <5> QED BY <1>2, <2>5, <4>1, <5>1
      <4>4. j.size = 0
        <5>1. j.size > 0 => doneJobID < serial.nextJobID
          BY <1>1, <1>6, <2>1, <4>1, <4>2 DEF Turns, c
        <5> QED BY <1>2, <1>6, <4>3, <5>1
      <4>5. /\ j.size = 0 => j.last
            /\ j.last = (frameEnded /\ ~jobReady /\ doneJobID = nextJobID - 1)
            /\ j.last => doneJobID + 1 = nextJobID
        BY <1>1, <4>1, FlushedJobEnds DEF j
      <4> QED BY <4>1, <4>4, <4>5
    <3> QED BY <3>1, <3>2
  <2>7. want /\ doneJobID' <= serial.nextJobID => serial.hashed = Lo(serial.nextJobID)'
    <3> SUFFICES ASSUME want, doneJobID' <= serial.nextJobID
                 PROVE  serial.hashed = Lo(serial.nextJobID)'
      OBVIOUS
    <3>1. doneJobID <= serial.nextJobID
      BY <1>1, <1>2, <2>5
    <3>2. serial.hashed = Lo(serial.nextJobID)
      BY <1>1, <2>1, <3>1 DEF Turns
    <3>3. Lo(serial.nextJobID)' = Lo(serial.nextJobID)
      BY <1>1, <2>5
    <3> QED BY <3>2, <3>3
  <2> QED BY <1>1, <2>2, <2>3, <2>4, <2>5, <2>6, <2>7 DEF Turns
<1> QED BY <1>7, <1>8, <1>9, <1>10, FlushZero

-----------------------------------------------------------------------------
\* The invariant.

LEMMA NextContent == Uses = {} /\ IInv /\ IInv' /\ Content /\ [Next]_vars => Content'
<1> SUFFICES ASSUME Uses = {}, IInv, IInv', Content, [Next]_vars PROVE Content'
  OBVIOUS
<1>1. CASE StartFrame
  BY <1>1, QuietContent
<1>2. CASE CallStream
  <2> PICK op \in {"continue", "flush", "end"}, room \in Rooms :
         \/ CallNoInput(op, room)
         \/ \E avail \in 1 .. MaxInput - taken :
              FillInput(op, avail, room) \/ FillRefused(op, avail, room)
    BY <1>2 DEF CallStream
  <2>1. CASE \E avail \in 1 .. MaxInput - taken : FillInput(op, avail, room)
    BY <2>1, FillInputContent
  <2>2. CASE \/ CallNoInput(op, room)
             \/ \E avail \in 1 .. MaxInput - taken : FillRefused(op, avail, room)
    BY <2>2, QuietContent
  <2> QED BY <2>1, <2>2
<1>3. CASE MainStep
  <2>1. CASE InitNewFrame \/ ResetCStream \/ FailFrame
    BY <2>1, FrameLimitContent
  <2>2. CASE CreateNothing \/ FlushSleep \/ FlushError
    BY <2>2, QuietContent
  <2>3. CASE CreateJob \/ PostReadyJob \/ CreateLastEmptyBlock
    BY <2>3, CreateJobContent, PostReadyJobContent, CreateLastEmptyBlockContent
  <2>4. CASE Flush
    BY <2>4, FlushContent
  <2> QED BY <1>3, <2>1, <2>2, <2>3, <2>4 DEF MainStep
<1>4. CASE \E w \in Workers : WorkerStep(w)
  BY <1>4, PoolStepContent, WaitContent, FailJobContent, SerialTurnContent,
     CompressChunkContent, CompressLastContent, EnsureFinishedContent, ReportJobContent
     DEF WorkerStep
<1>5. CASE UNCHANGED vars
  BY <1>5, NothingWritten DEF vars, mainVars, poolVars, workerVars, callVars, frameVars
<1> QED BY <1>1, <1>2, <1>3, <1>4, <1>5 DEF Next, Quiet

LEMMA ContentInvariance == Uses = {} => (Spec => [](IInv /\ Content))
<1> SUFFICES ASSUME Uses = {} PROVE Spec => [](IInv /\ Content)
  OBVIOUS
<1>1. PlainUse
  BY DEF PlainUse
<1>2. Init => IInv /\ Content
  BY InitInv, InitContent
<1>3. IInv /\ Content /\ [Next]_vars => (IInv /\ Content)'
  BY <1>1, NextInv, NextContent
<1> QED BY <1>2, <1>3, PTL DEF Spec

\* An answer of 0 means that everything accepted has been handed out, and the whole
\* frame if it was to end: what the doc of ZSTD1_flushStream and ZSTD1_endStream
\* promises, for the multithreaded compressor.
THEOREM Flushed == Uses = {} => (Spec => []ZeroMeansFlushed)
<1> SUFFICES ASSUME Uses = {} PROVE Spec => []ZeroMeansFlushed
  OBVIOUS
<1>1. IInv /\ Content => ZeroMeansFlushed
  BY DEF Content
<1> QED BY <1>1, ContentInvariance, PTL

-----------------------------------------------------------------------------
\* The refinement: MTStream implements the frame of MTFrame.

\* What was handed out is a prefix of the encoding of what was accepted, without
\* the end mark as long as the frame was not ended.
Prefix ==
  LET all == Encoding(taken, want) IN
  /\ Len(given) <= Len(all) /\ SubSeq(all, 1, Len(given)) = given
  /\ ~frameEnded => \A i \in 1 .. Len(given) : given[i] # LastMark

LEMMA GivenLength ==
  ASSUME IInv, Content, status = "open"
  PROVE  /\ Len(given) <= taken + 2 + Flag(want)
         /\ ~frameEnded => Len(given) <= taken + 1
<1> USE DEF Content
<1>1. /\ taken \in Nat /\ doneJobID \in Nat /\ nextJobID \in Nat /\ doneJobID <= nextJobID
      /\ Flag(want) \in Nat /\ Len(given) \in Nat
  BY DEF IInv, Types, Placed, Flag
<1>2. CASE doneJobID = nextJobID
  <2>1. CutAt \in Nat /\ CutAt <= taken
    <3>1. CASE jobReady
      <4> DEFINE r == jobs[Slot(nextJobID)]
      <4>1. r \in JobRecord /\ r.lo + r.size = taken
        BY <3>1, ReadyJob DEF Cutting
      <4>2. r.lo \in Nat /\ r.size \in Nat
        BY <4>1, JobFields
      <4>3. CutAt = r.lo
        BY <3>1 DEF CutAt
      <4> HIDE DEF r
      <4> QED BY <1>1, <4>1, <4>2, <4>3
    <3>2. CASE ~jobReady
      BY <1>1, <3>2 DEF CutAt, IInv, Types, Stages
    <3> QED BY <3>1, <3>2
  <2>2. Len(given) = IF nextJobID = 0 THEN 0
                     ELSE IF frameEnded /\ ~jobReady THEN taken + 2 + Flag(want)
                     ELSE CutAt + 1
    BY <1>2 DEF Given
  <2> QED BY <1>1, <2>1, <2>2
<1>3. CASE doneJobID < nextJobID
  <2> DEFINE j == Current
  <2>1. /\ j \in JobRecord /\ j.lo + j.size <= taken /\ doneJobID \in Live
        /\ Base(j) + Len(j.out) + Flag(j.needSum) <= EndPos(j)
        /\ j.last => frameEnded
    BY <1>3, FlushedJobEnds DEF Section
  <2>2. j.dstFlushed <= Len(j.out)
    BY <2>1, LiveJob DEF Current
  <2>3. Len(given) = Base(j) + j.dstFlushed
    BY <1>3 DEF Given
  <2>4. /\ j.lo \in Nat /\ j.size \in Nat /\ j.dstFlushed \in Nat /\ Len(j.out) \in Nat
        /\ Base(j) \in Nat /\ Flag(j.needSum) \in Nat
    BY <2>1, JobFields DEF Base, Flag
  <2> DEFINE e == IF j.last THEN 1 + Flag(want) ELSE 0
  <2>5. /\ EndPos(j) = j.lo + j.size + 1 + e /\ e \in Nat /\ e <= 1 + Flag(want)
        /\ ~frameEnded => e = 0
    BY <1>1, <2>1 DEF EndPos
  <2> DEFINE lo == j.lo  size == j.size  d == j.dstFlushed  o == Len(j.out)  b == Base(j)
             m == Flag(j.needSum)  g == Len(given)  f == Flag(want)
  <2>6. g <= lo + size + 1 + e
    <3>1. /\ lo \in Nat /\ size \in Nat /\ d \in Nat /\ o \in Nat /\ b \in Nat /\ m \in Nat
          /\ e \in Nat /\ d <= o /\ g = b + d /\ b + o + m <= lo + size + 1 + e
      BY <2>1, <2>2, <2>3, <2>4, <2>5
    <3> HIDE DEF lo, size, d, o, b, m, g, e
    <3> QED BY <3>1
  <2>7. /\ g \in Nat /\ lo \in Nat /\ size \in Nat /\ e \in Nat /\ f \in Nat
        /\ lo + size <= taken /\ e <= 1 + f /\ (~frameEnded => e = 0)
    BY <1>1, <2>1, <2>4, <2>5
  <2> SUFFICES g <= taken + 2 + f /\ (~frameEnded => g <= taken + 1)
    OBVIOUS
  <2> HIDE DEF lo, size, e, f, g
  <2> QED BY <1>1, <2>6, <2>7
<1> QED BY <1>1, <1>2, <1>3

LEMMA GivenPrefix == IInv /\ Content /\ status = "open" => Prefix
<1> SUFFICES ASSUME IInv, Content, status = "open" PROVE Prefix
  OBVIOUS
<1> DEFINE all == Encoding(taken, want)  n == Len(given)
<1>1. /\ taken \in Nat /\ want \in BOOLEAN /\ given \in Seq(Token) /\ n \in Nat
      /\ \A i \in 1 .. n : given[i] = Tok(i)
  BY DEF IInv, Types, Content, Given
<1>2. /\ all \in Seq(Token) /\ Len(all) = taken + 2 + Flag(want)
      /\ \A i \in 1 .. Len(all) : all[i] = Tok(i)
  BY <1>1, EncodingTokens
<1>3. n <= Len(all) /\ (~frameEnded => n <= taken + 1)
  BY <1>2, GivenLength
<1> HIDE DEF all, n
<1>4. SubSeq(all, 1, n) = given
  <2> DEFINE s == SubSeq(all, 1, n)
  <2>1. Len(all) \in Nat /\ \A i \in 1 .. n : i \in 1 .. Len(all)
    BY <1>1, <1>2, <1>3
  <2>2. s \in Seq(Token) /\ Len(s) = n
    BY <1>1, <1>2, <1>3, <2>1
  <2>3. ASSUME NEW i \in 1 .. n PROVE s[i] = given[i]
    <3>1. s[i] = all[i]
      BY <1>1, <1>2, <1>3, <2>1
    <3> QED BY <1>1, <1>2, <2>1, <3>1
  <2> HIDE DEF s
  <2>4. Len(s) = Len(given) /\ \A i \in 1 .. Len(s) : s[i] = given[i]
    BY <2>2, <2>3 DEF n
  <2> QED BY <1>1, <2>2, <2>4, SeqEqual DEF s
<1>5. ASSUME ~frameEnded, NEW i \in 1 .. n PROVE given[i] # LastMark
  <2>1. i \in Nat /\ i >= 1 /\ i <= taken + 1 /\ given[i] = Tok(i)
    BY <1>1, <1>3, <1>5
  <2>2. given[i] = Header(want) \/ given[i] = Block(i - 1)
    BY <1>1, <2>1 DEF Tok
  <2> QED BY <2>2 DEF Header, Block, LastMark
<1> QED BY <1>3, <1>4, <1>5 DEF Prefix, all, n

\* A step that changes none of the frame's variables is a stutter of MTFrame.
LEMMA Stutters ==
  ASSUME IInv,
         \/ StartFrame \/ CreateNothing \/ CreateJob \/ PostReadyJob \/ CreateLastEmptyBlock
         \/ FlushSleep \/ FlushError \/ (\E w \in Workers : WorkerStep(w)) \/ UNCHANGED vars
         \/ \E op \in {"continue", "flush", "end"}, room \in Rooms :
              \/ CallNoInput(op, room)
              \/ \E avail \in 1 .. MaxInput - taken : FillRefused(op, avail, room)
  PROVE  UNCHANGED frameVars
<1>1. CASE \/ StartFrame \/ CreateNothing \/ CreateJob \/ PostReadyJob \/ CreateLastEmptyBlock
           \/ FlushSleep \/ FlushError \/ UNCHANGED vars
  BY <1>1 DEF StartFrame, CreateNothing, CreateJob, PostReadyJob, CreateLastEmptyBlock,
              FlushSleep, FlushError, vars
<1>2. ASSUME NEW w \in Workers, WorkerStep(w)
      PROVE  UNCHANGED frameVars
  BY <1>2 DEF WorkerStep, TakeJob, BeginJob, FailJob, SerialSleep, SerialTurn, CompressChunk,
              CompressLast, EnsureFinished, ReportJob, Unbusy
<1>3. CASE \E op \in {"continue", "flush", "end"}, room \in Rooms :
             \/ CallNoInput(op, room)
             \/ \E avail \in 1 .. MaxInput - taken : FillRefused(op, avail, room)
  BY <1>3 DEF CallNoInput, FillRefused
<1> QED BY <1>1, <1>2, <1>3

\* Input is accepted while the frame's end is still to come.
LEMMA FillAccepts ==
  ASSUME IInv, Content, NEW op \in {"continue", "flush", "end"}, NEW room \in Rooms,
         NEW avail \in 1 .. MaxInput - taken, FillInput(op, avail, room)
  PROVE  [Accept]_frameVars
<1> DEFINE load == Load(avail)
<1>1. /\ taken \in Nat /\ inBuff.filled \in Nat /\ avail \in Nat /\ avail > 0
      /\ inBuff.filled <= TargetSize
  BY DEF IInv, Types, Bounds
<1>2. load \in Nat
  BY <1>1, ConstantTypes DEF Load, Smallest
<1>3. /\ taken' = taken + load /\ status = "open" /\ ~frameEnded
      /\ UNCHANGED <<given, want, status>>
  BY <1>1 DEF FillInput, CanCall
<1>4. \A i \in 1 .. Len(given) : given[i] # LastMark
  BY <1>3, GivenPrefix DEF Prefix
<1> HIDE DEF load
<1>5. CASE load = 0
  BY <1>1, <1>3, <1>5 DEF frameVars
<1>6. CASE load # 0
  <2>1. taken' \in Nat /\ taken' > taken
    BY <1>1, <1>2, <1>3, <1>6
  <2> QED BY <1>3, <1>4, <2>1 DEF Accept
<1> QED BY <1>5, <1>6

\* What is flushed is delivered: the rest of the encoding, or a part of it.
LEMMA FlushDelivers ==
  ASSUME IInv, IInv', Content, Content', Flush
  PROVE  Deliver
<1> DEFINE all == Encoding(taken, want)  n == Len(given')
<1>1. /\ status = "open" /\ UNCHANGED <<taken, want, frameEnded>>
      /\ mpc' = "idle" /\ (status' = "open" \/ (status' = "ended" /\ ret' = "clean" /\ frameEnded))
  BY FlushStep, FlushSame
<1>2. /\ taken \in Nat /\ want \in BOOLEAN /\ given \in Seq(Token) /\ given' \in Seq(Token)
      /\ Len(given) \in Nat /\ n \in Nat /\ Flag(want) \in Nat /\ Flag(want) <= 1
  BY DEF IInv, Types, Flag
<1>3. Prefix
  BY <1>1, GivenPrefix
<1>4. all \in Seq(Token) /\ Len(all) = taken + 2 + Flag(want)
  BY <1>2, EncodingTokens
<1>5. n >= Len(given)
  <2> DEFINE t == SubSeq(FlushOut, Current.dstFlushed + 1, FlushEnd)
  <2>1. given' = given \o t
    BY FlushStep
  <2>2. t \in Seq(Token)
    <3>1. /\ FlushOut \in Seq(Token) /\ Current \in JobRecord /\ FlushEnd \in Nat
          /\ Current.dstFlushed <= FlushEnd
          /\ doneJobID < nextJobID => FlushEnd <= Len(FlushOut)
          /\ doneJobID = nextJobID => FlushOut = <<>> /\ FlushEnd = Current.dstFlushed
      BY FlushCurrent
    <3>2. Current.dstFlushed \in Nat /\ doneJobID \in Nat /\ nextJobID \in Nat
          /\ doneJobID <= nextJobID
      BY <3>1, JobFields DEF IInv, Types, Placed
    <3> DEFINE d == Current.dstFlushed
    <3> HIDE DEF d
    <3>3. SubSeq(FlushOut, d + 1, FlushEnd) \in Seq(Token)
      BY <3>1, <3>2 DEF d
    <3> QED BY <3>3 DEF d
  <2> HIDE DEF t
  <2>3. Len(given \o t) = Len(given) + Len(t) /\ Len(t) \in Nat
    BY <1>2, <2>2, Concat
  <2> QED BY <1>2, <2>1, <2>3
<1>6. /\ n <= Len(all) /\ given' = SubSeq(all, 1, n)
      /\ status' = "ended" => n = Len(all)
  <2>1. CASE status' = "open"
    <3>1. Prefix'
      <4>1. (IInv /\ Content /\ status = "open" => Prefix)'
        BY GivenPrefix, PTL
      <4> QED BY <2>1, <4>1
    <3> QED BY <1>1, <2>1, <3>1 DEF Prefix
  <2>2. CASE status' # "open"
    <3>1. given' = all
      BY <1>1, <2>2 DEF Content, ZeroMeansFlushed
    <3>2. SubSeq(all, 1, Len(all)) = all
      <4> HIDE DEF all
      <4> QED BY <1>4, SubSeqFull
    <3> QED BY <1>2, <3>1, <3>2
  <2> QED BY <2>1, <2>2
<1>7. n \in Len(given) .. taken + 3
  <2>1. Len(all) <= taken + 3
    BY <1>2, <1>4
  <2> HIDE DEF all, n
  <2>2. Len(all) \in Nat
    BY <1>4
  <2> QED BY <1>2, <1>5, <1>6, <2>1, <2>2
<1> HIDE DEF all, n
<1>8. SubSeq(all, 1, Len(given)) = given
  BY <1>3 DEF Prefix, all
<1>9. \E m \in Len(given) .. taken + 3 :
        /\ m <= Len(all) /\ given' = SubSeq(all, 1, m) /\ SubSeq(all, 1, Len(given)) = given
        /\ \/ status' = "open"
           \/ status' = "ended" /\ m = Len(all)
  BY <1>1, <1>6, <1>7, <1>8
<1> QED BY <1>1, <1>9 DEF Deliver, all

\* Each step of MTStream is a step of the frame, or a stutter.
LEMMA NextEncodes ==
  Uses = {} /\ IInv /\ IInv' /\ Content /\ Content' /\ [Next]_vars => [FrameNext]_frameVars
<1> SUFFICES ASSUME Uses = {}, IInv, IInv', Content, Content', [Next]_vars
             PROVE  [FrameNext]_frameVars
  OBVIOUS
<1>1. CASE StartFrame \/ UNCHANGED vars \/ \E w \in Workers : WorkerStep(w)
  BY <1>1, Stutters
<1>2. CASE CallStream
  <2> PICK op \in {"continue", "flush", "end"}, room \in Rooms :
         \/ CallNoInput(op, room)
         \/ \E avail \in 1 .. MaxInput - taken :
              FillInput(op, avail, room) \/ FillRefused(op, avail, room)
    BY <1>2 DEF CallStream
  <2>1. CASE \E avail \in 1 .. MaxInput - taken : FillInput(op, avail, room)
    BY <2>1, FillAccepts DEF FrameNext
  <2>2. CASE \/ CallNoInput(op, room)
             \/ \E avail \in 1 .. MaxInput - taken : FillRefused(op, avail, room)
    BY <2>2, Stutters
  <2> QED BY <2>1, <2>2
<1>3. CASE MainStep
  <2>1. CASE InitNewFrame
    <3> PICK sum \in BOOLEAN : InitCStream(sum, sum)
      BY <2>1 DEF InitNewFrame
    <3> QED BY DEF InitCStream, FrameNext, Start
  <2>2. CASE ResetCStream
    <3>1. want \in BOOLEAN
      BY DEF IInv, Types
    <3> QED BY <2>2, <3>1 DEF ResetCStream, InitCStream, FrameNext, Start
  <2>3. CASE FailFrame
    <3>1. status = "open"
      BY <2>3 DEF FailFrame, IInv, Stages
    <3> QED BY <2>3, <3>1 DEF FailFrame, FrameNext, Fail
  <2>4. CASE Flush
    BY <2>4, FlushDelivers DEF FrameNext
  <2>5. CASE \/ CreateNothing \/ FlushSleep \/ FlushError
             \/ CreateJob \/ PostReadyJob \/ CreateLastEmptyBlock
    BY <2>5, Stutters
  <2> QED BY <1>3, <2>1, <2>2, <2>3, <2>4, <2>5 DEF MainStep
<1> QED BY <1>1, <1>2, <1>3 DEF Next, Quiet

\* MTStream implements MTFrame: whatever the order in which the workers take their
\* jobs, finish, fail or are rescheduled, the caller receives each block once and in
\* order, the end mark after all of them and the hash of all the input after that.
THEOREM Encodes == Uses = {} => (Spec => EncodesInput)
<1> SUFFICES ASSUME Uses = {} PROVE Spec => EncodesInput
  OBVIOUS
<1>1. Init => FrameInit
  BY DEF Init
<1>2. Uses = {} /\ IInv /\ IInv' /\ Content /\ Content' /\ [Next]_vars
        => [FrameNext]_frameVars
  BY NextEncodes
<1>3. Uses = {}
  OBVIOUS
<1> QED BY <1>1, <1>2, ContentInvariance, PTL DEF Spec, EncodesInput, FrameSpec

=============================================================================
