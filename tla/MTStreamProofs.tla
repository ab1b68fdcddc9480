--------------------------- MODULE MTStreamProofs ---------------------------
(***************************************************************************)
(* What MTStream keeps for any number of workers, any job table, job size, *)
(* room, input and number of frames and failures: the job slots are never  *)
(* touched by the application thread and a worker at once, and what the    *)
(* caller receives is the encoding of its input.                           *)
(*                                                                         *)
(* The theorems leave out the two uses for which the code breaks the rules *)
(* the other uses rest on (the runs mt_reuse and mt_empty show how).       *)
(***************************************************************************)
EXTENDS MTStream, FiniteSetTheorems, SequenceTheorems, TLAPS

PlainUse == {"emptyFrame", "dropReady"} \cap Uses = {}

-----------------------------------------------------------------------------
\* The inductive invariant, in named parts.

Token == [k : {"header", "block", "last", "checksum"}, v : Nat]

JobRecord ==
  [set : BOOLEAN, frame : Nat, jobID : Nat, lo : Nat, size : Nat, last : BOOLEAN,
   checksum : BOOLEAN, consumed : Nat, out : Seq(Token), error : BOOLEAN,
   dstFlushed : Nat, needSum : BOOLEAN]

SerialRecord == [nextJobID : Nat, checksum : BOOLEAN, hashed : 0 .. Corrupt]

WorkerStage == {"idle", "begin", "serial", "asleep", "compress", "finish", "report",
                "unbusy"}

Types ==
  /\ jobs \in [Slots -> JobRecord]
  /\ doneJobID \in Nat /\ nextJobID \in Nat
  /\ jobReady \in BOOLEAN /\ frameEnded \in BOOLEAN
  /\ allJobsCompleted \in BOOLEAN /\ checksumFlag \in BOOLEAN
  /\ inBuff \in [set : BOOLEAN, filled : Nat]
  /\ serial \in SerialRecord
  /\ queued \in Slots \cup {NoSlot} /\ nbBusy \in Nat
  /\ wpc \in [Workers -> WorkerStage]
  /\ wjob \in [Workers -> Slots \cup {NoSlot}]
  /\ wchunk \in [Workers -> Nat] /\ wname \in [Workers -> Nat \X Nat]
  /\ mpc \in {"idle", "init", "create", "flush", "asleep", "failing"}
  /\ call \in [op : {"none", "continue", "flush", "end"}, left : Nat,
               room : Nat, progress : BOOLEAN]
  /\ ret \in {"none", "more", "clean", "error"}
  /\ frame \in Nat /\ failures \in Nat
  /\ taken \in Nat /\ given \in Seq(Token) /\ want \in BOOLEAN
  /\ status \in {"none", "open", "ended", "failed"}

\* The sizes of the job in any slot.
JobBound(j, f) ==
  /\ j.frame <= f
  /\ j.size <= TargetSize /\ j.lo + j.size <= MaxInput
  /\ j.consumed <= j.size
  /\ Len(j.out) + Flag(j.needSum) <= j.size + 3

Bounds ==
  /\ \A s \in Slots : JobBound(jobs[s], frame)
  /\ taken <= MaxInput /\ inBuff.filled <= TargetSize

\* The application thread's own state.
Stages ==
  /\ mpc \in {"create", "flush", "asleep", "failing"} => status = "open"
  /\ mpc = "init" => ~jobReady
  /\ inBuff.filled <= taken
  /\ frameEnded => inBuff.filled = 0
  /\ status = "open" /\ jobReady => taken > 0
  /\ status = "open" /\ ~jobReady /\ nextJobID = 0 => inBuff.filled = taken
  /\ mpc = "create" /\ call.op = "end" => taken > 0
  /\ allJobsCompleted => /\ doneJobID = nextJobID
                         /\ status = "open" => frameEnded /\ ~jobReady

\* The jobs posted and not entirely flushed lie each in its slot.
Placed ==
  /\ doneJobID <= nextJobID /\ nextJobID <= doneJobID + NbSlots
  /\ \A id \in doneJobID .. nextJobID - 1 :
       LET j == jobs[Slot(id)] IN
       /\ j.set /\ j.jobID = id
       /\ j.frame = frame \/ mpc = "init"
       /\ j.dstFlushed <= Len(j.out)

\* A job no worker has begun.
Fresh(j) ==
  /\ j.size > 0 /\ j.consumed = 0 /\ j.out = <<>> /\ ~j.error /\ j.dstFlushed = 0
  /\ j.needSum => j.jobID > 0

\* The prepared job waits in the slot after those of the jobs posted.
Ready ==
  status = "open" /\ jobReady =>
    LET j == jobs[Slot(nextJobID)] IN
    /\ nextJobID < doneJobID + NbSlots
    /\ j.set /\ j.jobID = nextJobID /\ j.frame = frame /\ Fresh(j)

\* A slot whose job was flushed, or that had none, holds nothing to flush.
Spare ==
  \A s \in Slots \ Pending :
    /\ jobs[s].out = <<>> /\ ~jobs[s].error
    /\ jobs[s].needSum => status = "open" /\ jobReady /\ s = Slot(nextJobID)

Queue == queued # NoSlot => queued \in Pending /\ Fresh(jobs[queued])

\* How far the worker w is with its job j.
Progress(w, j) ==
  /\ wpc[w] \in {"begin", "serial", "asleep"} => wchunk[w] = 0 /\ Fresh(j)
  /\ wpc[w] = "compress" =>
       /\ Len(j.out) = IF j.jobID = 0 /\ wchunk[w] > 0 THEN wchunk[w] + 1 ELSE wchunk[w]
       /\ j.needSum => j.jobID > 0
       /\ serial.nextJobID > j.jobID /\ ~j.error
  /\ wpc[w] = "finish" => serial.nextJobID > j.jobID \/ j.error

Working ==
  \A w \in Workers : Active(w) =>
    /\ wjob[w] \in Pending /\ wjob[w] # queued
    /\ wname[w] = <<Job(w).frame, Job(w).jobID>>
    /\ Job(w).consumed < Job(w).size /\ wchunk[w] < Job(w).size
    /\ Progress(w, Job(w))

Exclusive ==
  \A v, w \in Workers : Active(v) /\ Active(w) /\ wjob[v] = wjob[w] => v = w

Busy == nbBusy = Cardinality({w \in Workers : wpc[w] # "idle"})

IInv ==
  /\ Types /\ Bounds /\ Stages /\ Placed /\ Ready /\ Spare /\ Queue
  /\ Working /\ Exclusive /\ Busy

-----------------------------------------------------------------------------
\* Slots of the table.

LEMMA ConstantTypes ==
  /\ NbSlots \in Nat \ {0} /\ TargetSize \in Nat \ {0} /\ Rooms \subseteq Nat
  /\ MaxInput \in Nat /\ MaxFrames \in Nat /\ MaxFailures \in Nat
  /\ IsFiniteSet(Workers)
BY StreamAssumption DEF StreamAssumption

\* Two ids less than NbSlots apart have different slots.
LEMMA SlotDistinct ==
  ASSUME NEW a \in Nat, NEW b \in Nat, a < b, b < a + NbSlots
  PROVE  Slot(a) # Slot(b)
<1> SUFFICES ASSUME Slot(a) = Slot(b) PROVE FALSE
  OBVIOUS
<1> DEFINE N == NbSlots  p == a \div N  q == b \div N  r == a % N
<1>1. N \in Nat /\ N > 0
  BY ConstantTypes
<1>2. a = N * p + r /\ b = N * q + r
  BY ConstantTypes DEF Slot
<1>3. p \in Int /\ q \in Int /\ r \in Int
  BY ConstantTypes
<1>4. b < a + N
  OBVIOUS
<1> HIDE DEF N, p, q, r
<1>5. b - a = N * (q - p)
  BY <1>1, <1>2, <1>3
<1>6. CASE q - p <= 0
  <2>1. N * (q - p) <= 0
    BY <1>1, <1>3, <1>6
  <2> QED BY <2>1, <1>5
<1>7. CASE q - p >= 1
  <2>1. N * (q - p) >= N
    BY <1>1, <1>3, <1>7
  <2> QED BY <2>1, <1>4, <1>5, <1>1
<1> QED BY <1>3, <1>6, <1>7

LEMMA SlotInTable == \A id \in Nat : Slot(id) \in Slots
BY ConstantTypes DEF Slot, Slots

\* The slots of jobs posted, and the job in each.
LEMMA PendingJob ==
  ASSUME Types, Placed, NEW s \in Pending
  PROVE  /\ s \in Slots /\ s # NoSlot
         /\ jobs[s].jobID \in doneJobID .. nextJobID - 1
         /\ s = Slot(jobs[s].jobID)
         /\ jobs[s].set /\ (jobs[s].frame = frame \/ mpc = "init")
<1>1. PICK id \in doneJobID .. nextJobID - 1 : s = Slot(id)
  BY DEF Pending
<1>2. id \in Nat
  BY DEF Types
<1>3. s \in Slots
  BY <1>1, <1>2, SlotInTable
<1>4. s # NoSlot
  BY <1>3, ConstantTypes DEF Slots, NoSlot
<1> QED BY <1>1, <1>3, <1>4 DEF Placed

\* The slot of the next job is not one of them unless the table is full.
LEMMA NextSlotFree ==
  ASSUME Types, Placed, nextJobID < doneJobID + NbSlots
  PROVE  Slot(nextJobID) \in Slots \ Pending
<1>1. nextJobID \in Nat /\ doneJobID \in Nat
  BY DEF Types
<1>2. ASSUME NEW id \in doneJobID .. nextJobID - 1
      PROVE  Slot(id) # Slot(nextJobID)
  BY <1>1, SlotDistinct, ConstantTypes
<1> QED BY <1>1, <1>2, SlotInTable DEF Pending

\* Distinct jobs posted have distinct slots.
LEMMA PendingDistinct ==
  ASSUME Types, Placed, NEW a \in doneJobID .. nextJobID - 1,
         NEW b \in doneJobID .. nextJobID - 1, Slot(a) = Slot(b)
  PROVE  a = b
<1>1. a \in Nat /\ b \in Nat /\ doneJobID \in Nat /\ nextJobID \in Nat
  BY DEF Types
<1>2. nextJobID <= doneJobID + NbSlots
  BY DEF Placed
<1>3. a < b + NbSlots /\ b < a + NbSlots
  BY <1>1, <1>2, ConstantTypes
<1> QED BY <1>1, <1>3, SlotDistinct

\* The fields of a job.
LEMMA JobFields ==
  ASSUME NEW j \in JobRecord
  PROVE  /\ j.set \in BOOLEAN /\ j.frame \in Nat /\ j.jobID \in Nat /\ j.lo \in Nat
         /\ j.size \in Nat /\ j.last \in BOOLEAN /\ j.checksum \in BOOLEAN
         /\ j.consumed \in Nat /\ j.error \in BOOLEAN /\ j.dstFlushed \in Nat
         /\ j.needSum \in BOOLEAN /\ j.out \in Seq(Token) /\ Len(j.out) \in Nat
<1>1. j.out \in Seq(Token)
  BY DEF JobRecord
<1>2. Len(j.out) \in Nat
  BY <1>1
<1> QED BY <1>1, <1>2 DEF JobRecord

-----------------------------------------------------------------------------
\* Initially.

LEMMA InitInv == Init => IInv
<1> SUFFICES ASSUME Init PROVE IInv
  OBVIOUS
<1>1. ZeroJob \in JobRecord
  BY DEF ZeroJob, JobRecord
<1>2. /\ doneJobID = 0 /\ nextJobID = 0 /\ queued = NoSlot /\ jobReady = FALSE
      /\ taken = 0 /\ \A s \in Slots : jobs[s] = ZeroJob
  BY DEF Init, FrameInit
<1>3. Pending = {}
  BY <1>2 DEF Pending
<1>4. Types
  <2>1. jobs \in [Slots -> JobRecord]
    BY <1>1 DEF Init
  <2>2. serial \in SerialRecord
    BY ConstantTypes DEF Init, Corrupt, SerialRecord
  <2>3. /\ inBuff \in [set : BOOLEAN, filled : Nat]
        /\ call \in [op : {"none", "continue", "flush", "end"}, left : Nat,
                     room : Nat, progress : BOOLEAN]
    BY DEF Init, NoCall
  <2>4. /\ wpc \in [Workers -> WorkerStage]
        /\ wjob \in [Workers -> Slots \cup {NoSlot}]
        /\ wchunk \in [Workers -> Nat] /\ wname \in [Workers -> Nat \X Nat]
    BY DEF Init, WorkerStage
  <2>5. /\ given = <<>> /\ status = "none" /\ want = FALSE /\ taken = 0
        /\ mpc = "idle" /\ ret = "none" /\ frame = 0 /\ failures = 0 /\ nbBusy = 0
        /\ frameEnded = FALSE /\ allJobsCompleted = TRUE /\ checksumFlag = FALSE
    BY DEF Init, FrameInit
  <2>6. given \in Seq(Token)
    BY <2>5
  <2>7. queued \in Slots \cup {NoSlot}
    BY <1>2
  <2>8. /\ jobReady \in BOOLEAN /\ frameEnded \in BOOLEAN
        /\ allJobsCompleted \in BOOLEAN /\ checksumFlag \in BOOLEAN /\ want \in BOOLEAN
    BY <1>2, <2>5
  <2>9. /\ doneJobID \in Nat /\ nextJobID \in Nat /\ nbBusy \in Nat
        /\ frame \in Nat /\ failures \in Nat /\ taken \in Nat
    BY <1>2, <2>5
  <2>10. /\ mpc \in {"idle", "init", "create", "flush", "asleep", "failing"}
         /\ ret \in {"none", "more", "clean", "error"}
         /\ status \in {"none", "open", "ended", "failed"}
    BY <2>5
  <2> QED BY <2>1, <2>2, <2>3, <2>4, <2>6, <2>7, <2>8, <2>9, <2>10 DEF Types
<1>5. Bounds /\ Stages
  BY <1>2, ConstantTypes DEF Init, FrameInit, Bounds, JobBound, Flag, Stages, ZeroJob, NoCall
<1>6. Placed /\ Ready /\ Spare /\ Queue
  BY <1>2, <1>3, ConstantTypes DEF Placed, Ready, Spare, Queue, ZeroJob
<1>7. \A w \in Workers : wpc[w] = "idle"
  BY DEF Init
<1>8. Working /\ Exclusive
  BY <1>7 DEF Working, Exclusive, Active
<1>9. Busy
  <2>1. {w \in Workers : wpc[w] # "idle"} = {}
    BY <1>7
  <2> QED BY <2>1, FS_EmptySet DEF Busy, Init
<1> QED BY <1>4, <1>5, <1>6, <1>8, <1>9 DEF IInv

-----------------------------------------------------------------------------
\* Steps of the application thread that touch no job.

LEMMA NoJobTouched ==
  ASSUME IInv, Types', Bounds', Stages',
         UNCHANGED <<jobs, doneJobID, nextJobID, jobReady, serial, poolVars,
                     workerVars, status>>,
         mpc' = "init" \/ (frame' = frame /\ mpc # "init"),
         mpc' = "init" => ~jobReady
  PROVE  IInv'
<1> USE DEF IInv, poolVars, workerVars
<1>1. Pending' = Pending
  BY DEF Pending
<1>2. Placed'
  BY DEF Placed
<1>3. Ready'
  BY DEF Ready, Fresh
<1>4. Spare' /\ Queue'
  BY <1>1 DEF Spare, Queue, Fresh
<1>5. Working'
  BY <1>1 DEF Working, Active, Job, Progress, Fresh
<1>6. Exclusive' /\ Busy'
  BY DEF Exclusive, Busy, Active
<1> QED BY <1>2, <1>3, <1>4, <1>5, <1>6

LEMMA StartFrameInv == IInv /\ PlainUse /\ StartFrame => IInv'
<1> SUFFICES ASSUME IInv, PlainUse, StartFrame PROVE IInv'
  OBVIOUS
<1> USE DEF IInv
<1>1. ~jobReady /\ frame' = frame + 1
  BY DEF StartFrame, PlainUse
<1>2. Types'
  BY <1>1 DEF Types, StartFrame, mainVars, poolVars, workerVars, frameVars
<1>3. Bounds'
  BY <1>1 DEF Types, Bounds, JobBound, JobRecord, StartFrame, mainVars, frameVars
<1>4. Stages'
  BY <1>1 DEF Stages, StartFrame, mainVars, frameVars
<1> QED BY <1>1, <1>2, <1>3, <1>4, NoJobTouched
        DEF StartFrame, mainVars, poolVars, workerVars, frameVars

LEMMA EnterCallTypes ==
  ASSUME Types, NEW op \in {"continue", "flush", "end"}, NEW avail \in Nat,
         NEW room \in Rooms, NEW load \in 0 .. avail, EnterCall(op, avail, room, load)
  PROVE  /\ call' \in [op : {"none", "continue", "flush", "end"}, left : Nat,
                       room : Nat, progress : BOOLEAN]
         /\ call'.op = "end" => op = "end"
         /\ mpc' = "create"
<1>1. room \in Nat /\ avail - load \in Nat
  BY ConstantTypes
<1> QED BY <1>1 DEF EnterCall

LEMMA FillInputInv ==
  ASSUME IInv, PlainUse, NEW op \in {"continue", "flush", "end"}, NEW room \in Rooms,
         NEW avail \in 1 .. MaxInput - taken, FillInput(op, avail, room)
  PROVE  IInv'
<1> USE DEF IInv
<1> DEFINE load == Load(avail)  filled == inBuff.filled
<1>1. /\ taken \in Nat /\ filled \in Nat /\ avail \in Nat /\ avail > 0
      /\ taken + avail <= MaxInput
  BY ConstantTypes DEF Types
<1>2. load \in 0 .. avail /\ filled + load <= TargetSize
  BY <1>1, ConstantTypes DEF Load, Smallest, Bounds
<1>3. /\ inBuff' = [set |-> TRUE, filled |-> filled + load]
      /\ taken' = taken + load
      /\ EnterCall(op, avail, room, load)
      /\ UNCHANGED <<jobs, doneJobID, nextJobID, jobReady, frameEnded,
                     allJobsCompleted, checksumFlag, serial, poolVars, workerVars,
                     ret, frame, failures, given, want, status>>
  BY DEF FillInput
<1>4. mpc = "idle" /\ status = "open" /\ ~jobReady /\ ~frameEnded
  BY <1>1 DEF FillInput, CanCall
<1> HIDE DEF load, filled
<1>5. /\ call' \in [op : {"none", "continue", "flush", "end"}, left : Nat,
                    room : Nat, progress : BOOLEAN]
      /\ call'.op = "end" => op = "end"
      /\ mpc' = "create"
  BY <1>1, <1>2, <1>3, EnterCallTypes
<1>6. Types'
  BY <1>1, <1>2, <1>3, <1>5 DEF Types, poolVars, workerVars
<1>7. Bounds'
  BY <1>1, <1>2, <1>3, ConstantTypes DEF Bounds, filled
<1>8. load > 0 \/ filled > 0
  BY <1>1, ConstantTypes DEF load, filled, Load, Smallest
<1>9. Stages'
  BY <1>1, <1>2, <1>3, <1>4, <1>5, <1>8 DEF Stages, filled
<1> QED BY <1>3, <1>4, <1>5, <1>6, <1>7, <1>9, NoJobTouched

LEMMA FillRefusedInv ==
  ASSUME IInv, PlainUse, NEW op \in {"continue", "flush", "end"}, NEW room \in Rooms,
         NEW avail \in 1 .. MaxInput - taken, FillRefused(op, avail, room)
  PROVE  IInv'
<1> USE DEF IInv
<1>1. avail \in Nat /\ avail > 0 /\ taken \in Nat
  BY ConstantTypes DEF Types
<1>2. /\ EnterCall(op, avail, room, 0)
      /\ UNCHANGED <<jobs, mainVars, serial, poolVars, workerVars, ret,
                     frame, failures, frameVars>>
      /\ mpc = "idle" /\ status = "open"
  BY DEF FillRefused, CanCall
<1>3. /\ call' \in [op : {"none", "continue", "flush", "end"}, left : Nat,
                    room : Nat, progress : BOOLEAN]
      /\ mpc' = "create"
  BY <1>1, <1>2, EnterCallTypes
<1>4. call'.op = "end" => jobReady
  BY <1>1, <1>2 DEF EnterCall
<1>5. Types'
  BY <1>2, <1>3 DEF Types, mainVars, poolVars, workerVars, frameVars
<1>6. Bounds'
  BY <1>2 DEF Bounds, mainVars, frameVars
<1>7. Stages'
  BY <1>2, <1>3, <1>4 DEF Stages, mainVars, frameVars
<1> QED BY <1>2, <1>3, <1>5, <1>6, <1>7, NoJobTouched DEF mainVars, frameVars

LEMMA CallNoInputInv ==
  ASSUME IInv, PlainUse, NEW op \in {"continue", "flush", "end"}, NEW room \in Rooms,
         CallNoInput(op, room)
  PROVE  IInv'
<1> USE DEF IInv
<1>1. taken \in Nat
  BY DEF Types
<1>2. /\ EnterCall(op, 0, room, 0)
      /\ UNCHANGED <<jobs, mainVars, serial, poolVars, workerVars, ret,
                     frame, failures, frameVars>>
      /\ mpc = "idle" /\ status = "open"
      /\ op = "end" => taken > 0
  BY <1>1 DEF CallNoInput, CanCall, PlainUse
<1>3. /\ call' \in [op : {"none", "continue", "flush", "end"}, left : Nat,
                    room : Nat, progress : BOOLEAN]
      /\ call'.op = "end" => op = "end"
      /\ mpc' = "create"
  BY <1>2, EnterCallTypes
<1>5. Types'
  BY <1>2, <1>3 DEF Types, mainVars, poolVars, workerVars, frameVars
<1>6. Bounds'
  BY <1>2 DEF Bounds, mainVars, frameVars
<1>7. Stages'
  BY <1>2, <1>3 DEF Stages, mainVars, frameVars
<1> QED BY <1>2, <1>3, <1>5, <1>6, <1>7, NoJobTouched DEF mainVars, frameVars

\* The steps that only move the application thread on.
LEMMA MoveOnInv == IInv /\ (CreateNothing \/ FlushSleep \/ FlushError) => IInv'
<1> SUFFICES ASSUME IInv, CreateNothing \/ FlushSleep \/ FlushError
             PROVE  IInv'
  OBVIOUS
<1> USE DEF IInv
<1>1. /\ UNCHANGED <<jobs, mainVars, serial, poolVars, workerVars, call, ret,
                     frame, failures, frameVars>>
      /\ mpc \in {"create", "flush"} /\ mpc' \in {"flush", "asleep", "failing"}
  BY DEF CreateNothing, FlushSleep, FlushError
<1>2. Types'
  BY <1>1 DEF Types, mainVars, poolVars, workerVars, frameVars
<1>3. Bounds'
  BY <1>1 DEF Bounds, mainVars, frameVars
<1>4. Stages'
  BY <1>1 DEF Stages, mainVars, frameVars
<1> QED BY <1>1, <1>2, <1>3, <1>4, NoJobTouched DEF mainVars, frameVars

-----------------------------------------------------------------------------
\* Steps of a worker on its job.

\* What a step of w leaves as it was.
WorkerFrame ==
  /\ UNCHANGED <<mainVars, poolVars, wjob, wname, call, ret, frame, frameVars>>
  /\ mpc' = mpc \/ (mpc = "asleep" /\ mpc' = "flush")

\* The worker w, busy with its job, writes to that job alone; the others move
\* on at most from sleeping; the serial state only moves forward.
OnOwnJob(w) ==
  /\ \A s \in Slots : s # wjob[w] => jobs'[s] = jobs[s]
  /\ LET j == jobs[wjob[w]]  k == jobs'[wjob[w]] IN
       /\ k.set = j.set /\ k.frame = j.frame /\ k.jobID = j.jobID
       /\ k.lo = j.lo /\ k.size = j.size /\ k.last = j.last /\ k.checksum = j.checksum
       /\ k.needSum = j.needSum /\ k.dstFlushed = j.dstFlushed
       /\ j.error => k.error
       /\ Len(j.out) <= Len(k.out)
  /\ \A v \in Workers \ {w} :
       /\ wpc'[v] = wpc[v] \/ (wpc[v] = "asleep" /\ wpc'[v] = "serial")
       /\ wchunk'[v] = wchunk[v]
  /\ wpc'[w] # "idle"
  /\ serial'.nextJobID >= serial.nextJobID

LEMMA WorkerTypes ==
  ASSUME Types, WorkerFrame, jobs' \in [Slots -> JobRecord], serial' \in SerialRecord,
         wpc' \in [Workers -> WorkerStage], wchunk' \in [Workers -> Nat], failures' \in Nat
  PROVE  Types'
<1>1. mpc' \in {"idle", "init", "create", "flush", "asleep", "failing"}
  BY DEF Types, WorkerFrame
<1> QED BY <1>1 DEF Types, WorkerFrame, mainVars, poolVars, frameVars

LEMMA SerialFields ==
  Types => /\ serial.nextJobID \in Nat /\ serial.checksum \in BOOLEAN
           /\ serial.hashed \in 0 .. Corrupt
BY DEF Types, SerialRecord

\* Where the worker stands afterwards, if it is not done with the job.
StillWorking(w) ==
  Active(w)' =>
    /\ jobs'[wjob[w]].consumed < jobs'[wjob[w]].size
    /\ wchunk'[w] < jobs'[wjob[w]].size
    /\ Progress(w, Job(w))'

LEMMA WorkerStepInv ==
  ASSUME IInv, NEW w \in Workers, Active(w), Types',
         WorkerFrame, OnOwnJob(w), StillWorking(w),
         JobBound(jobs'[wjob[w]], frame)
  PROVE  IInv'
<1> USE DEF IInv
<1> DEFINE o == wjob[w]
<1>1. o \in Pending /\ o # queued /\ wname[w] = <<jobs[o].frame, jobs[o].jobID>>
  BY DEF Working, Job
<1>2. o \in Slots
  BY <1>1, PendingJob
<1>3. /\ UNCHANGED <<doneJobID, nextJobID, jobReady, frameEnded, allJobsCompleted,
                     inBuff, queued, nbBusy, wjob, wname, call, frame, taken, status>>
      /\ mpc' = mpc \/ (mpc = "asleep" /\ mpc' = "flush")
  BY DEF WorkerFrame, mainVars, poolVars, frameVars
<1>4. Pending' = Pending
  BY <1>3 DEF Pending
<1>5. \A s \in Slots : s # o => jobs'[s] = jobs[s]
  BY DEF OnOwnJob
<1>6. /\ jobs'[o].set = jobs[o].set /\ jobs'[o].frame = jobs[o].frame
      /\ jobs'[o].jobID = jobs[o].jobID /\ jobs'[o].dstFlushed = jobs[o].dstFlushed
      /\ Len(jobs[o].out) <= Len(jobs'[o].out)
  BY DEF OnOwnJob
<1>7. \A v \in Workers : Active(v)' => Active(v)
  BY DEF OnOwnJob, Active
<1> HIDE DEF o
<1>8. Bounds'
  <2>1. JobBound(jobs'[o], frame)
    BY DEF o
  <2> QED BY <1>3, <1>5, <2>1 DEF Bounds
<1>9. Stages'
  BY <1>3 DEF Stages
<1>10. Placed'
  <2>1. doneJobID' <= nextJobID' /\ nextJobID' <= doneJobID' + NbSlots
    BY <1>3 DEF Placed
  <2>2. ASSUME NEW id \in doneJobID .. nextJobID - 1
        PROVE  LET k == jobs'[Slot(id)] IN
               /\ k.set /\ k.jobID = id
               /\ k.frame = frame \/ mpc = "init"
               /\ k.dstFlushed <= Len(k.out)
    <3>1. id \in Nat
      BY DEF Types
    <3>2. Slot(id) \in Slots
      BY <3>1, SlotInTable
    <3>3. LET j == jobs[Slot(id)] IN
          /\ j.set /\ j.jobID = id
          /\ j.frame = frame \/ mpc = "init"
          /\ j.dstFlushed <= Len(j.out)
      BY DEF Placed
    <3>4. CASE Slot(id) # o
      BY <1>5, <3>2, <3>3, <3>4
    <3>5. CASE Slot(id) = o
      <4>1. jobs[o].dstFlushed \in Nat /\ Len(jobs[o].out) \in Nat
            /\ Len(jobs'[o].out) \in Nat
        <5>1. jobs[o] \in JobRecord /\ jobs'[o] \in JobRecord
          BY <1>2 DEF Types
        <5> QED BY <5>1, JobFields
      <4> QED BY <1>6, <3>3, <3>5, <4>1
    <3> QED BY <3>4, <3>5
  <2> QED BY <1>3, <2>1, <2>2 DEF Placed
<1>11. Ready'
  <2>1. SUFFICES ASSUME status = "open", jobReady PROVE Ready'
    BY <1>3 DEF Ready
  <2>2. nextJobID < doneJobID + NbSlots
    BY <2>1 DEF Ready
  <2>3. Slot(nextJobID) \in Slots \ Pending
    BY <2>2, NextSlotFree
  <2>4. jobs'[Slot(nextJobID)] = jobs[Slot(nextJobID)]
    BY <1>1, <1>5, <2>3
  <2> QED BY <1>3, <2>1, <2>4 DEF Ready, Fresh
<1>12. Spare'
  BY <1>1, <1>3, <1>4, <1>5 DEF Spare
<1>13. Queue'
  BY <1>1, <1>3, <1>4, <1>5, PendingJob DEF Queue, Fresh
<1>14. Working'
  <2> SUFFICES ASSUME NEW v \in Workers, Active(v)'
               PROVE  /\ wjob[v] \in Pending /\ wjob[v] # queued
                      /\ wname[v] = <<jobs'[wjob[v]].frame, jobs'[wjob[v]].jobID>>
                      /\ jobs'[wjob[v]].consumed < jobs'[wjob[v]].size
                      /\ wchunk'[v] < jobs'[wjob[v]].size
                      /\ Progress(v, Job(v))'
    BY <1>3, <1>4 DEF Working, Job
  <2>1. Active(v)
    BY <1>7
  <2>2. CASE v = w
    BY <1>1, <1>6, <2>2 DEF StillWorking, o
  <2>3. CASE v # w
    <3>1. wjob[v] # o
      BY <2>1, <2>3 DEF Exclusive, o
    <3>2. wjob[v] \in Pending /\ wjob[v] \in Slots
      BY <2>1, PendingJob DEF Working
    <3>3. jobs'[wjob[v]] = jobs[wjob[v]] /\ Job(v)' = Job(v)
      BY <1>3, <1>5, <3>1, <3>2 DEF Job
    <3>4. /\ wpc'[v] = wpc[v] \/ (wpc[v] = "asleep" /\ wpc'[v] = "serial")
          /\ wchunk'[v] = wchunk[v] /\ serial'.nextJobID >= serial.nextJobID
      BY <2>3 DEF OnOwnJob
    <3>5. Progress(v, Job(v))'
      <4>1. /\ serial.nextJobID \in Nat /\ serial'.nextJobID \in Nat
            /\ Job(v).jobID \in Nat
        BY <3>2 DEF Types, JobRecord, Job, SerialRecord
      <4>2. Progress(v, Job(v))
        BY <2>1 DEF Working
      <4> QED BY <3>3, <3>4, <4>1, <4>2 DEF Progress
    <3> QED BY <2>1, <3>3, <3>4, <3>5 DEF Working, Job
  <2> QED BY <2>2, <2>3
<1>15. Exclusive'
  BY <1>3, <1>7 DEF Exclusive
<1>16. Busy'
  <2>1. \A v \in Workers : wpc'[v] # "idle" <=> wpc[v] # "idle"
    BY DEF OnOwnJob, Active
  <2> QED BY <1>3, <2>1 DEF Busy
<1> QED BY <1>8, <1>9, <1>10, <1>11, <1>12, <1>13, <1>14, <1>15, <1>16

LEMMA BeginJobInv ==
  ASSUME IInv, NEW w \in Workers, BeginJob(w)
  PROVE  IInv' /\ Active(w) /\ WorkerFrame /\ OnOwnJob(w)
<1> USE DEF IInv
<1>1. /\ wpc[w] = "begin" /\ wpc' = [wpc EXCEPT ![w] = "serial"]
      /\ UNCHANGED <<jobs, mainVars, serial, poolVars, wjob, wchunk, wname,
                     callVars, frame, failures, frameVars>>
  BY DEF BeginJob
<1>2. Active(w) /\ wpc'[w] = "serial" /\ \A v \in Workers \ {w} : wpc'[v] = wpc[v]
  BY <1>1 DEF Active, Types
<1>3. WorkerFrame
  BY <1>1 DEF WorkerFrame, callVars
<1>4. wjob[w] \in Slots /\ jobs[wjob[w]] \in JobRecord
  BY <1>2, PendingJob DEF Working, Types
<1>5. Types'
  BY <1>1, <1>3, WorkerTypes DEF Types, WorkerStage
<1>6. OnOwnJob(w)
  <2>1. Len(jobs[wjob[w]].out) \in Nat /\ serial.nextJobID \in Nat
    BY <1>4, JobFields, SerialFields
  <2> QED BY <1>1, <1>2, <2>1 DEF OnOwnJob
<1>7. StillWorking(w)
  BY <1>1, <1>2 DEF StillWorking, Working, Job, Progress, Fresh
<1>8. JobBound(jobs'[wjob[w]], frame)
  BY <1>1, <1>4 DEF Bounds
<1> QED BY <1>2, <1>3, <1>5, <1>6, <1>7, <1>8, WorkerStepInv

\* A job that failed is over, whatever was left of it.
LEMMA FailJobInv ==
  ASSUME IInv, NEW w \in Workers, FailJob(w)
  PROVE  IInv' /\ Active(w) /\ WorkerFrame /\ OnOwnJob(w)
<1> USE DEF IInv
<1> DEFINE o == wjob[w]  j == jobs[o]  k == [j EXCEPT !.error = TRUE]
<1>1. /\ wpc[w] \in {"begin", "compress"} /\ wpc' = [wpc EXCEPT ![w] = "finish"]
      /\ jobs' = [jobs EXCEPT ![o] = k] /\ failures' = failures + 1
      /\ UNCHANGED <<mainVars, serial, poolVars, wjob, wchunk, wname,
                     callVars, frame, frameVars>>
  BY DEF FailJob, SetJob, Job
<1>2. Active(w) /\ wpc'[w] = "finish" /\ \A v \in Workers \ {w} : wpc'[v] = wpc[v]
  BY <1>1 DEF Active, Types
<1>3. o \in Slots /\ j \in JobRecord
  BY <1>2, PendingJob DEF Working, Types
<1>4. /\ k \in JobRecord /\ k.error
      /\ k.set = j.set /\ k.frame = j.frame /\ k.jobID = j.jobID /\ k.size = j.size
      /\ k.dstFlushed = j.dstFlushed /\ k.out = j.out /\ k.lo = j.lo
      /\ k.consumed = j.consumed /\ k.needSum = j.needSum
      /\ k.last = j.last /\ k.checksum = j.checksum
  BY <1>3 DEF JobRecord
<1>5. j.consumed < j.size /\ wchunk[w] < j.size /\ JobBound(j, frame)
  BY <1>2, <1>3 DEF Working, Job, Bounds
<1> HIDE DEF k
<1>6. jobs'[o] = k /\ \A s \in Slots : s # o => jobs'[s] = jobs[s]
  BY <1>1, <1>3 DEF Types
<1>7. WorkerFrame
  BY <1>1 DEF WorkerFrame, callVars
<1>8. Types'
  <2>1. jobs' \in [Slots -> JobRecord]
    BY <1>1, <1>3, <1>4 DEF Types
  <2>2. wpc' \in [Workers -> WorkerStage]
    BY <1>1 DEF Types, WorkerStage
  <2>3. failures' \in Nat
    BY <1>1 DEF Types
  <2> QED BY <1>1, <1>7, <2>1, <2>2, <2>3, WorkerTypes DEF Types
<1>9. OnOwnJob(w)
  <2>1. Len(j.out) \in Nat /\ serial.nextJobID \in Nat
    BY <1>3, JobFields, SerialFields
  <2> QED BY <1>1, <1>2, <1>4, <1>6, <2>1 DEF OnOwnJob
<1>10. StillWorking(w)
  <2>1. Job(w)' = k
    BY <1>1, <1>6 DEF Job
  <2> QED BY <1>1, <1>2, <1>4, <1>5, <1>6, <2>1 DEF StillWorking, Progress
<1>11. JobBound(k, frame)
  BY <1>4, <1>5 DEF JobBound
<1> QED BY <1>2, <1>6, <1>7, <1>8, <1>9, <1>10, <1>11, WorkerStepInv

LEMMA SerialSleepInv ==
  ASSUME IInv, NEW w \in Workers, SerialSleep(w)
  PROVE  IInv' /\ Active(w) /\ WorkerFrame /\ OnOwnJob(w)
<1> USE DEF IInv
<1>1. /\ wpc[w] = "serial" /\ wpc' = [wpc EXCEPT ![w] = "asleep"]
      /\ UNCHANGED <<jobs, mainVars, serial, poolVars, wjob, wchunk, wname,
                     callVars, frame, failures, frameVars>>
  BY DEF SerialSleep
<1>2. Active(w) /\ wpc'[w] = "asleep" /\ \A v \in Workers \ {w} : wpc'[v] = wpc[v]
  BY <1>1 DEF Active, Types
<1>3. WorkerFrame
  BY <1>1 DEF WorkerFrame, callVars
<1>4. wjob[w] \in Slots /\ jobs[wjob[w]] \in JobRecord
  BY <1>2, PendingJob DEF Working, Types
<1>5. Types'
  BY <1>1, <1>3, WorkerTypes DEF Types, WorkerStage
<1>6. OnOwnJob(w)
  <2>1. Len(jobs[wjob[w]].out) \in Nat /\ serial.nextJobID \in Nat
    BY <1>4, JobFields, SerialFields
  <2> QED BY <1>1, <1>2, <2>1 DEF OnOwnJob
<1>7. StillWorking(w)
  BY <1>1, <1>2 DEF StillWorking, Working, Job, Progress, Fresh
<1>8. JobBound(jobs'[wjob[w]], frame)
  BY <1>1, <1>4 DEF Bounds
<1> QED BY <1>2, <1>3, <1>5, <1>6, <1>7, <1>8, WorkerStepInv

\* The hash only ever takes the end of a section, or Corrupt.
LEMMA HashType ==
  ASSUME Types, Bounds, NEW s \in Slots
  PROVE  Hash(jobs[s]) \in 0 .. Corrupt
<1> DEFINE j == jobs[s]
<1>1. j \in JobRecord
  BY DEF Types
<1>2. j.lo \in Nat /\ j.size \in Nat /\ j.lo + j.size <= MaxInput
  BY <1>1, JobFields DEF Bounds, JobBound
<1>3. serial.hashed \in 0 .. Corrupt
  BY SerialFields
<1> HIDE DEF j
<1>4. Hash(j) \in 0 .. Corrupt
  BY <1>2, <1>3, ConstantTypes DEF Hash, Corrupt
<1> QED BY <1>4 DEF j

LEMMA SerialTurnInv ==
  ASSUME IInv, NEW w \in Workers, SerialTurn(w)
  PROVE  IInv' /\ Active(w) /\ WorkerFrame /\ OnOwnJob(w)
<1> USE DEF IInv
<1> DEFINE o == wjob[w]  j == jobs[o]  hash == Hash(j)
<1>1. /\ wpc[w] = "serial" /\ serial.nextJobID >= j.jobID
      /\ serial' = [serial EXCEPT !.nextJobID = @ + 1, !.hashed = hash]
      /\ BroadcastSerial(w, "compress")
      /\ UNCHANGED <<jobs, mainVars, poolVars, wjob, wchunk, wname, callVars,
                     frame, failures, frameVars>>
  BY DEF SerialTurn, Job
<1>2. Active(w)
  BY <1>1 DEF Active
<1>3. o \in Slots /\ j \in JobRecord
  BY <1>2, PendingJob DEF Working, Types
<1>4. hash \in 0 .. Corrupt
  BY <1>3, HashType
<1>5. serial'.nextJobID = serial.nextJobID + 1 /\ serial.nextJobID \in Nat
      /\ serial' \in SerialRecord
  <2> HIDE DEF hash
  <2>1. serial \in SerialRecord /\ serial.nextJobID \in Nat /\ serial.nextJobID + 1 \in Nat
    BY DEF Types, SerialRecord
  <2>2. serial' = [serial EXCEPT !.nextJobID = serial.nextJobID + 1, !.hashed = hash]
    BY <1>1
  <2> DEFINE n == serial.nextJobID + 1
             r == [serial EXCEPT !.nextJobID = n]  t == [r EXCEPT !.hashed = hash]
  <2>3. serial' = t
    BY <2>2
  <2>4. r \in SerialRecord /\ r.nextJobID = n
    BY <2>1 DEF SerialRecord
  <2> HIDE DEF r
  <2>5. t \in SerialRecord /\ t.nextJobID = n
    BY <1>4, <2>4 DEF SerialRecord
  <2> QED BY <2>1, <2>3, <2>5
<1>6. /\ wpc'[w] = "compress"
      /\ \A v \in Workers \ {w} :
           wpc'[v] = wpc[v] \/ (wpc[v] = "asleep" /\ wpc'[v] = "serial")
      /\ wpc' \in [Workers -> WorkerStage]
  BY <1>1 DEF BroadcastSerial, Types, WorkerStage
<1>7. WorkerFrame
  BY <1>1 DEF WorkerFrame, callVars
<1>8. Types'
  BY <1>1, <1>5, <1>6, <1>7, WorkerTypes DEF Types
<1>9. OnOwnJob(w)
  <2>1. Len(j.out) \in Nat
    BY <1>3, JobFields
  <2> QED BY <1>1, <1>5, <1>6, <2>1 DEF OnOwnJob
<1>10. StillWorking(w)
  <2>1. Job(w)' = j /\ j.jobID \in Nat
    BY <1>1, <1>3, JobFields DEF Job
  <2>2. j.consumed < j.size /\ wchunk[w] < j.size /\ Progress(w, j)
    BY <1>2 DEF Working, Job
  <2>3. wchunk[w] = 0 /\ Fresh(j)
    BY <1>1, <2>2 DEF Progress
  <2>4. Progress(w, Job(w))'
    BY <1>1, <1>5, <1>6, <2>1, <2>3 DEF Progress, Fresh
  <2> QED BY <1>1, <2>2, <2>4 DEF StillWorking
<1>11. JobBound(jobs'[o], frame)
  BY <1>1, <1>3 DEF Bounds
<1> QED BY <1>2, <1>7, <1>8, <1>9, <1>10, <1>11, WorkerStepInv

LEMMA EnsureFinishedInv ==
  ASSUME IInv, NEW w \in Workers, EnsureFinished(w)
  PROVE  IInv' /\ Active(w) /\ WorkerFrame /\ OnOwnJob(w)
<1> USE DEF IInv
<1> DEFINE o == wjob[w]  j == jobs[o]
<1>1. /\ wpc[w] = "finish"
      /\ UNCHANGED <<jobs, mainVars, poolVars, wjob, wchunk, wname, callVars,
                     frame, failures, frameVars>>
      /\ \/ /\ serial.nextJobID <= j.jobID
            /\ serial' = [serial EXCEPT !.nextJobID = j.jobID + 1]
            /\ BroadcastSerial(w, "report")
         \/ /\ wpc' = [wpc EXCEPT ![w] = "report"] /\ UNCHANGED serial
  BY DEF EnsureFinished, Job
<1>2. Active(w)
  BY <1>1 DEF Active
<1>3. o \in Slots /\ j \in JobRecord /\ j.jobID \in Nat
  BY <1>2, PendingJob, JobFields DEF Working, Types
<1>4. serial'.nextJobID >= serial.nextJobID /\ serial' \in SerialRecord
  <2>1. serial \in SerialRecord /\ serial.nextJobID \in Nat /\ j.jobID + 1 \in Nat
    BY <1>3 DEF Types, SerialRecord
  <2>2. CASE UNCHANGED serial
    BY <2>1, <2>2
  <2>3. CASE serial.nextJobID <= j.jobID /\ serial' = [serial EXCEPT !.nextJobID = j.jobID + 1]
    <3> HIDE DEF j
    <3>1. serial' \in SerialRecord /\ serial'.nextJobID = j.jobID + 1
      BY <2>1, <2>3 DEF SerialRecord
    <3> QED BY <1>3, <2>1, <2>3, <3>1
  <2> QED BY <1>1, <2>2, <2>3
<1>5. /\ wpc'[w] = "report"
      /\ \A v \in Workers \ {w} :
           wpc'[v] = wpc[v] \/ (wpc[v] = "asleep" /\ wpc'[v] = "serial")
      /\ wpc' \in [Workers -> WorkerStage]
  BY <1>1 DEF BroadcastSerial, Types, WorkerStage
<1>6. WorkerFrame
  BY <1>1 DEF WorkerFrame, callVars
<1>7. Types'
  BY <1>1, <1>4, <1>5, <1>6, WorkerTypes DEF Types
<1>8. OnOwnJob(w)
  <2>1. Len(j.out) \in Nat
    BY <1>3, JobFields
  <2> QED BY <1>1, <1>4, <1>5, <2>1 DEF OnOwnJob
<1>9. StillWorking(w)
  <2>1. j.consumed < j.size /\ wchunk[w] < j.size
    BY <1>2 DEF Working, Job
  <2> QED BY <1>1, <1>5, <2>1 DEF StillWorking, Progress, Job
<1>10. JobBound(jobs'[o], frame)
  BY <1>1, <1>3 DEF Bounds
<1> QED BY <1>2, <1>6, <1>7, <1>8, <1>9, <1>10, WorkerStepInv

\* What a worker appends to its job's output.
LEMMA Tokens ==
  /\ \A b \in BOOLEAN : Header(b) \in Token
  /\ \A n \in Nat : Block(n) \in Token /\ HashOf(n) \in Token
  /\ LastMark \in Token
BY DEF Token, Header, Flag, Block, HashOf, LastMark

LEMMA Concat ==
  ASSUME NEW s \in Seq(Token), NEW t \in Seq(Token)
  PROVE  s \o t \in Seq(Token) /\ Len(s \o t) = Len(s) + Len(t)
OBVIOUS

LEMMA HeaderLength ==
  ASSUME NEW j \in JobRecord, NEW i \in Nat
  PROVE  /\ FrameHeader(j, i) \in Seq(Token)
         /\ Len(FrameHeader(j, i)) = IF j.jobID = 0 /\ i <= 1 THEN 1 ELSE 0
BY Tokens, JobFields DEF FrameHeader

LEMMA EndLength ==
  ASSUME NEW j \in JobRecord
  PROVE  /\ FrameEnd(j) \in Seq(Token)
         /\ Len(FrameEnd(j)) = IF j.jobID = 0 /\ j.checksum THEN 2 ELSE 1
<1> DEFINE sum == IF j.jobID = 0 /\ j.checksum THEN <<HashOf(j.lo + j.size)>> ELSE <<>>
<1>1. j.lo + j.size \in Nat
  BY JobFields
<1>2. HashOf(j.lo + j.size) \in Token /\ LastMark \in Token
  BY <1>1, Tokens
<1>3. <<LastMark>> \in Seq(Token) /\ Len(<<LastMark>>) = 1
  BY <1>2
<1>4. /\ sum \in Seq(Token)
      /\ Len(sum) = IF j.jobID = 0 /\ j.checksum THEN 1 ELSE 0
  BY <1>2
<1> HIDE DEF sum
<1>5. <<LastMark>> \o sum \in Seq(Token) /\ Len(<<LastMark>> \o sum) = 1 + Len(sum)
  BY <1>3, <1>4, Concat
<1>6. FrameEnd(j) = <<LastMark>> \o sum
  BY DEF FrameEnd, sum
<1> QED BY <1>4, <1>5, <1>6

\* The signal wakes nobody but the application thread.
LEMMA SignalMoves ==
  ASSUME NEW s, SignalJob(s)
  PROVE  mpc' = mpc \/ (mpc = "asleep" /\ mpc' = "flush")
BY DEF SignalJob

LEMMA CompressChunkInv ==
  ASSUME IInv, NEW w \in Workers, CompressChunk(w)
  PROVE  IInv' /\ Active(w) /\ WorkerFrame /\ OnOwnJob(w)
<1> USE DEF IInv
<1> DEFINE o == wjob[w]  j == jobs[o]  i == wchunk[w] + 1
           more == FrameHeader(j, i) \o <<Block(j.lo + i)>>
           out == (j.out \o FrameHeader(j, i)) \o <<Block(j.lo + i)>>
           k == [j EXCEPT !.out = out, !.consumed = i]
<1>1. /\ wpc[w] = "compress" /\ i < j.size
      /\ jobs' = [jobs EXCEPT ![o] = k]
      /\ wchunk' = [wchunk EXCEPT ![w] = i]
      /\ SignalJob(o)
      /\ UNCHANGED <<mainVars, serial, poolVars, wpc, wjob, wname, call, ret,
                     frame, failures, frameVars>>
  BY DEF CompressChunk, SetJob, Job
<1>2. Active(w)
  BY <1>1 DEF Active
<1>3. o \in Slots /\ j \in JobRecord /\ wchunk[w] \in Nat /\ wchunk'[w] = i
  BY <1>1, <1>2, PendingJob DEF Working, Types
<1>4. /\ j.size \in Nat /\ j.jobID \in Nat /\ j.lo \in Nat /\ j.out \in Seq(Token)
      /\ Len(j.out) \in Nat /\ i \in Nat /\ i > 0
  BY <1>3, JobFields
<1>5. /\ j.consumed < j.size /\ JobBound(j, frame)
      /\ Len(j.out) = IF j.jobID = 0 /\ wchunk[w] > 0 THEN wchunk[w] + 1 ELSE wchunk[w]
      /\ j.needSum => j.jobID > 0
      /\ serial.nextJobID > j.jobID /\ ~j.error
  BY <1>1, <1>2, <1>3 DEF Working, Job, Progress, Bounds
<1>6. /\ out \in Seq(Token)
      /\ Len(out) = IF j.jobID = 0 THEN i + 1 ELSE i
  <2> HIDE DEF i, j
  <2>1. /\ FrameHeader(j, i) \in Seq(Token)
        /\ Len(FrameHeader(j, i)) = IF j.jobID = 0 /\ i <= 1 THEN 1 ELSE 0
    BY <1>3, <1>4, HeaderLength
  <2>2. <<Block(j.lo + i)>> \in Seq(Token) /\ Len(<<Block(j.lo + i)>>) = 1
    BY <1>4, Tokens
  <2>3. /\ j.out \o FrameHeader(j, i) \in Seq(Token)
        /\ Len(j.out \o FrameHeader(j, i)) = Len(j.out) + Len(FrameHeader(j, i))
    BY <1>4, <2>1, Concat
  <2>4. out \in Seq(Token) /\ Len(out) = Len(j.out) + Len(FrameHeader(j, i)) + 1
    BY <2>2, <2>3, Concat
  <2>5. i = wchunk[w] + 1
    BY DEF i
  <2> HIDE DEF out
  <2> QED BY <1>3, <1>4, <1>5, <2>1, <2>4, <2>5
<1>7. /\ k \in JobRecord /\ k.out = out /\ k.consumed = i
      /\ k.set = j.set /\ k.frame = j.frame /\ k.jobID = j.jobID /\ k.size = j.size
      /\ k.dstFlushed = j.dstFlushed /\ k.lo = j.lo /\ k.needSum = j.needSum
      /\ k.last = j.last /\ k.checksum = j.checksum
      /\ k.error = j.error
  <2> HIDE DEF out, i, j
  <2> QED BY <1>3, <1>4, <1>6 DEF JobRecord
<1> HIDE DEF k, out, i
<1>8. jobs'[o] = k /\ \A s \in Slots : s # o => jobs'[s] = jobs[s]
  BY <1>1, <1>3 DEF Types
<1>9. WorkerFrame
  BY <1>1, SignalMoves DEF WorkerFrame
<1>10. Types'
  <2>1. jobs' \in [Slots -> JobRecord]
    BY <1>1, <1>3, <1>7 DEF Types
  <2>2. wchunk' \in [Workers -> Nat]
    BY <1>1, <1>4 DEF Types
  <2> QED BY <1>1, <1>9, <2>1, <2>2, WorkerTypes DEF Types
<1>11. OnOwnJob(w)
  <2>1. serial.nextJobID \in Nat /\ Len(j.out) <= Len(out)
    BY <1>3, <1>4, <1>5, <1>6, SerialFields DEF i
  <2>2. \A v \in Workers \ {w} : wchunk'[v] = wchunk[v]
    BY <1>1 DEF Types
  <2> QED BY <1>1, <1>7, <1>8, <2>1, <2>2 DEF OnOwnJob
<1>12. StillWorking(w)
  <2>1. Job(w)' = k
    BY <1>1, <1>8 DEF Job
  <2>2. Progress(w, Job(w))'
    BY <1>1, <1>3, <1>4, <1>5, <1>6, <1>7, <2>1 DEF Progress
  <2> QED BY <1>1, <1>3, <1>7, <1>8, <2>2 DEF StillWorking
<1>13. JobBound(k, frame)
  <2>1. Len(out) + Flag(j.needSum) <= j.size + 3
    <3> HIDE DEF j
    <3> QED BY <1>1, <1>4, <1>5, <1>6 DEF Flag
  <2>2. i <= j.size
    BY <1>1, <1>4
  <2> QED BY <1>5, <1>7, <2>1, <2>2 DEF JobBound
<1> QED BY <1>2, <1>8, <1>9, <1>10, <1>11, <1>12, <1>13, WorkerStepInv

\* The end of the frame, if the job ends it.
LEMMA LastLength ==
  ASSUME NEW j \in JobRecord
  PROVE  LET e == IF j.last THEN FrameEnd(j) ELSE <<>> IN
         /\ e \in Seq(Token) /\ Len(e) \in 0 .. 2
         /\ j.jobID # 0 => Len(e) \in 0 .. 1
<1> DEFINE e == IF j.last THEN FrameEnd(j) ELSE <<>>
<1>1. /\ FrameEnd(j) \in Seq(Token)
      /\ Len(FrameEnd(j)) = IF j.jobID = 0 /\ j.checksum THEN 2 ELSE 1
  BY EndLength
<1>2. CASE ~j.last
  <2>1. e = <<>>
    BY <1>2
  <2> HIDE DEF e
  <2>2. e \in Seq(Token) /\ Len(e) = 0
    BY <2>1
  <2> QED BY <2>2 DEF e
<1>3. CASE j.last
  <2>1. e = FrameEnd(j)
    BY <1>3
  <2> HIDE DEF e
  <2>2. CASE j.jobID = 0 /\ j.checksum
    <3>1. e \in Seq(Token) /\ Len(e) = 2
      BY <1>1, <2>1, <2>2
    <3> QED BY <2>2, <3>1 DEF e
  <2>3. CASE ~(j.jobID = 0 /\ j.checksum)
    <3>1. e \in Seq(Token) /\ Len(e) = 1
      BY <1>1, <2>1, <2>3
    <3>2. Len(e) \in 0 .. 2 /\ Len(e) \in 0 .. 1
      BY <3>1
    <3> QED BY <3>1, <3>2 DEF e
  <2> QED BY <2>2, <2>3
<1> QED BY <1>2, <1>3

LEMMA CompressLastInv ==
  ASSUME IInv, NEW w \in Workers, CompressLast(w)
  PROVE  IInv' /\ Active(w) /\ WorkerFrame /\ OnOwnJob(w)
<1> USE DEF IInv
<1> DEFINE o == wjob[w]  j == jobs[o]  i == j.size
           block == IF i > 0 THEN <<Block(j.lo + i)>> ELSE <<>>
           fend == IF j.last THEN FrameEnd(j) ELSE <<>>
           out == ((j.out \o FrameHeader(j, i)) \o block) \o fend
           k == [j EXCEPT !.out = out]
<1>1. /\ wpc[w] = "compress" /\ wchunk[w] + 1 >= j.size
      /\ jobs' = [jobs EXCEPT ![o] = k]
      /\ wpc' = [wpc EXCEPT ![w] = "finish"]
      /\ UNCHANGED <<mainVars, serial, poolVars, wjob, wchunk, wname,
                     callVars, frame, failures, frameVars>>
  BY DEF CompressLast, SetJob, Job
<1>2. Active(w) /\ wpc'[w] = "finish" /\ \A v \in Workers \ {w} : wpc'[v] = wpc[v]
  BY <1>1 DEF Active, Types
<1>3. o \in Slots /\ j \in JobRecord /\ wchunk[w] \in Nat
  BY <1>2, PendingJob DEF Working, Types
<1>4. /\ j.size \in Nat /\ j.jobID \in Nat /\ j.lo \in Nat /\ j.out \in Seq(Token)
      /\ Len(j.out) \in Nat
  BY <1>3, JobFields
<1>5. /\ j.consumed < j.size /\ wchunk[w] < j.size /\ JobBound(j, frame)
      /\ Len(j.out) = IF j.jobID = 0 /\ wchunk[w] > 0 THEN wchunk[w] + 1 ELSE wchunk[w]
      /\ j.needSum => j.jobID > 0
      /\ serial.nextJobID > j.jobID /\ ~j.error
  BY <1>1, <1>2, <1>3 DEF Working, Job, Progress, Bounds
<1>6. /\ out \in Seq(Token) /\ Len(j.out) <= Len(out)
      /\ Len(out) + Flag(j.needSum) <= j.size + 3
  <2> HIDE DEF j
  <2>1. /\ FrameHeader(j, i) \in Seq(Token)
        /\ Len(FrameHeader(j, i)) = IF j.jobID = 0 /\ i <= 1 THEN 1 ELSE 0
    BY <1>3, <1>4, HeaderLength
  <2>2. block \in Seq(Token) /\ Len(block) <= 1 /\ Len(block) \in Nat
    BY <1>4, Tokens
  <2>3. /\ fend \in Seq(Token) /\ Len(fend) \in 0 .. 2
        /\ j.jobID # 0 => Len(fend) \in 0 .. 1
    BY <1>3, LastLength
  <2> HIDE DEF block, fend
  <2>4. /\ j.out \o FrameHeader(j, i) \in Seq(Token)
        /\ Len(j.out \o FrameHeader(j, i)) = Len(j.out) + Len(FrameHeader(j, i))
    BY <1>4, <2>1, Concat
  <2>5. /\ (j.out \o FrameHeader(j, i)) \o block \in Seq(Token)
        /\ Len((j.out \o FrameHeader(j, i)) \o block)
             = Len(j.out) + Len(FrameHeader(j, i)) + Len(block)
    BY <2>2, <2>4, Concat
  <2>6. /\ out \in Seq(Token)
        /\ Len(out) = Len(j.out) + Len(FrameHeader(j, i)) + Len(block) + Len(fend)
    BY <2>3, <2>5, Concat
  <2> HIDE DEF out
  <2> DEFINE a == Len(j.out)  h == Len(FrameHeader(j, i))  b == Len(block)
             e == Len(fend)  n == Len(out)  f == Flag(j.needSum)  s == j.size
  <2>7. /\ a \in Nat /\ h \in 0 .. 1 /\ b \in 0 .. 1 /\ e \in 0 .. 2 /\ f \in 0 .. 1
        /\ s \in Nat /\ n = a + h + b + e
        /\ \/ a + h = s /\ f = 0
           \/ a + h = s - 1 /\ e \in 0 .. 1
    <3>1. a \in Nat /\ h \in 0 .. 1 /\ b \in 0 .. 1 /\ e \in 0 .. 2 /\ f \in 0 .. 1
      <4>1. b \in 0 .. 1
        BY <2>2
      <4>2. h \in 0 .. 1
        BY <2>1
      <4>3. f \in 0 .. 1
        BY DEF Flag
      <4> HIDE DEF b, h, f
      <4> QED BY <1>4, <2>3, <4>1, <4>2, <4>3
    <3>2. wchunk[w] + 1 = s
      BY <1>1, <1>3, <1>4, <1>5
    <3>3. CASE j.jobID = 0
      <4>1. a + h = s /\ f = 0
        BY <1>3, <1>4, <1>5, <2>1, <3>2, <3>3 DEF Flag
      <4> QED BY <1>4, <2>6, <3>1, <4>1
    <3>4. CASE j.jobID # 0
      <4>1. a + h = s - 1
        BY <1>3, <1>4, <1>5, <2>1, <3>2, <3>4
      <4>2. e \in 0 .. 1
        BY <2>3, <3>4
      <4> QED BY <1>4, <2>6, <3>1, <4>1, <4>2
    <3> QED BY <3>3, <3>4
  <2> HIDE DEF a, h, b, e, n, f, s
  <2>8. a <= n /\ n + f <= s + 3
    BY <2>7
  <2> QED BY <2>6, <2>8 DEF a, n, f, s
<1>7. /\ k \in JobRecord /\ k.out = out /\ k.consumed = j.consumed
      /\ k.set = j.set /\ k.frame = j.frame /\ k.jobID = j.jobID /\ k.size = j.size
      /\ k.dstFlushed = j.dstFlushed /\ k.lo = j.lo /\ k.needSum = j.needSum
      /\ k.last = j.last /\ k.checksum = j.checksum
      /\ k.error = j.error
  <2> HIDE DEF out, j
  <2> QED BY <1>3, <1>4, <1>6 DEF JobRecord
<1> HIDE DEF k, out
<1>8. jobs'[o] = k /\ \A s \in Slots : s # o => jobs'[s] = jobs[s]
  BY <1>1, <1>3 DEF Types
<1>9. WorkerFrame
  BY <1>1 DEF WorkerFrame, callVars
<1>10. Types'
  <2>1. jobs' \in [Slots -> JobRecord]
    BY <1>1, <1>3, <1>7 DEF Types
  <2>2. wpc' \in [Workers -> WorkerStage]
    BY <1>1 DEF Types, WorkerStage
  <2> QED BY <1>1, <1>9, <2>1, <2>2, WorkerTypes DEF Types
<1>11. OnOwnJob(w)
  BY <1>1, <1>2, <1>6, <1>7, <1>8, SerialFields DEF OnOwnJob
<1>12. StillWorking(w)
  <2>1. Job(w)' = k
    BY <1>1, <1>8 DEF Job
  <2> QED BY <1>1, <1>2, <1>5, <1>7, <1>8, <2>1 DEF StillWorking, Progress
<1>13. JobBound(k, frame)
  BY <1>5, <1>6, <1>7 DEF JobBound
<1> QED BY <1>2, <1>8, <1>9, <1>10, <1>11, <1>12, <1>13, WorkerStepInv

LEMMA ReportJobInv ==
  ASSUME IInv, NEW w \in Workers, ReportJob(w)
  PROVE  IInv' /\ Active(w) /\ WorkerFrame /\ OnOwnJob(w)
<1> USE DEF IInv
<1> DEFINE o == wjob[w]  j == jobs[o]  k == [j EXCEPT !.consumed = j.size]
<1>1. /\ wpc[w] = "report"
      /\ jobs' = [jobs EXCEPT ![o] = k]
      /\ wpc' = [wpc EXCEPT ![w] = "unbusy"]
      /\ SignalJob(o)
      /\ UNCHANGED <<mainVars, serial, poolVars, wjob, wchunk, wname, call, ret,
                     frame, failures, frameVars>>
  BY DEF ReportJob, SetJob, Job
<1>2. Active(w) /\ wpc'[w] = "unbusy" /\ \A v \in Workers \ {w} : wpc'[v] = wpc[v]
  BY <1>1 DEF Active, Types
<1>3. o \in Slots /\ j \in JobRecord /\ j.size \in Nat /\ Len(j.out) \in Nat
  BY <1>2, PendingJob, JobFields DEF Working, Types
<1>4. /\ k \in JobRecord /\ k.consumed = j.size
      /\ k.set = j.set /\ k.frame = j.frame /\ k.jobID = j.jobID /\ k.size = j.size
      /\ k.dstFlushed = j.dstFlushed /\ k.out = j.out /\ k.lo = j.lo
      /\ k.needSum = j.needSum
      /\ k.last = j.last /\ k.checksum = j.checksum /\ k.error = j.error
  <2> HIDE DEF j
  <2> QED BY <1>3 DEF JobRecord
<1>5. JobBound(j, frame)
  BY <1>3 DEF Bounds
<1> HIDE DEF k
<1>6. jobs'[o] = k /\ \A s \in Slots : s # o => jobs'[s] = jobs[s]
  BY <1>1, <1>3 DEF Types
<1>7. WorkerFrame
  BY <1>1, SignalMoves DEF WorkerFrame
<1>8. Types'
  <2>1. jobs' \in [Slots -> JobRecord]
    BY <1>1, <1>3, <1>4 DEF Types
  <2>2. wpc' \in [Workers -> WorkerStage]
    BY <1>1 DEF Types, WorkerStage
  <2> QED BY <1>1, <1>7, <2>1, <2>2, WorkerTypes DEF Types
<1>9. OnOwnJob(w)
  BY <1>1, <1>2, <1>3, <1>4, <1>6, SerialFields DEF OnOwnJob
<1>10. StillWorking(w)
  BY <1>2 DEF StillWorking, Active
<1>11. JobBound(k, frame)
  BY <1>3, <1>4, <1>5 DEF JobBound
<1> QED BY <1>2, <1>6, <1>7, <1>8, <1>9, <1>10, <1>11, WorkerStepInv

-----------------------------------------------------------------------------
\* A worker takes a job from the pool, and comes back to it.

LEMMA TakeJobInv ==
  ASSUME IInv, NEW w \in Workers, TakeJob(w)
  PROVE  IInv'
<1> USE DEF IInv
<1> DEFINE q == queued
<1>1. /\ wpc[w] = "idle" /\ q # NoSlot
      /\ wjob' = [wjob EXCEPT ![w] = q]
      /\ wname' = [wname EXCEPT ![w] = <<jobs[q].frame, jobs[q].jobID>>]
      /\ wchunk' = [wchunk EXCEPT ![w] = 0]
      /\ queued' = NoSlot /\ nbBusy' = nbBusy + 1
      /\ wpc' = [wpc EXCEPT ![w] = "begin"]
      /\ UNCHANGED <<jobs, mainVars, serial, callVars, frame, failures, frameVars>>
  BY DEF TakeJob
<1>2. q \in Pending /\ q \in Slots /\ Fresh(jobs[q])
  BY <1>1, PendingJob DEF Queue
<1>3. jobs[q] \in JobRecord /\ jobs[q].size \in Nat /\ jobs[q].frame \in Nat
      /\ jobs[q].jobID \in Nat
  BY <1>2, JobFields DEF Types
<1>4. Types'
  <2>1. /\ wjob' \in [Workers -> Slots \cup {NoSlot}]
        /\ wname' \in [Workers -> Nat \X Nat] /\ wchunk' \in [Workers -> Nat]
        /\ wpc' \in [Workers -> WorkerStage] /\ nbBusy' \in Nat
        /\ queued' \in Slots \cup {NoSlot}
    BY <1>1, <1>2, <1>3 DEF Types, WorkerStage
  <2> QED BY <1>1, <2>1 DEF Types, mainVars, callVars, frameVars
<1>5. /\ wpc'[w] = "begin" /\ wjob'[w] = q /\ wchunk'[w] = 0
      /\ wname'[w] = <<jobs[q].frame, jobs[q].jobID>>
      /\ \A v \in Workers \ {w} : /\ wpc'[v] = wpc[v] /\ wjob'[v] = wjob[v]
                                  /\ wchunk'[v] = wchunk[v] /\ wname'[v] = wname[v]
  BY <1>1 DEF Types
<1>6. Pending' = Pending
  BY <1>1 DEF Pending, mainVars
<1>7. Bounds' /\ Stages' /\ Placed'
  BY <1>1 DEF Bounds, Stages, Placed, mainVars, callVars, frameVars
<1>8. Ready' /\ Spare' /\ Queue'
  BY <1>1, <1>6 DEF Ready, Spare, Queue, mainVars, callVars, frameVars, Fresh
<1>9. \A v \in Workers \ {w} : Active(v)' <=> Active(v)
  BY <1>5 DEF Active
<1>10. Working'
  <2> SUFFICES ASSUME NEW v \in Workers, Active(v)'
               PROVE  /\ wjob'[v] \in Pending /\ wjob'[v] # NoSlot
                      /\ wname'[v] = <<Job(v)'.frame, Job(v)'.jobID>>
                      /\ Job(v)'.consumed < Job(v)'.size /\ wchunk'[v] < Job(v)'.size
                      /\ Progress(v, Job(v))'
    BY <1>1, <1>6 DEF Working
  <2>1. CASE v = w
    <3>1. Job(v)' = jobs[q]
      BY <1>1, <1>5, <2>1 DEF Job
    <3> QED BY <1>1, <1>2, <1>3, <1>5, <2>1, <3>1 DEF Progress, Fresh
  <2>2. CASE v # w
    <3>1. Active(v) /\ Job(v)' = Job(v)
      BY <1>1, <1>5, <1>9, <2>2 DEF Job
    <3>2. wjob[v] \in Pending /\ wjob[v] # NoSlot
      BY <3>1, PendingJob DEF Working
    <3>3. Progress(v, Job(v))'
      BY <1>1, <1>5, <2>2, <3>1 DEF Working, Progress, Fresh
    <3> QED BY <1>5, <2>2, <3>1, <3>2, <3>3 DEF Working
  <2> QED BY <2>1, <2>2
<1>11. Exclusive'
  <2>1. \A v \in Workers \ {w} : Active(v) => wjob[v] # q
    BY DEF Working
  <2> QED BY <1>5, <1>9, <2>1 DEF Exclusive
<1>12. Busy'
  <2> DEFINE S == {v \in Workers : wpc[v] # "idle"}
             T == {v \in Workers : wpc'[v] # "idle"}
  <2>1. T = S \cup {w} /\ w \notin S
    BY <1>1, <1>5
  <2>2. IsFiniteSet(S)
    BY ConstantTypes, FS_Subset
  <2>3. Cardinality(T) = Cardinality(S) + 1
    BY <2>1, <2>2, FS_AddElement
  <2> QED BY <1>1, <2>3 DEF Busy
<1> QED BY <1>4, <1>7, <1>8, <1>10, <1>11, <1>12

LEMMA UnbusyInv ==
  ASSUME IInv, NEW w \in Workers, Unbusy(w)
  PROVE  IInv'
<1> USE DEF IInv
<1>1. /\ wpc[w] = "unbusy"
      /\ nbBusy' = nbBusy - 1
      /\ wjob' = [wjob EXCEPT ![w] = NoSlot]
      /\ wchunk' = [wchunk EXCEPT ![w] = 0]
      /\ wname' = [wname EXCEPT ![w] = <<0, 0>>]
      /\ wpc' = [wpc EXCEPT ![w] = "idle"]
      /\ UNCHANGED <<jobs, mainVars, serial, queued, callVars, frame, failures,
                     frameVars>>
  BY DEF Unbusy
<1>2. Busy' /\ nbBusy' \in Nat
  <2> DEFINE S == {v \in Workers : wpc[v] # "idle"}
             T == {v \in Workers : wpc'[v] # "idle"}
  <2>1. T = S \ {w} /\ w \in S
    BY <1>1 DEF Types
  <2>2. IsFiniteSet(S)
    BY ConstantTypes, FS_Subset
  <2>3. Cardinality(T) = Cardinality(S) - 1 /\ IsFiniteSet(T)
    BY <2>1, <2>2, FS_RemoveElement
  <2>4. Cardinality(T) \in Nat
    BY <2>3, FS_CardinalityType
  <2> QED BY <1>1, <2>3, <2>4 DEF Busy
<1>3. Types'
  <2>1. /\ wjob' \in [Workers -> Slots \cup {NoSlot}]
        /\ wname' \in [Workers -> Nat \X Nat] /\ wchunk' \in [Workers -> Nat]
        /\ wpc' \in [Workers -> WorkerStage]
    BY <1>1 DEF Types, WorkerStage
  <2> QED BY <1>1, <1>2, <2>1 DEF Types, mainVars, callVars, frameVars
<1>4. /\ ~Active(w)'
      /\ \A v \in Workers \ {w} :
           /\ wpc'[v] = wpc[v] /\ wjob'[v] = wjob[v] /\ wchunk'[v] = wchunk[v]
           /\ wname'[v] = wname[v] /\ Active(v)' = Active(v) /\ Job(v)' = Job(v)
  BY <1>1 DEF Types, Active, Job
<1>5. Pending' = Pending
  BY <1>1 DEF Pending, mainVars
<1>6. Bounds' /\ Stages' /\ Placed'
  BY <1>1 DEF Bounds, Stages, Placed, mainVars, callVars, frameVars
<1>7. Ready' /\ Spare' /\ Queue'
  BY <1>1, <1>5 DEF Ready, Spare, Queue, mainVars, callVars, frameVars, Fresh
<1>8. Working'
  BY <1>1, <1>4, <1>5 DEF Working, Progress, Fresh
<1>9. Exclusive'
  BY <1>4 DEF Exclusive
<1> QED BY <1>2, <1>3, <1>6, <1>7, <1>8, <1>9

-----------------------------------------------------------------------------
\* The application thread empties the table.

\* Once every job is complete no worker has one, and none waits for a worker.
LEMMA NobodyWorks ==
  ASSUME IInv, AllComplete
  PROVE  queued = NoSlot /\ \A w \in Workers : ~Active(w)
<1> USE DEF IInv
<1>1. ASSUME NEW s \in Pending
      PROVE  jobs[s].consumed = jobs[s].size
  BY <1>1 DEF AllComplete, Complete
<1>2. \A s \in Pending : jobs[s].size \in Nat /\ jobs[s].consumed \in Nat
  BY PendingJob, JobFields DEF Types
<1>3. queued = NoSlot
  BY <1>1, <1>2 DEF Queue, Fresh
<1>4. ASSUME NEW w \in Workers, Active(w)
      PROVE  FALSE
  <2>1. wjob[w] \in Pending /\ jobs[wjob[w]].consumed < jobs[wjob[w]].size
    BY <1>4 DEF Working, Job
  <2> QED BY <1>1, <1>2, <2>1
<1> QED BY <1>3, <1>4

LEMMA NoneBetween == \A n \in Nat : n .. n - 1 = {}
OBVIOUS

LEMMA SameNumber == \A m, n, k \in Nat : m = n => m <= n /\ n <= m + k
OBVIOUS

\* Jobs that hold nothing.
Blank(table) == \A s \in Slots : table[s].out = <<>> /\ ~table[s].error /\ ~table[s].needSum

LEMMA EmptyTableInv ==
  ASSUME IInv, AllComplete, Types', Bounds', Stages',
         doneJobID' = nextJobID', Blank(jobs'), status' = "open" => ~jobReady',
         UNCHANGED <<poolVars, workerVars>>
  PROVE  IInv'
<1> USE DEF IInv, poolVars, workerVars
<1>1. doneJobID' \in Nat /\ nextJobID' \in Nat
  BY DEF Types
<1>2. Pending' = {}
  <2>1. nextJobID' .. nextJobID' - 1 = {}
    BY <1>1, NoneBetween
  <2>2. Pending' = {Slot(id) : id \in nextJobID' .. nextJobID' - 1}
    BY DEF Pending
  <2> QED BY <2>1, <2>2
<1>3. Placed'
  <2> HIDE DEF IInv, poolVars, workerVars
  <2>1. NbSlots \in Nat
    BY ConstantTypes
  <2>2. doneJobID' .. nextJobID' - 1 = {}
    <3>1. nextJobID' .. nextJobID' - 1 = {}
      BY <1>1, NoneBetween
    <3> QED BY <3>1
  <2>3. doneJobID' <= nextJobID' /\ nextJobID' <= doneJobID' + NbSlots
    BY <1>1, <2>1, SameNumber
  <2> QED BY <2>2, <2>3 DEF Placed
<1>4. Ready' /\ Spare'
  BY DEF Ready, Spare, Blank
<1>5. queued' = NoSlot /\ \A w \in Workers : ~Active(w)'
  BY NobodyWorks DEF Active
<1>6. Queue' /\ Working' /\ Exclusive' /\ Busy'
  BY <1>5 DEF Queue, Working, Exclusive, Busy
<1> QED BY <1>3, <1>4, <1>6

LEMMA NoJobsBlank ==
  /\ NoJobs \in [Slots -> JobRecord] /\ Blank(NoJobs)
  /\ \A s \in Slots, f \in Nat : JobBound(NoJobs[s], f)
<1>1. ZeroJob \in JobRecord
  BY DEF ZeroJob, JobRecord
<1>2. \A f \in Nat : JobBound(ZeroJob, f)
  BY ConstantTypes DEF ZeroJob, JobBound, Flag
<1> QED BY <1>1, <1>2 DEF NoJobs, Blank, ZeroJob

LEMMA InitCStreamInv ==
  ASSUME IInv, NEW sum \in BOOLEAN, NEW asked \in BOOLEAN, InitCStream(sum, asked)
  PROVE  IInv'
<1> USE DEF IInv
<1>1. ~jobReady /\ mpc = "init"
  BY DEF InitCStream, Stages
<1>2. doneJobID = nextJobID => Pending = {}
  BY DEF Pending, Types
<1>3. AllComplete
  BY <1>2 DEF InitCStream, Stages, AllComplete
<1>4. allJobsCompleted => Blank(jobs)
  BY <1>1, <1>2 DEF Stages, Spare, Blank
<1>5. /\ jobs' \in [Slots -> JobRecord] /\ Blank(jobs')
      /\ \A s \in Slots : JobBound(jobs'[s], frame)
  BY <1>4, NoJobsBlank DEF InitCStream, Types, Bounds
<1>6. Types'
  <2>1. given' \in Seq(Token)
    BY DEF InitCStream
  <2>2. serial' \in SerialRecord /\ inBuff' \in [set : BOOLEAN, filled : Nat]
    BY ConstantTypes DEF InitCStream, SerialRecord, NoInput, Corrupt
  <2> QED BY <1>5, <2>1, <2>2 DEF InitCStream, Types, poolVars, workerVars
<1>7. Bounds'
  BY <1>5, ConstantTypes DEF InitCStream, Bounds, NoInput
<1>8. Stages'
  BY <1>1 DEF InitCStream, Stages, NoInput
<1> QED BY <1>1, <1>3, <1>5, <1>6, <1>7, <1>8, EmptyTableInv DEF InitCStream

LEMMA FailFrameInv == IInv /\ FailFrame => IInv'
<1> SUFFICES ASSUME IInv, FailFrame PROVE IInv'
  OBVIOUS
<1> USE DEF IInv
<1>1. jobs' = NoJobs /\ inBuff' = NoInput /\ frame' = frame
  BY DEF FailFrame
<1>2. Types'
  <2>1. inBuff' \in [set : BOOLEAN, filled : Nat]
    BY <1>1 DEF NoInput
  <2>2. call' \in [op : {"none", "continue", "flush", "end"}, left : Nat,
                   room : Nat, progress : BOOLEAN]
    BY DEF FailFrame, NoCall
  <2> QED BY <1>1, <2>1, <2>2, NoJobsBlank DEF FailFrame, Types, poolVars, workerVars
<1>3. Bounds'
  BY <1>1, NoJobsBlank, ConstantTypes DEF FailFrame, Bounds, NoInput, Types
<1>4. Stages'
  BY <1>1 DEF FailFrame, Stages, NoInput, Types
<1> QED BY <1>1, <1>2, <1>3, <1>4, NoJobsBlank, EmptyTableInv DEF FailFrame

-----------------------------------------------------------------------------
\* The application thread makes and posts a job.

\* The job of nextJobID, in the slot after the jobs posted, joins them: to wait
\* for a worker, or already complete.
LEMMA PostedInv ==
  ASSUME IInv, Types', Bounds', Stages', ~TableFull, mpc' # "init", mpc # "init",
         nextJobID' = nextJobID + 1, ~jobReady',
         UNCHANGED <<doneJobID, serial, nbBusy, workerVars, frame>>,
         \A s \in Slots : s # Slot(nextJobID) => jobs'[s] = jobs[s],
         LET k == jobs'[Slot(nextJobID)] IN
           /\ k.set /\ k.jobID = nextJobID /\ k.frame = frame /\ k.dstFlushed <= Len(k.out)
           /\ \/ queued' = queued
              \/ queued = NoSlot /\ queued' = Slot(nextJobID) /\ Fresh(k)
  PROVE  IInv'
<1> USE DEF IInv, workerVars
<1> DEFINE o == Slot(nextJobID)
<1>1. nextJobID \in Nat /\ doneJobID \in Nat /\ nextJobID < doneJobID + NbSlots
  BY ConstantTypes DEF Types, TableFull
<1>2. o \in Slots \ Pending
  BY <1>1, NextSlotFree
<1>3. Pending' = Pending \cup {o}
  <2>1. doneJobID .. nextJobID = (doneJobID .. nextJobID - 1) \cup {nextJobID}
    BY <1>1 DEF Placed
  <2>2. Pending' = {Slot(id) : id \in doneJobID .. nextJobID}
    BY <1>1 DEF Pending
  <2> QED BY <2>1, <2>2 DEF Pending
<1> HIDE DEF o
<1>4. \A s \in Pending : s \in Slots /\ s # o /\ s # NoSlot /\ jobs'[s] = jobs[s]
  BY <1>2, PendingJob DEF o
<1>5. Placed'
  <2>1. ASSUME NEW id \in doneJobID .. nextJobID
        PROVE  LET j == jobs'[Slot(id)] IN
               /\ j.set /\ j.jobID = id /\ j.frame = frame /\ j.dstFlushed <= Len(j.out)
    <3>1. CASE id = nextJobID
      BY <3>1
    <3>2. CASE id # nextJobID
      <4>1. id \in doneJobID .. nextJobID - 1
        BY <1>1, <3>2
      <4>2. jobs'[Slot(id)] = jobs[Slot(id)]
        BY <1>4, <4>1 DEF Pending
      <4> QED BY <4>1, <4>2 DEF Placed
    <3> QED BY <3>1, <3>2
  <2>2. doneJobID' <= nextJobID' /\ nextJobID' <= doneJobID' + NbSlots
    BY <1>1, ConstantTypes DEF Placed
  <2>3. doneJobID' .. nextJobID' - 1 = doneJobID .. nextJobID
    BY <1>1
  <2> QED BY <2>1, <2>2, <2>3 DEF Placed
<1>6. Ready'
  BY DEF Ready
<1>7. Spare'
  BY <1>3 DEF Spare, o
<1>8. Queue'
  BY <1>3, <1>4 DEF Queue, o, Fresh
<1>9. Working'
  <2> SUFFICES ASSUME NEW w \in Workers, Active(w)
               PROVE  /\ wjob[w] \in Pending' /\ wjob[w] # queued'
                      /\ wname[w] = <<Job(w)'.frame, Job(w)'.jobID>>
                      /\ Job(w)'.consumed < Job(w)'.size /\ wchunk[w] < Job(w)'.size
                      /\ Progress(w, Job(w))'
    BY DEF Working, Active
  <2>1. wjob[w] \in Pending
    BY DEF Working
  <2>2. Job(w)' = Job(w)
    BY <1>4, <2>1 DEF Job
  <2>3. Progress(w, Job(w))'
    BY <2>2 DEF Working, Progress, Fresh
  <2>4. wjob[w] # queued'
    BY <1>4, <2>1 DEF Working, o
  <2> QED BY <1>3, <2>1, <2>2, <2>3, <2>4 DEF Working
<1>10. Exclusive' /\ Busy'
  BY DEF Exclusive, Busy, Active
<1> QED BY <1>5, <1>6, <1>7, <1>8, <1>9, <1>10

LEMMA PostReadyJobInv == IInv /\ PostReadyJob => IInv'
<1> SUFFICES ASSUME IInv, PostReadyJob PROVE IInv'
  OBVIOUS
<1> USE DEF IInv
<1>1. /\ mpc = "create" /\ mpc' = "flush" /\ ~TableFull /\ jobReady /\ status = "open"
      /\ UNCHANGED <<jobs, doneJobID, frameEnded, allJobsCompleted, checksumFlag,
                     inBuff, serial, nbBusy, workerVars, call, ret, frame,
                     failures, frameVars>>
  BY DEF PostReadyJob, Stages
<1>2. CASE IsQueueFull
  <2>1. UNCHANGED <<queued, nextJobID, jobReady>>
    BY <1>1, <1>2 DEF PostReadyJob, PostJob
  <2>2. Types'
    BY <1>1, <2>1 DEF Types, workerVars, frameVars
  <2>3. Bounds' /\ Stages'
    BY <1>1, <2>1 DEF Bounds, Stages, frameVars
  <2> QED BY <1>1, <2>1, <2>2, <2>3, NoJobTouched DEF poolVars, frameVars
<1>3. CASE ~IsQueueFull
  <2>1. /\ queued = NoSlot /\ queued' = Slot(nextJobID) /\ nextJobID' = nextJobID + 1
        /\ ~jobReady' /\ jobReady' \in BOOLEAN
    BY <1>3 DEF PostReadyJob, PostJob, IsQueueFull
  <2>2. nextJobID \in Nat /\ Slot(nextJobID) \in Slots
    BY SlotInTable DEF Types
  <2>3. Types'
    BY <1>1, <2>1, <2>2 DEF Types, workerVars, frameVars
  <2>4. Bounds' /\ Stages'
    BY <1>1, <2>1, <2>2 DEF Bounds, Stages, frameVars
  <2>5. LET k == jobs[Slot(nextJobID)] IN
        k.set /\ k.jobID = nextJobID /\ k.frame = frame /\ Fresh(k)
    BY <1>1 DEF Ready
  <2>6. jobs[Slot(nextJobID)].dstFlushed <= Len(jobs[Slot(nextJobID)].out)
    BY <2>5 DEF Fresh
  <2> QED BY <1>1, <2>1, <2>3, <2>4, <2>5, <2>6, PostedInv
<1> QED BY <1>2, <1>3

\* The job made of the section just filled.
LEMMA NewJobFields ==
  ASSUME IInv, mpc = "create"
  PROVE  /\ NewJob \in JobRecord /\ JobBound(NewJob, frame)
         /\ NewJob.set /\ NewJob.jobID = nextJobID /\ NewJob.frame = frame
         /\ NewJob.size = inBuff.filled /\ NewJob.consumed = 0 /\ NewJob.out = <<>>
         /\ ~NewJob.error /\ NewJob.dstFlushed = 0
         /\ NewJob.needSum => nextJobID > 0
<1> USE DEF IInv
<1>1. /\ inBuff.filled \in Nat /\ taken \in Nat /\ inBuff.filled <= taken
      /\ taken - inBuff.filled \in Nat /\ frame \in Nat /\ nextJobID \in Nat
      /\ checksumFlag \in BOOLEAN
  BY DEF Types, Stages
<1>2. (call.op = "end") \in BOOLEAN
      /\ (call.op = "end" /\ nextJobID > 0 /\ checksumFlag) \in BOOLEAN
  OBVIOUS
<1>3. NewJob \in JobRecord
  BY <1>1, <1>2 DEF NewJob, JobFor, JobRecord
<1>4. JobBound(NewJob, frame)
  BY <1>1, ConstantTypes DEF NewJob, JobFor, JobBound, Bounds, Flag
<1> QED BY <1>1, <1>3, <1>4 DEF NewJob, JobFor

LEMMA CreateJobInv == IInv /\ CreateJob => IInv'
<1> SUFFICES ASSUME IInv, CreateJob PROVE IInv'
  OBVIOUS
<1> USE DEF IInv
<1> DEFINE o == Slot(nextJobID)
<1>1. /\ mpc = "create" /\ mpc' = "flush" /\ ~TableFull /\ ~jobReady /\ status = "open"
      /\ jobs' = [jobs EXCEPT ![o] = NewJob]
      /\ PrepareJob /\ PostJob
      /\ UNCHANGED <<doneJobID, allJobsCompleted, serial, nbBusy, workerVars,
                     call, ret, frame, failures, frameVars>>
  BY DEF CreateJob, Stages
<1>2. /\ nextJobID \in Nat /\ doneJobID \in Nat /\ o \in Slots
      /\ nextJobID < doneJobID + NbSlots
  BY <1>1, SlotInTable, ConstantTypes DEF Types, TableFull
<1>3. inBuff.filled > 0 /\ inBuff.filled \in Nat /\ taken \in Nat /\ taken > 0
      /\ ~frameEnded /\ ~allJobsCompleted
  BY <1>1, ConstantTypes DEF CreateJob, NeedsJob, Stages, Types
<1>4. /\ NewJob \in JobRecord /\ JobBound(NewJob, frame) /\ Fresh(NewJob)
      /\ NewJob.set /\ NewJob.jobID = nextJobID /\ NewJob.frame = frame
      /\ NewJob.dstFlushed <= Len(NewJob.out)
  BY <1>1, <1>3, NewJobFields DEF Fresh
<1>5. jobs' \in [Slots -> JobRecord] /\ jobs'[o] = NewJob
      /\ \A s \in Slots : s # o => jobs'[s] = jobs[s]
  BY <1>1, <1>2, <1>4 DEF Types
<1>6. /\ inBuff' \in [set : BOOLEAN, filled : Nat] /\ inBuff'.filled = 0
      /\ frameEnded' \in BOOLEAN /\ checksumFlag' \in BOOLEAN
  BY <1>1 DEF PrepareJob, NoInput, Types
<1>7. Bounds'
  BY <1>1, <1>4, <1>5, <1>6, ConstantTypes DEF Bounds, frameVars
<1>8. Types'
  <2>1. queued' \in Slots \cup {NoSlot} /\ nextJobID' \in Nat /\ jobReady' \in BOOLEAN
    <3>1. queued \in Slots \cup {NoSlot}
      BY DEF Types
    <3>2. CASE IsQueueFull
      <4>1. jobReady' = TRUE /\ queued' = queued /\ nextJobID' = nextJobID
        BY <1>1, <3>2 DEF PostJob
      <4> QED BY <1>2, <3>1, <4>1
    <3>3. CASE ~IsQueueFull
      <4>1. jobReady' = FALSE /\ queued' = o /\ nextJobID' = nextJobID + 1
        BY <1>1, <3>3 DEF PostJob
      <4>2. nextJobID' \in Nat
        BY <1>2, <4>1
      <4> QED BY <1>2, <4>1, <4>2
    <3> QED BY <3>2, <3>3
  <2> QED BY <1>1, <1>5, <1>6, <2>1 DEF Types, workerVars, frameVars
<1>9. Stages'
  BY <1>1, <1>2, <1>3, <1>6 DEF Stages, PostJob, frameVars
<1> HIDE DEF o
<1>10. CASE ~IsQueueFull
  <2>1. /\ queued = NoSlot /\ queued' = o /\ nextJobID' = nextJobID + 1 /\ ~jobReady'
    BY <1>1, <1>10 DEF PostJob, IsQueueFull, o
  <2> QED BY <1>1, <1>4, <1>5, <1>7, <1>8, <1>9, <2>1, PostedInv DEF o
<1>11. CASE IsQueueFull
  <2>1. jobReady' /\ UNCHANGED <<queued, nextJobID>>
    BY <1>1, <1>11 DEF PostJob
  <2>2. Pending' = Pending /\ o \in Slots \ Pending
    BY <1>1, <1>2, <2>1, NextSlotFree DEF Pending, o
  <2>3. \A s \in Pending : s \in Slots /\ jobs'[s] = jobs[s]
    BY <1>5, <2>2, PendingJob
  <2>4. Placed'
    <3>1. ASSUME NEW id \in doneJobID .. nextJobID - 1
          PROVE  jobs'[Slot(id)] = jobs[Slot(id)]
      BY <2>3 DEF Pending
    <3> QED BY <1>1, <2>1, <3>1 DEF Placed
  <2>5. Ready'
    BY <1>1, <1>2, <1>4, <1>5, <2>1 DEF Ready, o, Fresh
  <2>6. Spare'
    BY <1>1, <1>4, <1>5, <2>1, <2>2 DEF Spare, o, Fresh, frameVars
  <2>7. Queue'
    BY <2>1, <2>2, <2>3 DEF Queue, Fresh
  <2>8. Working'
    <3>1. ASSUME NEW w \in Workers, Active(w)
          PROVE  Job(w)' = Job(w)
      BY <1>1, <2>3, <3>1 DEF Working, Job, workerVars
    <3> QED BY <1>1, <2>1, <2>2, <3>1 DEF Working, Active, Progress, Fresh, workerVars
  <2>9. Exclusive' /\ Busy'
    BY <1>1 DEF Exclusive, Busy, Active, workerVars
  <2> QED BY <1>7, <1>8, <1>9, <2>4, <2>5, <2>6, <2>7, <2>8, <2>9
<1> QED BY <1>10, <1>11

LEMMA CreateLastEmptyBlockInv == IInv /\ CreateLastEmptyBlock => IInv'
<1> SUFFICES ASSUME IInv, CreateLastEmptyBlock PROVE IInv'
  OBVIOUS
<1> USE DEF IInv
<1> DEFINE o == Slot(nextJobID)
           k == IF failures' = failures THEN [NewJob EXCEPT !.out = <<LastMark>>]
                                        ELSE [NewJob EXCEPT !.error = TRUE]
<1>1. /\ mpc = "create" /\ mpc' = "flush" /\ ~TableFull /\ ~jobReady /\ status = "open"
      /\ inBuff.filled = 0 /\ call.op = "end" /\ ~frameEnded /\ nextJobID > 0
      /\ PrepareJob /\ nextJobID' = nextJobID + 1
      /\ UNCHANGED <<doneJobID, jobReady, allJobsCompleted, serial, poolVars,
                     workerVars, call, ret, frame, frameVars>>
  BY ConstantTypes DEF CreateLastEmptyBlock, Stages, NeedsJob
<1>2. jobs' = [jobs EXCEPT ![o] = k] /\ failures' \in Nat
  BY DEF CreateLastEmptyBlock, Types
<1>3. nextJobID \in Nat /\ doneJobID \in Nat /\ o \in Slots
  BY SlotInTable DEF Types
<1>4. /\ k \in JobRecord /\ JobBound(k, frame)
      /\ k.set /\ k.jobID = nextJobID /\ k.frame = frame /\ k.dstFlushed <= Len(k.out)
  <2>1. /\ NewJob \in JobRecord /\ JobBound(NewJob, frame)
        /\ NewJob.set /\ NewJob.jobID = nextJobID /\ NewJob.frame = frame
        /\ NewJob.size = 0 /\ NewJob.consumed = 0 /\ NewJob.out = <<>>
        /\ ~NewJob.error /\ NewJob.dstFlushed = 0
    BY <1>1, NewJobFields
  <2>2. <<LastMark>> \in Seq(Token) /\ Len(<<LastMark>>) = 1
    BY Tokens
  <2> DEFINE a == [NewJob EXCEPT !.out = <<LastMark>>]  b == [NewJob EXCEPT !.error = TRUE]
  <2>3. /\ a \in JobRecord /\ a.frame = NewJob.frame /\ a.lo = NewJob.lo /\ a.size = 0
        /\ a.consumed = 0 /\ a.out = <<LastMark>> /\ a.needSum = NewJob.needSum
        /\ a.set /\ a.jobID = nextJobID /\ a.dstFlushed = 0
    BY <2>1, <2>2 DEF JobRecord
  <2>4. /\ b \in JobRecord /\ b.frame = NewJob.frame /\ b.lo = NewJob.lo /\ b.size = 0
        /\ b.consumed = 0 /\ b.out = <<>> /\ b.needSum = NewJob.needSum
        /\ b.set /\ b.jobID = nextJobID /\ b.dstFlushed = 0
    BY <2>1 DEF JobRecord
  <2> HIDE DEF a, b
  <2>5. /\ NewJob.needSum \in BOOLEAN /\ NewJob.lo \in Nat /\ NewJob.frame \in Nat
        /\ NewJob.frame <= frame /\ NewJob.lo + NewJob.size <= MaxInput
    BY <2>1, JobFields DEF JobBound
  <2>6. JobBound(a, frame) /\ a.dstFlushed <= Len(a.out)
    BY <2>1, <2>2, <2>3, <2>5, ConstantTypes DEF JobBound, Flag
  <2>7. JobBound(b, frame) /\ b.dstFlushed <= Len(b.out)
    BY <2>1, <2>4, <2>5, ConstantTypes DEF JobBound, Flag
  <2>8. k = a \/ k = b
    BY DEF a, b
  <2> HIDE DEF k
  <2> QED BY <2>1, <2>3, <2>4, <2>6, <2>7, <2>8
<1> HIDE DEF k
<1>5. jobs' \in [Slots -> JobRecord] /\ jobs'[o] = k
      /\ \A s \in Slots : s # o => jobs'[s] = jobs[s]
  BY <1>2, <1>3, <1>4 DEF Types
<1>6. /\ inBuff' \in [set : BOOLEAN, filled : Nat] /\ inBuff'.filled = 0
      /\ frameEnded' \in BOOLEAN /\ checksumFlag' \in BOOLEAN
  BY <1>1 DEF PrepareJob, NoInput, Types
<1>7. Bounds'
  BY <1>1, <1>4, <1>5, <1>6, ConstantTypes DEF Bounds, frameVars
<1>8. Types'
  <2>1. nextJobID' \in Nat
    BY <1>1, <1>3
  <2> QED BY <1>1, <1>2, <1>5, <1>6, <2>1 DEF Types, poolVars, workerVars, frameVars
<1>9. Stages'
  <2>1. ~allJobsCompleted /\ taken \in Nat
    BY <1>1 DEF Stages, Types
  <2> QED BY <1>1, <1>3, <1>6, <2>1 DEF Stages, frameVars
<1> QED BY <1>1, <1>4, <1>5, <1>7, <1>8, <1>9, PostedInv DEF poolVars

-----------------------------------------------------------------------------
\* The application thread flushes the oldest job.

\* The names Flush gives to what it computes.
FlushOut == IF Complete(Current) /\ Current.needSum
            THEN Append(Current.out, HashOf(serial.hashed)) ELSE Current.out
FlushEnd == IF FlushOut = <<>> THEN Current.dstFlushed
            ELSE Current.dstFlushed + Smallest(Len(FlushOut) - Current.dstFlushed, call.room)
FlushOver == Complete(Current) /\ FlushOut # <<>> /\ FlushEnd = Len(FlushOut)
FlushDone == IF FlushOver THEN doneJobID + 1 ELSE doneJobID
FlushTold == FlushResult([Current EXCEPT !.out = FlushOut, !.dstFlushed = FlushEnd], FlushDone)
FlushedJob == [Current EXCEPT !.out = IF FlushOver THEN <<>> ELSE FlushOut,
                              !.dstFlushed = FlushEnd,
                              !.needSum = @ /\ ~Complete(Current)]

LEMMA FlushStep ==
  ASSUME Flush
  PROVE  /\ mpc = "flush" /\ ~Current.error /\ mpc' = "idle" /\ call' = NoCall
         /\ jobs' = [jobs EXCEPT ![Slot(doneJobID)] = FlushedJob]
         /\ given' = given \o SubSeq(FlushOut, Current.dstFlushed + 1, FlushEnd)
         /\ doneJobID' = FlushDone
         /\ allJobsCompleted' = IF FlushTold = "clean" THEN frameEnded ELSE allJobsCompleted
         /\ ret' = IF \/ FlushTold = "more" \/ call.left > 0
                      \/ call.op = "end" /\ ~frameEnded
                   THEN "more" ELSE "clean"
         /\ status' = IF ret' = "clean" /\ frameEnded THEN "ended" ELSE status
         /\ UNCHANGED <<nextJobID, jobReady, frameEnded, checksumFlag, inBuff, serial,
                        poolVars, workerVars, frame, failures, taken, want>>
BY Zenon DEF Flush, FlushOut, FlushEnd, FlushOver, FlushDone, FlushTold, FlushedJob

\* The current slot is that of a job posted, or there is none and nothing to do.
LEMMA FlushCurrent ==
  ASSUME IInv, Flush
  PROVE  /\ Slot(doneJobID) \in Slots /\ Current \in JobRecord /\ FlushOut \in Seq(Token)
         /\ Len(FlushOut) \in Nat /\ Len(Current.out) \in Nat
         /\ Current.dstFlushed <= FlushEnd /\ FlushEnd \in Nat
         /\ Len(FlushOut) = IF Complete(Current) /\ Current.needSum
                            THEN Len(Current.out) + 1 ELSE Len(Current.out)
         /\ doneJobID < nextJobID => FlushEnd <= Len(FlushOut)
         /\ doneJobID = nextJobID =>
              /\ FlushOut = <<>> /\ FlushEnd = Current.dstFlushed
              /\ Current.needSum => ~Complete(Current)
<1> USE DEF IInv
<1> DEFINE c == Slot(doneJobID)  j == jobs[c]
<1>1. /\ doneJobID \in Nat /\ nextJobID \in Nat /\ doneJobID <= nextJobID /\ c \in Slots
      /\ status = "open" /\ mpc = "flush" /\ call.room \in Nat
  BY FlushStep, SlotInTable DEF Types, Placed, Stages
<1>2. j \in JobRecord /\ j.out \in Seq(Token) /\ Len(j.out) \in Nat /\ j.dstFlushed \in Nat
      /\ j.needSum \in BOOLEAN
  BY <1>1, JobFields DEF Types
<1>3. HashOf(serial.hashed) \in Token
  BY SerialFields, Tokens, ConstantTypes DEF Corrupt
<1> HIDE DEF j
<1>4. /\ FlushOut \in Seq(Token) /\ Len(FlushOut) \in Nat
      /\ Len(FlushOut) = IF Complete(j) /\ j.needSum THEN Len(j.out) + 1 ELSE Len(j.out)
  BY <1>2, <1>3 DEF FlushOut, Current, j
<1>5. doneJobID < nextJobID => j.dstFlushed <= Len(j.out)
  BY <1>1 DEF Placed, j
<1>6. doneJobID = nextJobID =>
        /\ FlushOut = <<>> /\ FlushEnd = j.dstFlushed /\ (j.needSum => ~Complete(j))
  <2> SUFFICES ASSUME doneJobID = nextJobID
               PROVE  /\ FlushOut = <<>> /\ FlushEnd = j.dstFlushed
                      /\ (j.needSum => ~Complete(j))
    OBVIOUS
  <2>1. c \in Slots \ Pending
    BY <1>1, NoneBetween DEF Pending
  <2>2. j.out = <<>> /\ (j.needSum => jobReady)
    BY <1>1, <2>1 DEF Spare, j
  <2>3. j.needSum => ~Complete(j)
    <3>1. j.size \in Nat
      BY <1>2, JobFields
    <3> QED BY <1>1, <2>2, <3>1 DEF Ready, Fresh, Complete, j
  <2>4. FlushOut = <<>>
    BY <2>2, <2>3 DEF FlushOut, Current, j
  <2> QED BY <2>3, <2>4 DEF FlushEnd, Current, j
<1>7. /\ j.dstFlushed <= FlushEnd /\ FlushEnd \in Nat
      /\ doneJobID < nextJobID => FlushEnd <= Len(FlushOut)
  <2> DEFINE n == FlushEnd  l == Len(FlushOut)  d == j.dstFlushed
  <2>1. n = IF FlushOut = <<>> THEN d ELSE IF l - d < call.room THEN l ELSE d + call.room
    BY <1>2, <1>4 DEF FlushEnd, Current, Smallest, j
  <2>2. CASE doneJobID = nextJobID
    <3>1. FlushEnd = j.dstFlushed /\ ~(doneJobID < nextJobID)
      BY <1>1, <1>6, <2>2
    <3>2. j.dstFlushed \in Nat /\ j.dstFlushed <= j.dstFlushed
      BY <1>2
    <3> QED BY <3>1, <3>2
  <2>3. CASE doneJobID # nextJobID
    <3>1. d <= l
      BY <1>1, <1>2, <1>4, <1>5, <2>3
    <3> HIDE DEF n, l, d
    <3>2. CASE FlushOut = <<>>
      BY <1>2, <2>1, <3>1, <3>2 DEF n, l, d
    <3>3. CASE FlushOut # <<>>
      <4>1. n = IF l - d < call.room THEN l ELSE d + call.room
        BY <2>1, <3>3
      <4>2. l \in Nat /\ d \in Nat
        BY <1>2, <1>4 DEF l, d
      <4>3. d <= n /\ n \in Nat /\ n <= l
        BY <1>1, <3>1, <4>1, <4>2
      <4> QED BY <4>3 DEF n, l, d
    <3> QED BY <3>2, <3>3
  <2> QED BY <1>1, <2>2, <2>3
<1> QED BY <1>1, <1>2, <1>4, <1>6, <1>7 DEF Current, j

LEMMA FlushTypes == IInv /\ Flush => Types'
<1> SUFFICES ASSUME IInv, Flush PROVE Types'
  OBVIOUS
<1> USE DEF IInv
<1> DEFINE c == Slot(doneJobID)
<1>1. /\ c \in Slots /\ Current \in JobRecord /\ FlushOut \in Seq(Token)
      /\ FlushEnd \in Nat /\ Current.dstFlushed \in Nat
  BY FlushCurrent, JobFields
<1>2. FlushedJob \in JobRecord
  <2> DEFINE out == IF FlushOver THEN <<>> ELSE FlushOut
             sum == Current.needSum /\ ~Complete(Current)
             a == [Current EXCEPT !.out = out]
             b == [a EXCEPT !.dstFlushed = FlushEnd]
  <2>1. out \in Seq(Token) /\ sum \in BOOLEAN
    BY <1>1, JobFields
  <2> HIDE DEF out, sum
  <2>2. a \in JobRecord /\ a.needSum = Current.needSum
    BY <1>1, <2>1 DEF JobRecord
  <2> HIDE DEF a
  <2>3. b \in JobRecord /\ b.needSum = Current.needSum
    BY <1>1, <2>2 DEF JobRecord
  <2> HIDE DEF b
  <2>4. [b EXCEPT !.needSum = sum] \in JobRecord
    BY <2>1, <2>3 DEF JobRecord
  <2>5. FlushedJob = [b EXCEPT !.needSum = sum]
    BY DEF FlushedJob, a, b, out, sum
  <2> QED BY <2>4, <2>5
<1>3. jobs' \in [Slots -> JobRecord]
  BY <1>1, <1>2, FlushStep DEF Types
<1>4. given' \in Seq(Token)
  <2>1. SubSeq(FlushOut, Current.dstFlushed + 1, FlushEnd) \in Seq(Token)
    <3>1. CASE doneJobID < nextJobID
      <4>1. FlushEnd <= Len(FlushOut)
        BY <3>1, FlushCurrent
      <4> QED BY <1>1, <4>1
    <3>2. CASE ~(doneJobID < nextJobID)
      <4>0. doneJobID \in Nat /\ nextJobID \in Nat
        BY DEF Types
      <4>1. doneJobID = nextJobID
        <5>1. doneJobID <= nextJobID
          BY DEF Placed
        <5> HIDE DEF IInv
        <5> QED BY <3>2, <4>0, <5>1
      <4>2. FlushEnd < Current.dstFlushed + 1
        BY <1>1, <4>1, FlushCurrent
      <4> QED BY <1>1, <4>2
    <3> QED BY <3>1, <3>2
  <2>2. given \in Seq(Token)
    BY DEF Types
  <2>3. given' = given \o SubSeq(FlushOut, Current.dstFlushed + 1, FlushEnd)
    BY FlushStep
  <2> HIDE DEF IInv
  <2> QED BY <2>1, <2>2, <2>3, Concat
<1>5. doneJobID' \in Nat
  BY FlushStep DEF FlushDone, Types
<1>6. call' \in [op : {"none", "continue", "flush", "end"}, left : Nat,
                 room : Nat, progress : BOOLEAN]
  <2>1. NoCall \in [op : {"none", "continue", "flush", "end"}, left : Nat,
                    room : Nat, progress : BOOLEAN]
    BY DEF NoCall
  <2>2. call' = NoCall
    BY FlushStep
  <2> QED BY <2>1, <2>2
<1>7. /\ allJobsCompleted' \in BOOLEAN /\ ret' \in {"none", "more", "clean", "error"}
      /\ status' \in {"none", "open", "ended", "failed"} /\ mpc' = "idle"
  BY FlushStep DEF Types
<1>8. UNCHANGED <<nextJobID, jobReady, frameEnded, checksumFlag, inBuff, serial,
                  poolVars, workerVars, frame, failures, taken, want>>
  BY FlushStep
<1> QED BY <1>3, <1>4, <1>5, <1>6, <1>7, <1>8 DEF Types, poolVars, workerVars

\* What becomes of the job being flushed.
LEMMA FlushedFields ==
  ASSUME IInv, Flush
  PROVE  LET j == Current  k == FlushedJob IN
         /\ k.set = j.set /\ k.frame = j.frame /\ k.jobID = j.jobID /\ k.lo = j.lo
         /\ k.size = j.size /\ k.last = j.last /\ k.checksum = j.checksum
         /\ k.consumed = j.consumed /\ k.error = j.error
         /\ k.out = IF FlushOver THEN <<>> ELSE FlushOut
         /\ k.dstFlushed = FlushEnd /\ k.needSum = (j.needSum /\ ~Complete(j))
         /\ ~Complete(j) => k.out = j.out /\ k.needSum = j.needSum /\ ~FlushOver
         /\ JobBound(k, frame)
<1> USE DEF IInv
<1> DEFINE j == Current  k == FlushedJob
<1>1. /\ j \in JobRecord /\ j.needSum \in BOOLEAN /\ j.size \in Nat
  BY FlushCurrent, JobFields
<1> HIDE DEF j
<1>2. /\ k.set = j.set /\ k.frame = j.frame /\ k.jobID = j.jobID /\ k.lo = j.lo
      /\ k.size = j.size /\ k.last = j.last /\ k.checksum = j.checksum
      /\ k.consumed = j.consumed /\ k.error = j.error
      /\ k.out = IF FlushOver THEN <<>> ELSE FlushOut
      /\ k.dstFlushed = FlushEnd /\ k.needSum = (j.needSum /\ ~Complete(j))
  BY <1>1 DEF FlushedJob, JobRecord, j
<1> HIDE DEF k
<1>3. ~Complete(j) => k.out = j.out /\ k.needSum = j.needSum /\ ~FlushOver
  BY <1>1, <1>2 DEF FlushOut, FlushOver, j
<1>4. JobBound(k, frame)
  <2>1. JobBound(j, frame)
    BY FlushCurrent DEF Bounds, Current, j
  <2>2. Len(k.out) + Flag(k.needSum) <= Len(j.out) + Flag(j.needSum)
    <3>1. /\ Len(FlushOut) = IF Complete(j) /\ j.needSum THEN Len(j.out) + 1 ELSE Len(j.out)
          /\ Len(j.out) \in Nat
      BY FlushCurrent DEF j
    <3>2. Len(k.out) = 0 \/ Len(k.out) = Len(FlushOut)
      BY <1>2
    <3> DEFINE a == Len(k.out)  b == Len(j.out)  l == Len(FlushOut)
    <3> HIDE DEF a, b, l
    <3>3. CASE Complete(j) /\ j.needSum
      <4>1. Flag(k.needSum) = 0 /\ Flag(j.needSum) = 1
        BY <1>2, <3>3 DEF Flag
      <4>2. l = b + 1 /\ b \in Nat /\ (a = 0 \/ a = l)
        BY <3>1, <3>2, <3>3 DEF a, b, l
      <4>3. a + 0 <= b + 1
        BY <4>2
      <4> QED BY <4>1, <4>3 DEF a, b
    <3>4. CASE ~(Complete(j) /\ j.needSum)
      <4>1. Flag(k.needSum) = Flag(j.needSum) /\ Flag(j.needSum) \in 0 .. 1
        BY <1>1, <1>2, <3>4 DEF Flag
      <4>2. l = b /\ b \in Nat /\ (a = 0 \/ a = l)
        BY <3>1, <3>2, <3>4 DEF a, b, l
      <4>3. \A f \in 0 .. 1 : a + f <= b + f
        BY <4>2
      <4> QED BY <4>1, <4>3 DEF a, b
    <3> QED BY <3>3, <3>4
  <2>3. /\ Len(k.out) \in Nat /\ Len(j.out) \in Nat
        /\ Flag(k.needSum) \in Nat /\ Flag(j.needSum) \in Nat
    BY <1>2, FlushCurrent DEF Flag, j
  <2> QED BY <1>1, <1>2, <2>1, <2>2, <2>3 DEF JobBound
<1> QED BY <1>2, <1>3, <1>4 DEF j, k

LEMMA FlushAnswer ==
  /\ FlushTold \in {"more", "clean"}
  /\ FlushTold = "clean" => ~(FlushDone < nextJobID) /\ ~jobReady /\ ~(inBuff.filled > 0)
BY DEF FlushTold, FlushResult

LEMMA FlushInv == IInv /\ Flush => IInv'
<1> SUFFICES ASSUME IInv, Flush PROVE IInv'
  OBVIOUS
<1> USE DEF IInv
<1> DEFINE c == Slot(doneJobID)  j == Current  k == FlushedJob
<1>1. /\ doneJobID \in Nat /\ nextJobID \in Nat /\ doneJobID <= nextJobID /\ c \in Slots
      /\ nextJobID <= doneJobID + NbSlots /\ NbSlots \in Nat /\ NbSlots > 0
      /\ status = "open" /\ mpc = "flush" /\ mpc' = "idle" /\ ~j.error
      /\ j = jobs[c] /\ j.size \in Nat /\ j.consumed \in Nat
      /\ Slot(nextJobID) \in Slots
  BY FlushStep, FlushCurrent, JobFields, SlotInTable, ConstantTypes
     DEF Types, Placed, Stages, Current
<1>2. /\ UNCHANGED <<nextJobID, jobReady, frameEnded, inBuff, serial, queued, nbBusy,
                     wpc, wjob, wchunk, wname, frame, taken>>
      /\ doneJobID' = IF FlushOver THEN doneJobID + 1 ELSE doneJobID
      /\ (status' = "ended" /\ ~jobReady) \/ status' = "open"
  BY <1>1, FlushStep, FlushAnswer DEF FlushDone, poolVars, workerVars
<1>3. Types'
  BY FlushTypes
<1>4. jobs'[c] = k /\ \A s \in Slots : s # c => jobs'[s] = jobs[s]
  BY <1>1, FlushStep DEF Types
<1>5. /\ k.set = j.set /\ k.frame = j.frame /\ k.jobID = j.jobID /\ k.size = j.size
      /\ k.consumed = j.consumed /\ k.error = j.error /\ ~k.error /\ JobBound(k, frame)
      /\ k.out = IF FlushOver THEN <<>> ELSE FlushOut
      /\ k.dstFlushed = FlushEnd
      /\ ~Complete(j) => k.out = j.out /\ k.needSum = j.needSum /\ ~FlushOver
      /\ Complete(j) => ~k.needSum
  BY <1>1, FlushedFields
<1>6. FlushOver => /\ doneJobID < nextJobID /\ Complete(j)
  BY <1>1, FlushCurrent DEF FlushOver
<1> HIDE DEF k
<1>7. Fresh(j) => Fresh(k) /\ ~Complete(j)
  <2> SUFFICES ASSUME Fresh(j) PROVE Fresh(k) /\ ~Complete(j)
    OBVIOUS
  <2>1. ~Complete(j) /\ FlushOut = <<>> /\ FlushEnd = 0
    BY <1>1 DEF Fresh, Complete, FlushOut, FlushEnd
  <2> QED BY <1>5, <2>1 DEF Fresh
<1>8. ASSUME NEW s \in Slots, Fresh(jobs[s])
      PROVE  Fresh(jobs'[s])
  BY <1>1, <1>4, <1>7, <1>8
<1>9. ASSUME NEW s \in Slots
      PROVE  /\ jobs'[s].set = jobs[s].set /\ jobs'[s].frame = jobs[s].frame
             /\ jobs'[s].jobID = jobs[s].jobID /\ jobs'[s].size = jobs[s].size
             /\ jobs'[s].consumed = jobs[s].consumed
             /\ jobs[s].consumed # jobs[s].size =>
                  jobs'[s].out = jobs[s].out /\ jobs'[s].needSum = jobs[s].needSum
                  /\ jobs'[s].error = jobs[s].error
  <2>1. CASE s # c
    BY <1>4, <2>1
  <2>2. CASE s = c
    <3>1. jobs'[s] = k /\ jobs[s] = j
      BY <1>1, <1>4, <2>2
    <3>2. j.consumed # j.size => ~Complete(j)
      BY DEF Complete
    <3> HIDE DEF j
    <3> QED BY <1>1, <1>5, <3>1, <3>2
  <2> QED BY <2>1, <2>2
<1> HIDE DEF c, j
<1>10. Pending' = IF FlushOver THEN Pending \ {c} ELSE Pending
  <2>1. CASE ~FlushOver
    BY <1>2, <2>1 DEF Pending
  <2>2. CASE FlushOver
    <3>1. Pending' = {Slot(id) : id \in doneJobID + 1 .. nextJobID - 1}
      BY <1>2, <2>2 DEF Pending
    <3>2. doneJobID \in doneJobID .. nextJobID - 1
      BY <1>1, <1>6, <2>2
    <3>3. \A id \in doneJobID + 1 .. nextJobID - 1 : Slot(id) # c
      <4>1. \A id \in doneJobID + 1 .. nextJobID - 1 :
              id \in doneJobID .. nextJobID - 1 /\ id # doneJobID
        BY <1>1
      <4> QED BY <3>2, <4>1, PendingDistinct DEF c
    <3>4. \A id \in doneJobID .. nextJobID - 1 :
            id = doneJobID \/ id \in doneJobID + 1 .. nextJobID - 1
      BY <1>1
    <3>5. \A id \in doneJobID + 1 .. nextJobID - 1 : id \in doneJobID .. nextJobID - 1
      BY <1>1
    <3> QED BY <2>2, <3>1, <3>3, <3>4, <3>5 DEF Pending, c
  <2> QED BY <2>1, <2>2
<1>11. Bounds'
  BY <1>2, <1>4, <1>5 DEF Bounds
<1>12. Stages'
  <2>1. allJobsCompleted' => doneJobID' = nextJobID /\ (status' = "open" => frameEnded /\ ~jobReady)
    <3>1. CASE FlushTold = "clean"
      <4>1. ~(doneJobID' < nextJobID) /\ ~jobReady /\ (allJobsCompleted' => frameEnded)
        BY <3>1, FlushStep, FlushAnswer
      <4> QED BY <1>1, <1>2, <1>6, <4>1
    <3>2. CASE FlushTold # "clean"
      <4>1. allJobsCompleted' = allJobsCompleted
        BY <3>2, FlushStep
      <4> QED BY <1>1, <1>2, <1>6, <4>1 DEF Stages
    <3> QED BY <3>1, <3>2
  <2> QED BY <1>1, <1>2, <2>1 DEF Stages
<1>13. Placed'
  <2>1. doneJobID' <= nextJobID' /\ nextJobID' <= doneJobID' + NbSlots
    BY <1>1, <1>2, <1>6
  <2>2. ASSUME NEW id \in doneJobID' .. nextJobID - 1
        PROVE  LET i == jobs'[Slot(id)] IN
               /\ i.set /\ i.jobID = id /\ i.frame = frame /\ i.dstFlushed <= Len(i.out)
    <3>1. id \in doneJobID .. nextJobID - 1 /\ id \in Nat /\ Slot(id) \in Slots
      BY <1>1, <1>2, SlotInTable
    <3>2. LET i == jobs[Slot(id)] IN
          /\ i.set /\ i.jobID = id /\ i.frame = frame /\ i.dstFlushed <= Len(i.out)
      BY <1>1, <3>1 DEF Placed
    <3>3. CASE Slot(id) = c
      <4>1. ~FlushOver
        <5>1. Slot(id) \in Pending'
          BY <1>2, <2>2 DEF Pending
        <5> QED BY <1>10, <3>3, <5>1
      <4>2. FlushEnd <= Len(FlushOut)
        BY <1>1, <3>1, FlushCurrent
      <4> QED BY <1>4, <1>1, <1>5, <1>9, <3>1, <3>2, <3>3, <4>1, <4>2
    <3>4. CASE Slot(id) # c
      BY <1>4, <3>1, <3>2, <3>4
    <3> QED BY <3>3, <3>4
  <2> QED BY <1>2, <2>1, <2>2 DEF Placed
<1>14. Ready'
  <2> SUFFICES ASSUME status' = "open", jobReady PROVE Ready'
    BY <1>2 DEF Ready
  <2>1. /\ nextJobID < doneJobID + NbSlots
        /\ LET i == jobs[Slot(nextJobID)] IN
           i.set /\ i.jobID = nextJobID /\ i.frame = frame /\ Fresh(i)
    BY <1>1 DEF Ready
  <2>2. nextJobID < doneJobID' + NbSlots
    BY <1>1, <1>2, <2>1
  <2>3. LET i == jobs'[Slot(nextJobID)] IN
        i.set /\ i.jobID = nextJobID /\ i.frame = frame /\ Fresh(i)
    BY <1>1, <1>8, <1>9, <2>1
  <2> QED BY <1>2, <2>2, <2>3 DEF Ready, Fresh
<1>15. Spare'
  <2> SUFFICES ASSUME NEW s \in Slots \ Pending'
               PROVE  /\ jobs'[s].out = <<>> /\ ~jobs'[s].error
                      /\ jobs'[s].needSum => status' = "open" /\ jobReady /\ s = Slot(nextJobID)
    BY <1>2 DEF Spare
  <2>1. CASE s \notin Pending
    <3>1. /\ jobs[s].out = <<>> /\ ~jobs[s].error
          /\ jobs[s].needSum => jobReady /\ s = Slot(nextJobID)
      BY <2>1 DEF Spare
    <3>2. CASE s = c
      <4>1. doneJobID = nextJobID
        BY <1>1, <2>1, <3>2 DEF Pending, c
      <4>2. FlushOut = <<>> /\ ~FlushOver
        BY <4>1, FlushCurrent DEF FlushOver
      <4>3. k.out = <<>> /\ ~k.error /\ (k.needSum => j.needSum)
        BY <1>5, <4>2
      <4> QED BY <1>1, <1>2, <1>4, <3>1, <3>2, <4>3
    <3>3. CASE s # c
      BY <1>2, <1>4, <3>1, <3>3
    <3> QED BY <3>2, <3>3
  <2>2. CASE s \in Pending
    <3>1. FlushOver /\ s = c
      BY <1>10, <2>2
    <3> QED BY <1>4, <1>5, <1>6, <3>1
  <2> QED BY <2>1, <2>2
<1>16. ASSUME NEW s \in Pending, jobs[s].consumed # jobs[s].size
       PROVE  s \in Pending' /\ s \in Slots
  BY <1>1, <1>6, <1>10, <1>16, PendingJob DEF Complete
<1>17. Queue'
  <2> SUFFICES ASSUME queued # NoSlot PROVE queued \in Pending' /\ Fresh(jobs'[queued])
    BY <1>2 DEF Queue, Fresh
  <2>1. queued \in Pending /\ Fresh(jobs[queued]) /\ queued \in Slots
    BY PendingJob DEF Queue
  <2>2. jobs[queued].consumed # jobs[queued].size
    <3>1. jobs[queued].size \in Nat
      BY <2>1, JobFields DEF Types
    <3> QED BY <2>1, <3>1 DEF Fresh
  <2> QED BY <1>8, <1>16, <2>1, <2>2
<1>18. Working'
  <2> SUFFICES ASSUME NEW w \in Workers, Active(w)
               PROVE  /\ wjob[w] \in Pending' /\ wjob[w] # queued
                      /\ wname[w] = <<Job(w)'.frame, Job(w)'.jobID>>
                      /\ Job(w)'.consumed < Job(w)'.size /\ wchunk[w] < Job(w)'.size
                      /\ Progress(w, Job(w))'
    BY <1>2 DEF Working, Active
  <2>1. /\ wjob[w] \in Pending /\ wjob[w] # queued
        /\ wname[w] = <<Job(w).frame, Job(w).jobID>>
        /\ Job(w).consumed < Job(w).size /\ wchunk[w] < Job(w).size
        /\ Progress(w, Job(w))
    BY DEF Working
  <2>2. wjob[w] \in Slots /\ Job(w).consumed \in Nat /\ Job(w).size \in Nat
    BY <2>1, PendingJob, JobFields DEF Job, Types
  <2>3. Job(w).consumed # Job(w).size
    BY <2>1, <2>2
  <2>4. Job(w)' = jobs'[wjob[w]] /\ Job(w) = jobs[wjob[w]]
    BY <1>2 DEF Job
  <2>5. wjob[w] \in Pending'
    BY <1>16, <2>1, <2>3, <2>4
  <2>6. Progress(w, Job(w))'
    BY <1>2, <1>8, <1>9, <2>1, <2>2, <2>3, <2>4 DEF Progress
  <2> QED BY <1>9, <2>1, <2>2, <2>4, <2>5, <2>6
<1>19. Exclusive' /\ Busy'
  BY <1>2 DEF Exclusive, Busy, Active
<1> QED BY <1>3, <1>11, <1>12, <1>13, <1>14, <1>15, <1>17, <1>18, <1>19

-----------------------------------------------------------------------------
\* Every step, and what follows.

LEMMA NextInv == PlainUse /\ IInv /\ [Next]_vars => IInv'
<1> SUFFICES ASSUME PlainUse, IInv, [Next]_vars PROVE IInv'
  OBVIOUS
<1>1. CASE StartFrame
  BY <1>1, StartFrameInv
<1>2. CASE CallStream
  BY <1>2, CallNoInputInv, FillInputInv, FillRefusedInv DEF CallStream
<1>3. CASE MainStep
  <2>1. CASE InitNewFrame \/ ResetCStream
    <3>1. checksumFlag \in BOOLEAN /\ want \in BOOLEAN
      BY DEF IInv, Types
    <3> QED BY <2>1, <3>1, InitCStreamInv DEF InitNewFrame, ResetCStream
  <2>2. CASE CreateNothing \/ FlushSleep \/ FlushError
    BY <2>2, MoveOnInv
  <2>3. CASE CreateJob \/ PostReadyJob \/ CreateLastEmptyBlock
    BY <2>3, CreateJobInv, PostReadyJobInv, CreateLastEmptyBlockInv
  <2>4. CASE FailFrame \/ Flush
    BY <2>4, FailFrameInv, FlushInv
  <2> QED BY <1>3, <2>1, <2>2, <2>3, <2>4 DEF MainStep
<1>4. CASE \E w \in Workers : WorkerStep(w)
  BY <1>4, TakeJobInv, BeginJobInv, FailJobInv, SerialSleepInv, SerialTurnInv,
     CompressChunkInv, CompressLastInv, EnsureFinishedInv, ReportJobInv, UnbusyInv
     DEF WorkerStep
<1>5. CASE UNCHANGED vars
  <2>1. Types' /\ Bounds' /\ Stages'
    BY <1>5 DEF IInv, Types, Bounds, Stages, vars, mainVars, poolVars, workerVars,
                callVars, frameVars
  <2>2. Placed' /\ Ready' /\ Spare' /\ Queue' /\ Working' /\ Exclusive' /\ Busy'
    BY <1>5 DEF IInv, Placed, Ready, Spare, Queue, Working, Exclusive, Busy, Fresh, Pending,
                Active, Progress, Job, vars, mainVars, poolVars, workerVars, callVars, frameVars
  <2> QED BY <2>1, <2>2 DEF IInv
<1> QED BY <1>1, <1>2, <1>3, <1>4, <1>5 DEF Next, Quiet

LEMMA Invariance == PlainUse => (Spec => []IInv)
<1> SUFFICES ASSUME PlainUse PROVE Spec => []IInv
  OBVIOUS
<1>1. IInv /\ [Next]_vars => IInv'
  BY NextInv
<1> QED BY <1>1, InitInv, PTL DEF Spec

\* Every field of every variable has its type, a job never reads past its input
\* and its output never exceeds its buffer (the frame's header, end mark and
\* checksum included).
THEOREM TypeCorrect == PlainUse => (Spec => []TypeOK)
<1> SUFFICES ASSUME PlainUse PROVE Spec => []TypeOK
  OBVIOUS
<1>1. IInv => TypeOK
  <2> SUFFICES ASSUME IInv PROVE TypeOK
    OBVIOUS
  <2> USE DEF IInv
  <2>1. ASSUME NEW s \in Slots
        PROVE  LET j == jobs[s] IN
               /\ j.jobID \in Nat /\ j.frame \in 0 .. frame
               /\ j.lo \in 0 .. MaxInput /\ j.size \in 0 .. TargetSize
               /\ j.consumed \in 0 .. j.size
               /\ Len(j.out) <= j.size + 3
               /\ {j.set, j.last, j.checksum, j.error, j.needSum} \subseteq BOOLEAN
    <3> DEFINE j == jobs[s]
    <3>1. j \in JobRecord /\ JobBound(j, frame)
      BY DEF Types, Bounds
    <3> HIDE DEF j
    <3>2. /\ j.jobID \in Nat /\ j.frame \in Nat /\ j.lo \in Nat /\ j.size \in Nat
          /\ j.consumed \in Nat /\ Len(j.out) \in Nat
          /\ {j.set, j.last, j.checksum, j.error, j.needSum} \subseteq BOOLEAN
      BY <3>1, JobFields
    <3>3. Flag(j.needSum) \in Nat
      BY DEF Flag
    <3>4. /\ j.frame \in 0 .. frame /\ j.lo \in 0 .. MaxInput /\ j.size \in 0 .. TargetSize
          /\ j.consumed \in 0 .. j.size
          /\ Len(j.out) <= j.size + 3
      <4>1. Len(j.out) <= j.size + 3
        BY <3>1, <3>2, <3>3 DEF JobBound
      <4>2. j.frame <= frame /\ j.lo <= MaxInput /\ j.size <= TargetSize /\ j.consumed <= j.size
        BY <3>1, <3>2, ConstantTypes DEF JobBound
      <4>3. frame \in Nat
        BY DEF Types
      <4> QED BY <3>2, <4>1, <4>2, <4>3, ConstantTypes
    <3> QED BY <3>2, <3>4 DEF j
  <2>2. inBuff.filled \in 0 .. TargetSize /\ inBuff.set \in BOOLEAN /\ DOMAIN jobs = Slots
    BY DEF Types, Bounds
  <2>3. serial.hashed \in 0 .. Corrupt
    BY SerialFields
  <2>4. nbBusy \in 0 .. Cardinality(Workers)
    <3>1. Cardinality({w \in Workers : wpc[w] # "idle"}) <= Cardinality(Workers)
      BY ConstantTypes, FS_Subset
    <3>2. Cardinality(Workers) \in Nat
      BY ConstantTypes, FS_CardinalityType
    <3> QED BY <3>1, <3>2 DEF Busy, Types
  <2>5. ASSUME NEW w \in Workers
        PROVE  /\ wpc[w] \in {"idle", "begin", "serial", "asleep", "compress", "finish",
                              "report", "unbusy"}
               /\ wjob[w] \in Slots \cup {NoSlot}
    BY DEF Types, WorkerStage
  <2>6. {jobReady, frameEnded, allJobsCompleted, checksumFlag, inBuff.set} \subseteq BOOLEAN
    BY <2>2 DEF Types
  <2> QED BY <2>1, <2>2, <2>3, <2>4, <2>5, <2>6 DEF TypeOK, Types, Placed
<1> QED BY <1>1, Invariance, PTL

\* The application thread neither recycles the slot of a job a worker holds nor
\* moves past that job: what ZSTDMT_compressionJob assumes of job->... from its
\* first line to its last.
THEOREM OwnJob == PlainUse => (Spec => []WorkerOwnsJob)
<1> SUFFICES ASSUME PlainUse PROVE Spec => []WorkerOwnsJob
  OBVIOUS
<1>1. IInv => WorkerOwnsJob
  <2> SUFFICES ASSUME IInv, NEW w \in Workers, Active(w)
               PROVE  /\ Job(w).set
                      /\ wname[w] = <<Job(w).frame, Job(w).jobID>>
                      /\ Job(w).frame = frame \/ mpc = "init"
                      /\ doneJobID <= Job(w).jobID
    BY DEF WorkerOwnsJob
  <2>1. wjob[w] \in Pending /\ wname[w] = <<Job(w).frame, Job(w).jobID>>
    BY DEF IInv, Working
  <2>2. /\ Job(w).set /\ (Job(w).frame = frame \/ mpc = "init")
        /\ Job(w).jobID \in doneJobID .. nextJobID - 1
    BY <2>1, PendingJob DEF IInv, Job
  <2> QED BY <2>1, <2>2 DEF IInv, Types
<1> QED BY <1>1, Invariance, PTL

\* "job completed -> worker no longer active": ZSTDMT_flushProduced may write to
\* a job, and the next frame clear the table, without taking the job's mutex.
THEOREM CompletedInactive == PlainUse => (Spec => []CompletedMeansInactive)
<1> SUFFICES ASSUME PlainUse PROVE Spec => []CompletedMeansInactive
  OBVIOUS
<1>1. IInv => CompletedMeansInactive
  <2> SUFFICES ASSUME IInv, NEW w \in Workers, Active(w)
               PROVE  Job(w).consumed # Job(w).size
    BY DEF CompletedMeansInactive, Complete
  <2>1. wjob[w] \in Pending /\ Job(w).consumed < Job(w).size
    BY DEF IInv, Working
  <2>2. Job(w).size \in Nat
    BY <2>1, PendingJob, JobFields DEF IInv, Job, Types
  <2> QED BY <2>1, <2>2
<1> QED BY <1>1, Invariance, PTL

\* ZSTDMT_serialState_ensureFinished passes over a job's turn only if that job
\* failed, as its assertion says.
THEOREM SkippedFailed == PlainUse => (Spec => []SkippedOnlyOnError)
<1> SUFFICES ASSUME PlainUse PROVE Spec => []SkippedOnlyOnError
  OBVIOUS
<1>1. IInv => SkippedOnlyOnError
  <2> SUFFICES ASSUME IInv, NEW w \in Workers, wpc[w] = "finish",
                      serial.nextJobID <= Job(w).jobID
               PROVE  Job(w).error
    BY DEF SkippedOnlyOnError
  <2>1. wjob[w] \in Pending /\ (serial.nextJobID > Job(w).jobID \/ Job(w).error)
    BY DEF IInv, Working, Active, Progress
  <2>2. Job(w).jobID \in Nat /\ serial.nextJobID \in Nat
    BY <2>1, PendingJob, JobFields, SerialFields DEF IInv, Job, Types
  <2> QED BY <2>1, <2>2
<1> QED BY <1>1, Invariance, PTL

=============================================================================
