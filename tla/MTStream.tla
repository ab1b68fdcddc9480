------------------------------ MODULE MTStream ------------------------------
(***************************************************************************)
(* zstdmt_compress.c, the streaming path: one application thread cuts its  *)
(* input into jobs, posts them to the pool, and flushes their output in    *)
(* order; worker threads compress them (ZSTDMT_compressionJob) and take    *)
(* turns in the serial state that hashes the input.                        *)
(*                                                                         *)
(* Sizes are counted in chunks, the unit in which a worker reports its     *)
(* progress; compressed data is a sequence of tokens (MTFrame).  A         *)
(* critical section under job_mutex, serial.mutex or queueMutex is one     *)
(* action, and so is a plain access to a shared job field.  Sleeping on    *)
(* serial.cond, and on job_cond while there is nothing to flush, is        *)
(* explicit, so a missing signal would show.                               *)
(*                                                                         *)
(* Left to other modules: where the input lies in the round buffer and     *)
(* when ZSTDMT_tryGetInputRange refuses (RoundBuffer); the pool's queue    *)
(* (ThreadPool); the one-pass ZSTDMT_compress_advanced_internal.           *)
(***************************************************************************)
EXTENDS MTFrame, FiniteSets

CONSTANTS
  Workers,       \* the pool's threads
  NbSlots,       \* size of the job table, a power of two
  TargetSize,    \* targetSectionSize: a job has at most that many chunks
  Rooms,         \* room the caller leaves in `output`, in tokens
  MaxInput,      \* bound: chunks of input per frame
  MaxFrames,     \* bound: frames started
  MaxFailures,   \* bound: failing allocations and compressions
  Uses           \* what the caller does besides plain streaming:
                 \* "emptyFrame" ends a frame before giving it any input,
                 \* "dropReady" abandons a frame whose prepared job waits,
                 \* "resetSum" starts a frame with ZSTDMT_resetCStream after
                 \* one that had a checksum

ASSUME StreamAssumption ==
  /\ Workers # {} /\ IsFiniteSet(Workers)
  /\ NbSlots \in {2, 4, 8, 16, 32, 64, 128, 256, 512, 1024}
  /\ NbSlots > Cardinality(Workers) + 2
  /\ TargetSize \in Nat \ {0} /\ Rooms \subseteq Nat
  /\ {MaxInput, MaxFrames, MaxFailures} \subseteq Nat
  /\ Uses \subseteq {"emptyFrame", "dropReady", "resetSum"}

VARIABLES
  jobs,             \* the job table, by slot
  doneJobID, nextJobID, jobReady, frameEnded, allJobsCompleted,
  checksumFlag,     \* params.fParams.checksumFlag
  inBuff,           \* [set, filled]: the section being filled
  serial,           \* [nextJobID, checksum, hashed]: the serial state
  queued, nbBusy,   \* the pool: the slot waiting for a thread, busy threads
  wpc, wjob, wchunk,      \* each worker: position, slot, chunks compressed
  wname,            \* history: the job a worker took, <<frame, jobID>>
  mpc, call, ret,   \* application thread: position, current call, last result
  frame, failures   \* history: frames started, failures injected

mainVars   == <<doneJobID, nextJobID, jobReady, frameEnded,
                allJobsCompleted, checksumFlag, inBuff>>
poolVars   == <<queued, nbBusy>>
workerVars == <<wpc, wjob, wchunk, wname>>
callVars   == <<mpc, call, ret>>
vars == <<jobs, mainVars, serial, poolVars, workerVars, callVars,
          frame, failures, frameVars>>

Slots   == 0 .. NbSlots - 1
Slot(id) == id % NbSlots              \* jobID & jobIDMask
NoSlot  == NbSlots
Corrupt == MaxInput + 1               \* the hash of anything else

\* memset(jobs, 0): a slot that holds no job.
ZeroJob ==
  [set |-> FALSE, frame |-> 0, jobID |-> 0, lo |-> 0, size |-> 0, last |-> FALSE,
   checksum |-> FALSE, consumed |-> 0, out |-> <<>>, error |-> FALSE,
   dstFlushed |-> 0, needSum |-> FALSE]

NoCall == [op |-> "none", left |-> 0, room |-> 0, progress |-> FALSE]

Smallest(a, b) == IF a < b THEN a ELSE b

Complete(j) == j.consumed = j.size
Current == jobs[Slot(doneJobID)]
Pending == {Slot(id) : id \in doneJobID .. nextJobID - 1}

Init ==
  /\ jobs = [s \in Slots |-> ZeroJob]
  /\ doneJobID = 0 /\ nextJobID = 0
  /\ jobReady = FALSE /\ frameEnded = FALSE /\ allJobsCompleted = TRUE
  /\ checksumFlag = FALSE
  /\ inBuff = [set |-> FALSE, filled |-> 0]
  /\ serial = [nextJobID |-> 0, checksum |-> FALSE, hashed |-> 0]
  /\ queued = NoSlot /\ nbBusy = 0
  /\ wpc = [w \in Workers |-> "idle"]
  /\ wjob = [w \in Workers |-> NoSlot]
  /\ wchunk = [w \in Workers |-> 0]
  /\ wname = [w \in Workers |-> <<0, 0>>]
  /\ mpc = "idle" /\ call = NoCall /\ ret = "none"
  /\ frame = 0 /\ failures = 0
  /\ FrameInit

-----------------------------------------------------------------------------
\* Shared: waking the sleepers, giving the job table back.

\* Mutant: the signal is forgotten.
SignalJobLost(s) == UNCHANGED mpc

\* pthread_cond_signal(&job->job_cond): only the application thread sleeps on
\* it, and only on the slot of doneJobID.
SignalJob(s) ==
  mpc' = IF mpc = "asleep" /\ s = Slot(doneJobID) THEN "flush" ELSE mpc

\* pthread_cond_broadcast(&serialState->cond), as w moves to `next`.
BroadcastSerial(w, next) ==
  wpc' = [v \in Workers |-> IF v = w THEN next
                            ELSE IF wpc[v] = "asleep" THEN "serial" ELSE wpc[v]]

\* ZSTDMT_waitForAllJobsCompleted: its loop ends when they all are.
OldestComplete == Pending # {} => Complete(Current)   \* mutant: waits for one
AllComplete == \A s \in Pending : Complete(jobs[s])

NoJobs == [s \in Slots |-> ZeroJob]
NoInput == [set |-> FALSE, filled |-> 0]

-----------------------------------------------------------------------------
\* ZSTDMT_initCStream_internal, with `sum` the checksum flag of its params.
\* Jobs of a frame that was not finished are waited for, then dropped.
\* Left out: the switch to a single blocking thread for a small pledged size,
\* which returns before that wait, and the returns for want of memory.
InitCStream(sum, asked) ==
  /\ mpc = "init"
  /\ allJobsCompleted \/ AllComplete
  /\ jobs' = IF allJobsCompleted THEN jobs ELSE NoJobs
  /\ checksumFlag' = sum
  /\ inBuff' = NoInput
  /\ doneJobID' = 0 /\ nextJobID' = 0
  /\ frameEnded' = FALSE /\ allJobsCompleted' = FALSE
  /\ serial' = [nextJobID |-> 0, checksum |-> sum, hashed |-> 0]
  /\ mpc' = "idle" /\ ret' = "none"
  /\ status' = "open" /\ taken' = 0 /\ given' = <<>> /\ want' = asked
  /\ UNCHANGED <<jobReady, poolVars, workerVars, call, frame, failures>>

StartFrame ==
  /\ mpc = "idle" /\ frame < MaxFrames
  /\ jobReady => "dropReady" \in Uses
  /\ mpc' = "init" /\ frame' = frame + 1
  /\ UNCHANGED <<jobs, mainVars, serial, poolVars, workerVars, call, ret,
                 failures, frameVars>>

InitNewFrame == \E sum \in BOOLEAN : InitCStream(sum, sum)

\* ZSTDMT_resetCStream keeps the parameters of the frame before.
ResetCStream ==
  /\ frame > 1 /\ (want => "resetSum" \in Uses)
  /\ InitCStream(checksumFlag, want)

\* A call of ZSTDMT_compressStream_generic offering `avail` chunks, or of
\* ZSTDMT_flushStream or ZSTDMT_endStream (avail = 0), on a frame that is open.
\* Once the frame was ended only flushing is allowed. The one-pass shortcut is
\* another function, and so is the stream of a single blocking thread.
CanCall(op, avail, room) ==
  /\ mpc = "idle" /\ status = "open"
  /\ frameEnded => op # "continue" /\ avail = 0
  /\ taken + avail = 0 /\ op = "end" => "emptyFrame" \in Uses
  /\ op = "end" /\ avail > 0 /\ nextJobID = 0 /\ inBuff.filled = 0 /\ ~jobReady
       => room < avail + 3

\* Of `avail` chunks `load` go to the section being filled: input left over
\* cannot be ended yet.
EnterCall(op, avail, room, load) ==
  LET left == avail - load IN
  /\ call' = [op |-> IF left > 0 /\ op = "end" /\ ~jobReady THEN "flush" ELSE op,
              left |-> left, room |-> room, progress |-> load > 0]
  /\ mpc' = "create"

LoadAll(avail) == avail                   \* mutant: the section overflows
Load(avail) == Smallest(avail, TargetSize - inBuff.filled)

FillInput(op, avail, room) ==
  /\ CanCall(op, avail, room) /\ ~jobReady /\ avail > 0
  /\ EnterCall(op, avail, room, Load(avail))
  /\ inBuff' = [set |-> TRUE, filled |-> inBuff.filled + Load(avail)]
  /\ taken' = taken + Load(avail)
  /\ UNCHANGED <<jobs, doneJobID, nextJobID, jobReady, frameEnded,
                 allJobsCompleted, checksumFlag, serial, poolVars, workerVars,
                 ret, frame, failures, given, want, status>>

\* A job already prepared must be posted first; or ZSTDMT_tryGetInputRange
\* refuses: the next section of the round buffer may still be in use while
\* some job is not complete.
FillRefused(op, avail, room) ==
  /\ CanCall(op, avail, room) /\ avail > 0
  /\ jobReady \/ (~inBuff.set /\ ~AllComplete)
  /\ EnterCall(op, avail, room, 0)
  /\ UNCHANGED <<jobs, mainVars, serial, poolVars, workerVars, ret,
                 frame, failures, frameVars>>

CallNoInput(op, room) ==
  /\ CanCall(op, 0, room)
  /\ EnterCall(op, 0, room, 0)
  /\ UNCHANGED <<jobs, mainVars, serial, poolVars, workerVars, ret,
                 frame, failures, frameVars>>

-----------------------------------------------------------------------------
\* ZSTDMT_createCompressionJob
TableFullLate == nextJobID > doneJobID + NbSlots    \* mutant: off by one
TableFull == nextJobID > doneJobID + (NbSlots - 1)

\* Mutant: nothing ends a frame whose input was all cut into jobs.
NeedsJobForInput ==
  \/ jobReady
  \/ inBuff.filled >= TargetSize
  \/ call.op # "continue" /\ inBuff.filled > 0

NeedsJob ==
  \/ jobReady
  \/ inBuff.filled >= TargetSize
  \/ call.op # "continue" /\ inBuff.filled > 0
  \/ call.op = "end" /\ ~frameEnded

\* The job made of the section just filled; it ends the frame if asked to.
JobFor(sumLater) ==
  [set |-> TRUE, frame |-> frame, jobID |-> nextJobID,
   lo |-> taken - inBuff.filled, size |-> inBuff.filled,
   last |-> call.op = "end", checksum |-> checksumFlag,
   consumed |-> 0, out |-> <<>>, error |-> FALSE, dstFlushed |-> 0,
   needSum |-> sumLater]

\* Mutant: a single job gets a second checksum.
NewJobAlwaysSum == JobFor(call.op = "end" /\ checksumFlag)
NewJob == JobFor(call.op = "end" /\ nextJobID > 0 /\ checksumFlag)

\* The section is handed over; a frame of a single job has its checksum
\* computed by the worker, so the shared parameters forget it.
PrepareJob ==
  /\ inBuff' = NoInput
  /\ frameEnded' = (frameEnded \/ call.op = "end")
  /\ checksumFlag' = (checksumFlag /\ ~(call.op = "end" /\ nextJobID = 0))

IsQueueFull == nbBusy = Cardinality(Workers) \/ queued # NoSlot

\* POOL_tryAdd posts the job, or it stays prepared until a worker is free.
PostJob ==
  IF IsQueueFull
  THEN jobReady' = TRUE /\ UNCHANGED <<queued, nextJobID>>
  ELSE /\ queued' = Slot(nextJobID)
       /\ nextJobID' = nextJobID + 1
       /\ jobReady' = FALSE

CreateNothing ==
  /\ mpc = "create" /\ (~NeedsJob \/ TableFull)
  /\ mpc' = "flush"
  /\ UNCHANGED <<jobs, mainVars, serial, poolVars, workerVars, call, ret,
                 frame, failures, frameVars>>

CreateJob ==
  /\ mpc = "create" /\ NeedsJob /\ ~TableFull
  /\ ~jobReady /\ (inBuff.filled > 0 \/ nextJobID = 0)
  /\ jobs' = [jobs EXCEPT ![Slot(nextJobID)] = NewJob]
  /\ PrepareJob
  /\ PostJob
  /\ mpc' = "flush"
  /\ UNCHANGED <<doneJobID, allJobsCompleted, serial, nbBusy, workerVars,
                 call, ret, frame, failures, frameVars>>

PostReadyJob ==
  /\ mpc = "create" /\ ~TableFull /\ jobReady
  /\ PostJob
  /\ mpc' = "flush"
  /\ UNCHANGED <<jobs, doneJobID, frameEnded, allJobsCompleted, checksumFlag,
                 inBuff, serial, nbBusy, workerVars, call, ret, frame,
                 failures, frameVars>>

\* ZSTDMT_writeLastEmptyBlock, run by the application thread itself; its
\* buffer may not be available.
CreateLastEmptyBlock ==
  /\ mpc = "create" /\ NeedsJob /\ ~TableFull
  /\ ~jobReady /\ inBuff.filled = 0 /\ nextJobID > 0
  /\ \/ /\ jobs' = [jobs EXCEPT ![Slot(nextJobID)] =
                      [NewJob EXCEPT !.out = <<LastMark>>]]
        /\ UNCHANGED failures
     \/ /\ failures < MaxFailures
        /\ jobs' = [jobs EXCEPT ![Slot(nextJobID)] = [NewJob EXCEPT !.error = TRUE]]
        /\ failures' = failures + 1
  /\ PrepareJob
  /\ nextJobID' = nextJobID + 1
  /\ mpc' = "flush"
  /\ UNCHANGED <<doneJobID, jobReady, allJobsCompleted, serial, poolVars,
                 workerVars, call, ret, frame, frameVars>>

-----------------------------------------------------------------------------
\* ZSTDMT_flushProduced on the oldest job not entirely flushed.
Block2Flush == ~call.progress /\ doneJobID < nextJobID

NothingYet ==
  LET j == Current IN
  Block2Flush /\ ~j.error /\ j.dstFlushed = Len(j.out) /\ ~Complete(j)

FlushSleep ==
  /\ mpc = "flush" /\ NothingYet
  /\ mpc' = "asleep"
  /\ UNCHANGED <<jobs, mainVars, serial, poolVars, workerVars, call, ret,
                 frame, failures, frameVars>>

FlushError ==
  /\ mpc = "flush" /\ Current.error
  /\ mpc' = "failing"
  /\ UNCHANGED <<jobs, mainVars, serial, poolVars, workerVars, call, ret,
                 frame, failures, frameVars>>

\* The error is returned once every job has stopped and was thrown away.
FailFrame ==
  /\ mpc = "failing" /\ AllComplete
  /\ doneJobID' = nextJobID
  /\ jobs' = NoJobs
  /\ inBuff' = NoInput
  /\ allJobsCompleted' = TRUE
  /\ mpc' = "idle" /\ call' = NoCall /\ ret' = "error"
  /\ status' = "failed"
  /\ UNCHANGED <<nextJobID, jobReady, frameEnded, checksumFlag, serial,
                 poolVars, workerVars, frame, failures, taken, given, want>>

\* Mutant: input not yet made into a job is forgotten.
FlushResultNoInput(j, done) ==
  IF \/ j.dstFlushed < Len(j.out) \/ ~Complete(j)
     \/ done < nextJobID \/ jobReady
  THEN "more" ELSE "clean"

\* What the caller is told: nothing left, or something left.
FlushResult(j, done) ==
  IF \/ j.dstFlushed < Len(j.out) \/ ~Complete(j)
     \/ done < nextJobID \/ jobReady \/ inBuff.filled > 0
  THEN "more" ELSE "clean"

\* Append the frame's checksum once the last job is complete, flush what fits,
\* give the slot back when everything of the job is out.
Flush ==
  /\ mpc = "flush" /\ ~Current.error /\ ~NothingYet
  /\ LET j    == Current
         out  == IF Complete(j) /\ j.needSum
                 THEN Append(j.out, HashOf(serial.hashed)) ELSE j.out
         n    == IF out = <<>> THEN j.dstFlushed
                 ELSE j.dstFlushed + Smallest(Len(out) - j.dstFlushed, call.room)
         over == Complete(j) /\ out # <<>> /\ n = Len(out)
         done == IF over THEN doneJobID + 1 ELSE doneJobID
         told == FlushResult([j EXCEPT !.out = out, !.dstFlushed = n], done)
     IN /\ jobs' = [jobs EXCEPT ![Slot(doneJobID)] =
                      [j EXCEPT !.out = IF over THEN <<>> ELSE out,
                                !.dstFlushed = n,
                                !.needSum = @ /\ ~Complete(j)]]
        /\ given' = given \o SubSeq(out, j.dstFlushed + 1, n)
        /\ doneJobID' = done
        /\ allJobsCompleted' = IF told = "clean" THEN frameEnded
                                                  ELSE allJobsCompleted
        /\ ret' = IF \/ told = "more" \/ call.left > 0
                     \/ call.op = "end" /\ ~frameEnded
                  THEN "more" ELSE "clean"
  /\ status' = IF ret' = "clean" /\ frameEnded THEN "ended" ELSE status
  /\ mpc' = "idle" /\ call' = NoCall
  /\ UNCHANGED <<nextJobID, jobReady, frameEnded, checksumFlag, inBuff, serial,
                 poolVars, workerVars, frame, failures, taken, want>>

-----------------------------------------------------------------------------
\* POOL_thread and ZSTDMT_compressionJob.  A worker reads the job where it lies
\* in the table, whatever the application thread did to the slot meanwhile.
Job(w) == jobs[wjob[w]]

SetJob(w, j) == jobs' = [jobs EXCEPT ![wjob[w]] = j]

TakeJob(w) ==
  /\ wpc[w] = "idle" /\ queued # NoSlot
  /\ wjob' = [wjob EXCEPT ![w] = queued]
  /\ wname' = [wname EXCEPT ![w] = <<jobs[queued].frame, jobs[queued].jobID>>]
  /\ wchunk' = [wchunk EXCEPT ![w] = 0]
  /\ queued' = NoSlot
  /\ nbBusy' = nbBusy + 1
  /\ wpc' = [wpc EXCEPT ![w] = "begin"]
  /\ UNCHANGED <<jobs, mainVars, serial, callVars, frame, failures, frameVars>>

\* The worker gets a context and a buffer and begins the compression.
BeginJob(w) ==
  /\ wpc[w] = "begin" /\ Job(w).set
  /\ wpc' = [wpc EXCEPT ![w] = "serial"]
  /\ UNCHANGED <<jobs, mainVars, serial, poolVars, wjob, wchunk, wname,
                 callVars, frame, failures, frameVars>>

\* No context, no buffer, or the compression fails: the job is over.
FailJob(w) ==
  /\ wpc[w] \in {"begin", "compress"} /\ Job(w).set /\ failures < MaxFailures
  /\ SetJob(w, [Job(w) EXCEPT !.error = TRUE])
  /\ failures' = failures + 1
  /\ wpc' = [wpc EXCEPT ![w] = "finish"]
  /\ UNCHANGED <<mainVars, serial, poolVars, wjob, wchunk, wname,
                 callVars, frame, frameVars>>

\* ZSTDMT_serialState_update: the jobs hash their input in turn.  A later job
\* that failed may have skipped this one's turn.
SerialSleep(w) ==
  /\ wpc[w] = "serial" /\ serial.nextJobID < Job(w).jobID
  /\ wpc' = [wpc EXCEPT ![w] = "asleep"]
  /\ UNCHANGED <<jobs, mainVars, serial, poolVars, wjob, wchunk, wname,
                 callVars, frame, failures, frameVars>>

Hash(j) ==
  IF serial.nextJobID = j.jobID /\ serial.checksum /\ j.size > 0
  THEN IF serial.hashed = j.lo THEN j.lo + j.size ELSE Corrupt
  ELSE serial.hashed

SerialTurn(w) ==
  /\ wpc[w] = "serial" /\ serial.nextJobID >= Job(w).jobID
  /\ serial' = [serial EXCEPT !.nextJobID = @ + 1, !.hashed = Hash(Job(w))]
  /\ BroadcastSerial(w, "compress")
  /\ UNCHANGED <<jobs, mainVars, poolVars, wjob, wchunk, wname, callVars,
                 frame, failures, frameVars>>

\* What compressing the next chunk appends to the job's output.
FrameHeader(j, i) ==
  IF j.jobID = 0 /\ i <= 1 THEN <<Header(j.checksum)>> ELSE <<>>
FrameEnd(j) ==
  <<LastMark>> \o (IF j.jobID = 0 /\ j.checksum THEN <<HashOf(j.lo + j.size)>> ELSE <<>>)

\* Every chunk but the last is reported as soon as it is compressed.
CompressChunk(w) ==
  /\ wpc[w] = "compress" /\ wchunk[w] + 1 < Job(w).size
  /\ LET i == wchunk[w] + 1  j == Job(w) IN
       /\ SetJob(w, [j EXCEPT !.out = @ \o FrameHeader(j, i) \o <<Block(j.lo + i)>>,
                              !.consumed = i])
       /\ wchunk' = [wchunk EXCEPT ![w] = i]
  /\ SignalJob(wjob[w])
  /\ UNCHANGED <<mainVars, serial, poolVars, wpc, wjob, wname, call, ret,
                 frame, failures, frameVars>>

\* Mutant: the last chunk is reported like the others.
CompressLastReported(w) ==
  /\ wpc[w] = "compress" /\ wchunk[w] + 1 >= Job(w).size
  /\ SetJob(w, [Job(w) EXCEPT !.consumed = Job(w).size])
  /\ SignalJob(wjob[w])
  /\ wpc' = [wpc EXCEPT ![w] = "finish"]
  /\ UNCHANGED <<mainVars, serial, poolVars, wjob, wchunk, wname, call, ret,
                 frame, failures, frameVars>>

\* The last chunk is not reported here, and nobody is woken: its input counts
\* as consumed only when the worker is done with the job.
CompressLast(w) ==
  /\ wpc[w] = "compress" /\ wchunk[w] + 1 >= Job(w).size
  /\ LET j == Job(w)
         i == j.size
         block == IF i > 0 THEN <<Block(j.lo + i)>> ELSE <<>>
         end == IF j.last THEN FrameEnd(j) ELSE <<>>
     IN SetJob(w, [j EXCEPT !.out = @ \o FrameHeader(j, i) \o block \o end])
  /\ wpc' = [wpc EXCEPT ![w] = "finish"]
  /\ UNCHANGED <<mainVars, serial, poolVars, wjob, wchunk, wname, callVars,
                 frame, failures, frameVars>>

\* Mutant: a failed job leaves its turn to nobody.
EnsureFinishedNot(w) ==
  /\ wpc[w] = "finish"
  /\ wpc' = [wpc EXCEPT ![w] = "report"]
  /\ UNCHANGED <<jobs, mainVars, serial, poolVars, wjob, wchunk, wname, callVars,
                 frame, failures, frameVars>>

\* Mutant: the turn is set without looking whether it has passed.
EnsureFinishedAlways(w) ==
  /\ wpc[w] = "finish"
  /\ serial' = [serial EXCEPT !.nextJobID = Job(w).jobID + 1]
  /\ BroadcastSerial(w, "report")
  /\ UNCHANGED <<jobs, mainVars, poolVars, wjob, wchunk, wname, callVars,
                 frame, failures, frameVars>>

\* ZSTDMT_serialState_ensureFinished: a job that failed before its turn must
\* not keep the later ones waiting.
EnsureFinished(w) ==
  /\ wpc[w] = "finish"
  /\ IF serial.nextJobID <= Job(w).jobID
     THEN /\ serial' = [serial EXCEPT !.nextJobID = Job(w).jobID + 1]
          /\ BroadcastSerial(w, "report")
     ELSE /\ wpc' = [wpc EXCEPT ![w] = "report"]
          /\ UNCHANGED serial
  /\ UNCHANGED <<jobs, mainVars, poolVars, wjob, wchunk, wname, callVars,
                 frame, failures, frameVars>>

ReportJob(w) ==
  /\ wpc[w] = "report"
  /\ SetJob(w, [Job(w) EXCEPT !.consumed = Job(w).size])
  /\ SignalJob(wjob[w])
  /\ wpc' = [wpc EXCEPT ![w] = "unbusy"]
  /\ UNCHANGED <<mainVars, serial, poolVars, wjob, wchunk, wname, call, ret,
                 frame, failures, frameVars>>

\* Back in POOL_thread: only now may the pool accept a job for this thread.
Unbusy(w) ==
  /\ wpc[w] = "unbusy"
  /\ nbBusy' = nbBusy - 1
  /\ wjob' = [wjob EXCEPT ![w] = NoSlot]
  /\ wchunk' = [wchunk EXCEPT ![w] = 0]
  /\ wname' = [wname EXCEPT ![w] = <<0, 0>>]
  /\ wpc' = [wpc EXCEPT ![w] = "idle"]
  /\ UNCHANGED <<jobs, mainVars, serial, queued, callVars, frame, failures,
                 frameVars>>

-----------------------------------------------------------------------------
WorkerStep(w) ==
  \/ TakeJob(w) \/ BeginJob(w) \/ FailJob(w) \/ SerialSleep(w) \/ SerialTurn(w)
  \/ CompressChunk(w) \/ CompressLast(w) \/ EnsureFinished(w) \/ ReportJob(w)
  \/ Unbusy(w)

\* Inside a call the application thread goes on by itself.
MainStep ==
  \/ InitNewFrame \/ ResetCStream
  \/ CreateNothing \/ CreateJob \/ PostReadyJob \/ CreateLastEmptyBlock
  \/ FlushSleep \/ FlushError \/ FailFrame \/ Flush

CallStream ==
  \E op \in {"continue", "flush", "end"}, room \in Rooms :
    \/ CallNoInput(op, room)
    \/ \E avail \in 1 .. MaxInput - taken :
         FillInput(op, avail, room) \/ FillRefused(op, avail, room)

\* The caller that wants the frame to end, and makes room for the output.
CallEnd == \E room \in Rooms \ {0} : CallNoInput("end", room)

\* Between calls the caller may stop for good.
Quiet == mpc = "idle" /\ (\A w \in Workers : wpc[w] = "idle") /\ UNCHANGED vars

Next ==
  \/ StartFrame
  \/ CallStream
  \/ MainStep
  \/ \E w \in Workers : WorkerStep(w)
  \/ Quiet

\* Threads run; a caller in a frame keeps asking for its end.
Fairness ==
  /\ WF_vars(MainStep)
  /\ \A w \in Workers : WF_vars(WorkerStep(w))
  /\ SF_vars(CallEnd)

Spec == Init /\ [][Next]_vars
FairSpec == Spec /\ Fairness

-----------------------------------------------------------------------------
\* Properties

TypeOK ==
  /\ DOMAIN jobs = Slots
  /\ \A s \in Slots :
       LET j == jobs[s] IN
       /\ j.jobID \in Nat /\ j.frame \in 0 .. frame
       /\ j.lo \in 0 .. MaxInput /\ j.size \in 0 .. TargetSize
       /\ j.consumed \in 0 .. j.size
       /\ Len(j.out) <= j.size + 3
       /\ {j.set, j.last, j.checksum, j.error, j.needSum} \subseteq BOOLEAN
  /\ doneJobID \in Nat /\ nextJobID \in Nat /\ doneJobID <= nextJobID
  /\ {jobReady, frameEnded, allJobsCompleted, checksumFlag, inBuff.set} \subseteq BOOLEAN
  /\ inBuff.filled \in 0 .. TargetSize
  /\ serial.hashed \in 0 .. Corrupt
  /\ queued \in Slots \cup {NoSlot} /\ nbBusy \in 0 .. Cardinality(Workers)
  /\ \A w \in Workers :
       /\ wpc[w] \in {"idle", "begin", "serial", "asleep", "compress", "finish",
                      "report", "unbusy"}
       /\ wjob[w] \in Slots \cup {NoSlot}
  /\ mpc \in {"idle", "init", "create", "flush", "asleep", "failing"}
  /\ ret \in {"none", "more", "clean", "error"}
  /\ status \in {"none", "open", "ended", "failed"}

\* The caller receives the encoding of its input: every block once, in order,
\* the end mark and the checksum of all the input where they belong, whatever
\* the order in which the workers finish, fail or are rescheduled.
EncodesInput == FrameSpec

Active(w) == wpc[w] \in {"begin", "serial", "asleep", "compress", "finish", "report"}

\* A worker's job stays where it was posted until the worker has reported it:
\* the application thread neither recycles the slot nor moves past the job.
WorkerOwnsJob ==
  \A w \in Workers : Active(w) =>
    /\ Job(w).set
    /\ wname[w] = <<Job(w).frame, Job(w).jobID>>
    /\ Job(w).frame = frame \/ mpc = "init"
    /\ doneJobID <= Job(w).jobID

\* "job completed -> worker no longer active", the ground on which
\* ZSTDMT_flushProduced writes to a job, and the next frame reuses the table,
\* without locking.
CompletedMeansInactive == \A w \in Workers : Active(w) => ~Complete(Job(w))

\* A job's turn in the serial state is skipped only because the job failed:
\* the assertion of ZSTDMT_serialState_ensureFinished.
SkippedOnlyOnError ==
  \A w \in Workers :
    wpc[w] = "finish" /\ serial.nextJobID <= Job(w).jobID => Job(w).error

\* 0 returned means everything accepted has been handed out, and that the whole
\* frame was if it was to end.
ZeroMeansFlushed ==
  ret = "clean" /\ mpc = "idle" =>
    /\ \A p \in 1 .. taken : \E i \in 1 .. Len(given) : given[i] = Block(p)
    /\ frameEnded => given = Encoding(taken, want)

\* A caller that keeps asking for the end of the frame it gave input to gets
\* it, or an error, unless it starts another frame.
FrameCompletes ==
  (status = "open" /\ taken > 0) ~> (status \in {"ended", "failed"} \/ mpc = "init")

\* No call blocks for ever, whatever fails meanwhile: there is a signal for
\* every sleep on job_cond, and the jobs that are waited for complete.
CallReturns == (mpc # "idle") ~> (mpc = "idle")

\* A worker that took a job gets rid of it: its turn comes even if an earlier
\* job failed.
JobCompletes ==
  \A w \in Workers : (wpc[w] = "begin") ~> (wpc[w] = "idle")
=============================================================================
