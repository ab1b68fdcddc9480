---------------------------- MODULE RoundBuffer ----------------------------
(***************************************************************************)
(* zstdmt_compress.c, the round input buffer: one application thread fills *)
(* the next section while the workers still read the sections, and the     *)
(* prefixes before them, of the jobs they were given.                      *)
(* ZSTDMT_tryGetInputRange looks only at the earliest job that is not      *)
(* complete, once, before it copies and before it waits for the long       *)
(* distance matcher (LDM).                                                 *)
(*                                                                         *)
(* mem holds, at every address, the position in the frame's input of the   *)
(* byte stored there (0: none of them), so reading an overwritten byte     *)
(* shows.  A prepared job waiting for a worker keeps the application       *)
(* thread from filling, so a job is prepared and posted in one step here.  *)
(***************************************************************************)
EXTENDS Integers, FiniteSets

CONSTANTS
  NbWorkers,     \* params.nbWorkers, at least 1
  NbSlots,       \* size of the job table
  Target,        \* targetSectionSize
  TargetPrefix,  \* targetPrefixSize, 1 << ZSTDMT_computeOverlapLog()
  WindowSizes,   \* 1 << windowLog if LDM is enabled, 0 if it is not
  HashReadSize,  \* an LDM segment smaller than that is forgotten
  MaxInput,      \* bound: bytes of input per frame
  MaxFailures    \* bound: jobs that fail

ASSUME RoundAssumption ==
  /\ NbWorkers \in Nat \ {0} /\ NbSlots \in Nat \ {0}
  /\ Target \in Nat \ {0} /\ TargetPrefix \in 1 .. Target
  /\ WindowSizes \subseteq Nat
  /\ {HashReadSize, MaxInput, MaxFailures} \subseteq Nat

VARIABLES
  windowSize,            \* of params, fixed for the context
  mem, pos,              \* roundBuff.buffer, roundBuff.pos
  have, filled,          \* inBuff.buffer.start # NULL, inBuff.filled
  prefixStart, prefixSize,       \* inBuff.prefix
  jobs,                  \* the jobs from doneJobID to nextJobID - 1
  doneJobID, nextJobID, frameEnded,
  inUse,                 \* the local variable of ZSTDMT_tryGetInputRange
  mpc,                   \* application thread: where it stands in that function
  serialNext,            \* serial.nextJobID
  ldmState, ldmWindow,   \* serial.ldmState.window, and its published copy
  taken, failures        \* bytes accepted in this frame; jobs that failed

inVars     == <<windowSize, mem, pos, have, filled, prefixStart, prefixSize>>
jobVars    == <<jobs, doneJobID, nextJobID, frameEnded>>
serialVars == <<serialNext, ldmState, ldmWindow>>
vars == <<inVars, jobVars, inUse, mpc, serialVars, taken, failures>>

Larger(a, b)  == IF a > b THEN a ELSE b
Smaller(a, b) == IF a < b THEN a ELSE b

\* Mutant: one section of slack less.
CapacityTight == Larger(windowSize, Target * NbWorkers) + 2 * Target

\* The sections the workers read, or the window, and three sections of slack.
Capacity == Larger(windowSize, Target * NbWorkers) + 3 * Target

Span(start, size) == [start |-> start, size |-> size]
NullRange == Span(0, 0)
EndOf(r) == r.start + r.size

EmptyWindow == [ext |-> NullRange, pre |-> NullRange]

Init ==
  /\ windowSize \in WindowSizes
  /\ mem = [a \in 0 .. Capacity - 1 |-> 0] /\ pos = 0
  /\ have = FALSE /\ filled = 0
  /\ prefixStart = 0 /\ prefixSize = 0
  /\ jobs = [id \in {} |-> 0]
  /\ doneJobID = 0 /\ nextJobID = 0 /\ frameEnded = FALSE
  /\ inUse = NullRange /\ mpc = "fill"
  /\ serialNext = 0 /\ ldmState = EmptyWindow /\ ldmWindow = EmptyWindow
  /\ taken = 0 /\ failures = 0

-----------------------------------------------------------------------------
\* The jobs and what they read.

Posted == doneJobID .. nextJobID - 1
Incomplete(id) == jobs[id].state \notin {"complete", "failed"}
Running == {id \in Posted : Incomplete(id)}

\* Mutant: the prefix of a job is not protected.
UsedSource(j) == Span(j.start, j.size)

\* What ZSTDMT_getInputDataInUse returns for a job: where its data begins.
Used(j) == IF j.psize > 0 THEN Span(j.start - j.psize, j.psize)
                          ELSE Span(j.start, j.size)

IsOverlapped(a, b) ==
  a.size > 0 /\ b.size > 0 /\ a.start < EndOf(b) /\ b.start < EndOf(a)

\* Mutant: only the older segment of the window is respected.
LdmSegmentComplete(r) == windowSize = 0 \/ ~IsOverlapped(r, ldmWindow.ext)

\* ZSTDMT_doesOverlapWindow and ZSTDMT_waitForLdmComplete.
LdmComplete(r) ==
  windowSize = 0 \/ ~(IsOverlapped(r, ldmWindow.ext) \/ IsOverlapped(r, ldmWindow.pre))

-----------------------------------------------------------------------------
\* ZSTDMT_tryGetInputRange.  A refusal leaves everything as it is, but the
\* prefix may have been moved already.

NextRange == Span(pos, Target)
PrefixCopy == Span(0, prefixSize)
MustWrapLate == Capacity - pos < Target - 1      \* mutant: off by one
MustWrap == Capacity - pos < Target

Ask(range) ==
  /\ mpc = "fill" /\ ~have /\ ~frameEnded /\ taken < MaxInput
  /\ inUse' = range
  /\ IF MustWrap
     THEN ~IsOverlapped(PrefixCopy, range) /\ mpc' = "wrap"
     ELSE ~IsOverlapped(NextRange, range) /\ mpc' = "grant"
  /\ UNCHANGED <<inVars, jobVars, serialVars, taken, failures>>

\* ZSTDMT_getInputDataInUse: the earliest job that is not complete.
GetInputRange ==
  \/ Running = {} /\ Ask(NullRange)
  \/ \E id \in Running : (\A k \in Running : id <= k) /\ Ask(Used(jobs[id]))

\* Mutant: the next section is not placed after the copy.
WrapAroundToStart ==
  /\ mpc = "wrap" /\ LdmComplete(PrefixCopy)
  /\ mem' = [a \in 0 .. Capacity - 1 |->
               IF a < prefixSize THEN mem[prefixStart + a] ELSE mem[a]]
  /\ prefixStart' = 0 /\ pos' = 0
  /\ mpc' = "place"
  /\ UNCHANGED <<windowSize, have, filled, prefixSize, jobVars, inUse, serialVars,
                 taken, failures>>

\* The prefix is copied to the beginning of the buffer.
WrapAround ==
  /\ mpc = "wrap" /\ LdmComplete(PrefixCopy)
  /\ mem' = [a \in 0 .. Capacity - 1 |->
               IF a < prefixSize THEN mem[prefixStart + a] ELSE mem[a]]
  /\ prefixStart' = 0 /\ pos' = prefixSize
  /\ mpc' = "place"
  /\ UNCHANGED <<windowSize, have, filled, prefixSize, jobVars, inUse, serialVars,
                 taken, failures>>

PlaceAfterPrefix ==
  /\ mpc = "place"
  /\ mpc' = IF IsOverlapped(NextRange, inUse) THEN "fill" ELSE "grant"
  /\ inUse' = NullRange
  /\ UNCHANGED <<inVars, jobVars, serialVars, taken, failures>>

GrantRange ==
  /\ mpc = "grant" /\ LdmComplete(NextRange)
  /\ have' = TRUE /\ filled' = 0
  /\ mpc' = "fill" /\ inUse' = NullRange
  /\ UNCHANGED <<windowSize, mem, pos, prefixStart, prefixSize, jobVars,
                 serialVars, taken, failures>>

-----------------------------------------------------------------------------
\* ZSTDMT_compressStream_generic copies n bytes of input.
Fill(n) ==
  /\ mpc = "fill" /\ have /\ filled + n <= Target /\ taken + n <= MaxInput
  /\ mem' = [a \in 0 .. Capacity - 1 |->
               IF a \in pos + filled .. pos + filled + n - 1
               THEN taken + 1 + (a - (pos + filled)) ELSE mem[a]]
  /\ filled' = filled + n /\ taken' = taken + n
  /\ UNCHANGED <<windowSize, pos, have, prefixStart, prefixSize, jobVars, inUse, mpc,
                 serialVars, failures>>

\* ZSTDMT_createCompressionJob for the bytes filled, all of a section or what a
\* flush cut off; the end of that job is the prefix of the next.
NewPrefix == Smaller(filled, TargetPrefix)

CreateJob(endFrame) ==
  /\ mpc = "fill" /\ have /\ filled > 0
  /\ nextJobID < doneJobID + NbSlots /\ Cardinality(Running) < NbWorkers
  /\ jobs' = [id \in doneJobID .. nextJobID |->
                IF id = nextJobID
                THEN [start |-> pos, size |-> filled, psize |-> prefixSize,
                      lo |-> taken - filled, state |-> "posted"]
                ELSE jobs[id]]
  /\ nextJobID' = nextJobID + 1
  /\ pos' = pos + filled /\ have' = FALSE /\ filled' = 0
  /\ IF endFrame THEN prefixStart' = 0 /\ prefixSize' = 0
                 ELSE /\ prefixStart' = pos + filled - NewPrefix
                      /\ prefixSize' = NewPrefix
  /\ frameEnded' = endFrame
  /\ UNCHANGED <<windowSize, mem, doneJobID, inUse, mpc, serialVars, taken, failures>>

\* A frame ended by an empty block: no section is needed any more.  The job of
\* that block reads nothing, so it takes no place in jobs here.
EndWithoutInput ==
  /\ mpc = "fill" /\ filled = 0 /\ nextJobID > 0 /\ ~frameEnded
  /\ have' = FALSE /\ prefixStart' = 0 /\ prefixSize' = 0
  /\ frameEnded' = TRUE
  /\ UNCHANGED <<windowSize, mem, pos, filled, jobs, doneJobID, nextJobID, inUse, mpc,
                 serialVars, taken, failures>>

\* ZSTDMT_flushProduced: the oldest job is complete and entirely flushed.
RetireJob ==
  /\ mpc = "fill" /\ doneJobID < nextJobID /\ jobs[doneJobID].state = "complete"
  /\ doneJobID' = doneJobID + 1
  /\ jobs' = [id \in doneJobID + 1 .. nextJobID - 1 |-> jobs[id]]
  /\ UNCHANGED <<inVars, nextJobID, frameEnded, inUse, mpc, serialVars,
                 taken, failures>>

\* ZSTDMT_initCStream_internal: the jobs of the frame before are waited for.
\* It is also what follows the error of a failed job.  What the last frame left
\* in the buffer is no input of this one.
InitCStream ==
  /\ mpc = "fill" /\ Running = {}
  /\ pos' = 0 /\ have' = FALSE /\ filled' = 0
  /\ prefixStart' = 0 /\ prefixSize' = 0
  /\ jobs' = [id \in {} |-> 0]
  /\ doneJobID' = 0 /\ nextJobID' = 0 /\ frameEnded' = FALSE
  /\ serialNext' = 0 /\ ldmState' = EmptyWindow /\ ldmWindow' = EmptyWindow
  /\ mem' = [a \in 0 .. Capacity - 1 |-> 0] /\ taken' = 0
  /\ inUse' = NullRange
  /\ UNCHANGED <<windowSize, mpc, failures>>

-----------------------------------------------------------------------------
\* The LDM window: the current segment and the one before it.

\* ZSTD1_window_update: a section that does not follow the last one begins a
\* new segment, and memory reused by the section leaves the older segment.
Append2(w, src) ==
  IF src.start = EndOf(w.pre)
  THEN [w EXCEPT !.pre.size = @ + src.size]
  ELSE [ext |-> IF w.pre.size < HashReadSize THEN NullRange ELSE w.pre,
        pre |-> src]

Reduce(w, src) ==
  IF IsOverlapped(w.ext, src)
  THEN LET low == Smaller(EndOf(src), EndOf(w.ext))
       IN [w EXCEPT !.ext = Span(low, EndOf(w.ext) - low)]
  ELSE w

KeepLast(r, n) == IF r.size <= n THEN r ELSE Span(EndOf(r) - n, n)

\* ZSTD1_window_enforceMaxDist
EnforceMaxDist(w) ==
  [pre |-> KeepLast(w.pre, windowSize),
   ext |-> KeepLast(w.ext, Larger(0, windowSize - w.pre.size))]

WindowAfter(w, src) == EnforceMaxDist(Reduce(Append2(w, src), src))

\* ZSTD1_window_clear
Cleared(w) == [ext |-> NullRange, pre |-> Span(EndOf(w.pre), 0)]

-----------------------------------------------------------------------------
\* The workers, ZSTDMT_compressionJob.

SetState(id, state) == jobs' = [jobs EXCEPT ![id].state = state]

\* ZSTDMT_serialState_update; a later job that failed may have skipped this one.
SerialTurn(id) ==
  /\ jobs[id].state = "posted" /\ serialNext >= id
  /\ LET w == WindowAfter(ldmState, Span(jobs[id].start, jobs[id].size)) IN
       IF serialNext = id /\ windowSize > 0
       THEN ldmState' = w /\ ldmWindow' = w
       ELSE UNCHANGED <<ldmState, ldmWindow>>
  /\ serialNext' = serialNext + 1
  /\ SetState(id, "hashed")
  /\ UNCHANGED <<inVars, doneJobID, nextJobID, frameEnded, inUse, mpc,
                 taken, failures>>

\* The job fails, before its turn or after; ZSTDMT_serialState_ensureFinished.
FailJob(id) ==
  /\ jobs[id].state \in {"posted", "hashed"} /\ failures < MaxFailures
  /\ IF serialNext <= id
     THEN serialNext' = id + 1 /\ ldmWindow' = Cleared(ldmWindow)
     ELSE UNCHANGED <<serialNext, ldmWindow>>
  /\ SetState(id, "failing") /\ failures' = failures + 1
  /\ UNCHANGED <<inVars, doneJobID, nextJobID, frameEnded, inUse, mpc, ldmState,
                 taken>>

\* consumed = src.size: the worker reads no more, and nobody asks again where.
Over(state) == [start |-> 0, size |-> 0, psize |-> 0, lo |-> 0, state |-> state]

ReportJob(id) ==
  /\ \/ jobs[id].state = "hashed" /\ jobs' = [jobs EXCEPT ![id] = Over("complete")]
     \/ jobs[id].state = "failing" /\ jobs' = [jobs EXCEPT ![id] = Over("failed")]
  /\ UNCHANGED <<inVars, doneJobID, nextJobID, frameEnded, inUse, mpc, serialVars,
                 taken, failures>>

WorkerStep == \E id \in Posted : SerialTurn(id) \/ FailJob(id) \/ ReportJob(id)

RangeStep == WrapAround \/ PlaceAfterPrefix \/ GrantRange

CallStep ==
  \/ \E n \in 1 .. Target : Fill(n)
  \/ \E endFrame \in BOOLEAN : CreateJob(endFrame)
  \/ EndWithoutInput \/ RetireJob \/ InitCStream

\* The error of a failed job is noticed by the flush that ends a call, sooner or
\* later; the application may leave off between two calls.
Quiet == mpc = "fill" /\ Running = {} /\ UNCHANGED vars

Next == GetInputRange \/ RangeStep \/ CallStep \/ WorkerStep \/ Quiet

Spec == Init /\ [][Next]_vars

-----------------------------------------------------------------------------
\* Properties

Byte == 0 .. MaxInput

TypeOK ==
  /\ windowSize \in WindowSizes
  /\ mem \in [0 .. Capacity - 1 -> Byte]
  /\ pos \in 0 .. Capacity /\ filled \in 0 .. Target
  /\ have \in BOOLEAN /\ frameEnded \in BOOLEAN
  /\ prefixStart \in 0 .. Capacity /\ prefixSize \in 0 .. TargetPrefix
  /\ doneJobID \in Nat /\ nextJobID \in Nat /\ doneJobID <= nextJobID
  /\ jobs \in [Posted -> [start : 0 .. Capacity, size : 0 .. Target,
                          psize : 0 .. TargetPrefix, lo : 0 .. MaxInput,
                          state : {"posted", "hashed", "failing", "complete", "failed"}]]
  /\ inUse \in [start : 0 .. Capacity, size : 0 .. Target]
  /\ mpc \in {"fill", "wrap", "place", "grant"}
  /\ serialNext \in Nat
  /\ taken \in 0 .. MaxInput /\ failures \in 0 .. MaxFailures

\* A worker never reads a byte that was overwritten: the section of a job that
\* is not complete, and the prefix before it, are the bytes of the input they
\* were when the job was made, in one piece and in order.
InputIntact ==
  \A id \in Posted : Incomplete(id) =>
    LET j == jobs[id] IN
    /\ j.psize <= j.start /\ j.start + j.size <= Capacity /\ j.psize <= j.lo
    /\ \A k \in 1 .. j.psize + j.size :
         mem[j.start - j.psize + k - 1] = j.lo - j.psize + k

\* The section being filled is whole, and does not run over its own prefix:
\* the assertions of ZSTDMT_tryGetInputRange.
SectionFits ==
  have => /\ pos + Target <= Capacity
          /\ ~IsOverlapped(NextRange, Span(prefixStart, prefixSize))
          /\ prefixSize > 0 => prefixStart + prefixSize = pos

\* Without failures, the published LDM window holds the input that was hashed
\* last, up to windowSize bytes: nothing in it was overwritten since.
LdmHistoryIntact ==
  LET e == ldmWindow.ext  p == ldmWindow.pre
      all == e.size + p.size
      hashed == IF p.size = 0 THEN 0 ELSE mem[EndOf(p) - 1]
  IN failures = 0 =>
       \A k \in 1 .. all :
         mem[IF k <= e.size THEN e.start + k - 1 ELSE p.start + (k - e.size) - 1]
           = hashed - all + k

\* Whoever waits for the LDM waits for a job that will move the window on: "This
\* is the minimum slack that LDM works with" (ZSTDMT_initCStream_internal).
LdmSlackEnough ==
  /\ (mpc = "wrap" /\ ~LdmComplete(PrefixCopy)) => Running # {}
  /\ (mpc = "grant" /\ ~LdmComplete(NextRange)) => Running # {}

\* As long as no job fails, ZSTDMT_tryGetInputRange is never left waiting for
\* the LDM when no job is left to move its window.
LdmWaitServed == failures = 0 => LdmSlackEnough
=============================================================================
