------------------------- MODULE RoundBufferProofs -------------------------
(***************************************************************************)
(* What is proved of RoundBuffer for every number of workers, every section*)
(* and prefix size and every capacity: no worker reads an overwritten byte *)
(* (InputIntact) and the section being filled is whole (SectionFits).      *)
(*                                                                         *)
(* ZSTDMT_tryGetInputRange looks at one job only.  The argument why that is*)
(* enough is Placement: a job that is not complete lies wholly behind the  *)
(* write position or wholly ahead of it, those ahead are older than those  *)
(* behind, and on either side the older lies lower.                        *)
(***************************************************************************)
EXTENDS RoundBuffer, TLAPS

\* Where the data a job reads begins and ends: its prefix, then its section.
Low(i)  == jobs[i].start - jobs[i].psize
High(i) == jobs[i].start + jobs[i].size

Behind(i) == High(i) <= pos
Ahead(i)  == pos <= Low(i)

\* A job was cut from a section that was whole.
Shape ==
  \A i \in Running :
    /\ jobs[i].size > 0
    /\ jobs[i].psize <= jobs[i].start
    /\ jobs[i].psize <= jobs[i].lo
    /\ jobs[i].start + Target <= Capacity

Placement ==
  /\ \A i \in Running : Behind(i) \/ Ahead(i)
  /\ \A i, k \in Running : i < k =>
       /\ Ahead(k) => Ahead(i)
       /\ (Ahead(i) <=> Ahead(k)) => Low(i) <= Low(k)
  /\ \A i \in Running : Behind(i) => Low(i) <= pos - prefixSize

\* What a job that is not complete has still to read.
JobContent ==
  \A i \in Running : \A k \in 1 .. jobs[i].psize + jobs[i].size :
    mem[Low(i) + k - 1] = jobs[i].lo - jobs[i].psize + k

\* The prefix of the next job, and the section being filled after it.
PrefixInv ==
  /\ prefixSize <= pos /\ prefixSize + filled <= taken
  /\ prefixSize > 0 => prefixStart + prefixSize = pos
  /\ \A k \in 1 .. prefixSize + filled :
       mem[pos - prefixSize + k - 1] = taken - filled - prefixSize + k

\* Nothing that is still read lies in the section at the write position.
SectionFree ==
  /\ pos + Target <= Capacity
  /\ \A i \in Running : Ahead(i) => pos + Target <= Low(i)

\* What is known of the jobs while the function stands at each of its waits.
RangeInv ==
  /\ mpc # "fill" => ~have
  /\ ~have => filled = 0
  /\ have \/ mpc = "grant" => SectionFree
  /\ mpc = "wrap" =>
       /\ MustWrap
       /\ inUse.size = 0 => Running = {}
       /\ inUse.size > 0 =>
            /\ prefixSize <= inUse.start
            /\ \A i \in Running : inUse.start <= Low(i)
  /\ mpc = "place" =>
       /\ pos = prefixSize
       /\ inUse.size = 0 => Running = {}
       /\ inUse.size > 0 =>
            /\ pos <= inUse.start
            /\ \A i \in Running : inUse.start <= Low(i)

IInv ==
  /\ TypeOK /\ Shape /\ Placement /\ JobContent /\ PrefixInv /\ RangeInv

-----------------------------------------------------------------------------
\* The constants, and the size of the buffer: a section fits after a prefix
\* at its beginning.
LEMMA Sizes ==
  ASSUME TypeOK
  PROVE  /\ Target \in Nat /\ Target > 0 /\ TargetPrefix \in Nat
         /\ TargetPrefix <= Target /\ MaxInput \in Nat
         /\ Capacity \in Nat /\ 2 * Target <= Capacity
<1>1. /\ Target \in Nat /\ Target > 0 /\ TargetPrefix \in Nat
      /\ TargetPrefix <= Target /\ MaxInput \in Nat /\ NbWorkers \in Nat
      /\ windowSize \in Nat
  BY RoundAssumption DEF TypeOK
<1>2. Target * NbWorkers \in Nat
  BY <1>1
<1>3. Larger(windowSize, Target * NbWorkers) \in Nat
  BY <1>1, <1>2 DEF Larger
<1> QED BY <1>1, <1>3 DEF Capacity

\* The scalars of the state, as numbers.
LEMMA Numbers ==
  ASSUME TypeOK
  PROVE  /\ pos \in Nat /\ pos <= Capacity /\ filled \in Nat /\ filled <= Target
         /\ prefixStart \in Nat /\ prefixStart <= Capacity
         /\ prefixSize \in Nat /\ prefixSize <= TargetPrefix
         /\ taken \in Nat /\ taken <= MaxInput
         /\ doneJobID \in Nat /\ nextJobID \in Nat /\ doneJobID <= nextJobID
         /\ inUse.start \in Nat /\ inUse.size \in Nat
BY Sizes DEF TypeOK

\* The numbers of a job.
LEMMA JobNumbers ==
  ASSUME TypeOK, NEW i \in Running
  PROVE  /\ i \in Posted /\ i \in Nat
         /\ jobs[i].start \in Nat /\ jobs[i].size \in Nat /\ jobs[i].psize \in Nat
         /\ jobs[i].lo \in Nat /\ Low(i) \in Int /\ High(i) \in Nat
         /\ jobs[i].size <= Target /\ jobs[i].psize <= TargetPrefix
<1>1. i \in Posted /\ i \in Nat
  BY Numbers DEF Running, Posted
<1>2. jobs[i] \in [start : 0 .. Capacity, size : 0 .. Target,
                   psize : 0 .. TargetPrefix, lo : 0 .. MaxInput,
                   state : {"posted", "hashed", "failing", "complete", "failed"}]
  BY <1>1 DEF TypeOK
<1> QED BY <1>1, <1>2, Sizes DEF Low, High

\* The initial state satisfies the invariant.
LEMMA InitIInv == Init => IInv
<1> SUFFICES ASSUME Init PROVE IInv
  OBVIOUS
<1>1. Running = {} /\ Posted = {}
  BY DEF Init, Running, Posted
<1>2. /\ Target \in Nat /\ Target > 0 /\ TargetPrefix \in Nat
      /\ MaxInput \in Nat /\ MaxFailures \in Nat
  BY RoundAssumption
<1>3. Capacity \in Nat
  <2>1. windowSize \in Nat /\ NbWorkers \in Nat
    BY RoundAssumption DEF Init
  <2>2. Target * NbWorkers \in Nat
    BY <1>2, <2>1
  <2> QED BY <1>2, <2>1, <2>2 DEF Capacity, Larger
<1>4. TypeOK
  <2>1. /\ windowSize \in WindowSizes
        /\ mem \in [0 .. Capacity - 1 -> Byte]
    BY <1>2, <1>3 DEF Init, Byte
  <2>2. /\ pos \in 0 .. Capacity /\ filled \in 0 .. Target
        /\ have \in BOOLEAN /\ frameEnded \in BOOLEAN
        /\ prefixStart \in 0 .. Capacity /\ prefixSize \in 0 .. TargetPrefix
        /\ doneJobID \in Nat /\ nextJobID \in Nat /\ doneJobID <= nextJobID
    <3>1. 0 \in 0 .. Capacity /\ 0 \in 0 .. Target /\ 0 \in 0 .. TargetPrefix
      BY <1>2, <1>3
    <3>2. have \in BOOLEAN /\ frameEnded \in BOOLEAN
      BY DEF Init
    <3> QED BY <3>1, <3>2 DEF Init
  <2>3. jobs \in [Posted -> [start : 0 .. Capacity, size : 0 .. Target,
                             psize : 0 .. TargetPrefix, lo : 0 .. MaxInput,
                             state : {"posted", "hashed", "failing", "complete", "failed"}]]
    BY <1>1 DEF Init
  <2>4. /\ inUse \in [start : 0 .. Capacity, size : 0 .. Target]
        /\ mpc \in {"fill", "wrap", "place", "grant"}
        /\ serialNext \in Nat
        /\ taken \in 0 .. MaxInput /\ failures \in 0 .. MaxFailures
    BY <1>2, <1>3 DEF Init, NullRange, Span
  <2> QED BY <2>1, <2>2, <2>3, <2>4 DEF TypeOK
<1>5. Shape /\ Placement /\ JobContent
  BY <1>1 DEF Shape, Placement, JobContent
<1>6. PrefixInv
  BY DEF Init, PrefixInv
<1>7. RangeInv
  BY DEF Init, RangeInv
<1> QED BY <1>4, <1>5, <1>6, <1>7 DEF IInv

-----------------------------------------------------------------------------
\* Steps that move nothing in the buffer and only let jobs come to an end.

SameFields(i) ==
  /\ jobs'[i].start = jobs[i].start /\ jobs'[i].size = jobs[i].size
  /\ jobs'[i].psize = jobs[i].psize /\ jobs'[i].lo = jobs[i].lo

FewerJobs == Running' \subseteq Running /\ \A i \in Running' : SameFields(i)

LEMMA KeepJobs ==
  ASSUME IInv, FewerJobs,
         UNCHANGED <<windowSize, mem, pos, filled, prefixStart, prefixSize, taken>>
  PROVE  Shape' /\ Placement' /\ JobContent' /\ PrefixInv'
<1>1. \A i \in Running' : Low(i)' = Low(i) /\ High(i)' = High(i)
  BY DEF FewerJobs, SameFields, Low, High
<1>2. Capacity' = Capacity
  BY DEF Capacity
<1>3. Shape'
  BY <1>2 DEF IInv, Shape, FewerJobs, SameFields
<1>4. Placement'
  BY <1>1 DEF IInv, Placement, FewerJobs, Behind, Ahead
<1>5. JobContent'
  BY <1>1 DEF IInv, JobContent, FewerJobs, SameFields
<1>6. PrefixInv'
  BY DEF IInv, PrefixInv
<1> QED BY <1>3, <1>4, <1>5, <1>6

\* While the application thread does nothing, RangeInv stays too.
LEMMA KeepRange ==
  ASSUME IInv, FewerJobs,
         UNCHANGED <<windowSize, mem, pos, have, filled, prefixStart, prefixSize,
                     taken, inUse, mpc>>
  PROVE  RangeInv'
<1>1. \A i \in Running' : i \in Running /\ Low(i)' = Low(i)
  BY DEF FewerJobs, SameFields, Low
<1>2. Capacity' = Capacity /\ (MustWrap' <=> MustWrap)
  BY DEF Capacity, MustWrap
<1>3. SectionFree => SectionFree'
  BY <1>1, <1>2 DEF SectionFree, Ahead
<1>4. Running = {} => Running' = {}
  BY <1>1
<1> QED BY <1>1, <1>2, <1>3, <1>4 DEF IInv, RangeInv

-----------------------------------------------------------------------------
\* The workers, and the retirement of a job: jobs only come to an end.

JobType ==
  [start : 0 .. Capacity, size : 0 .. Target, psize : 0 .. TargetPrefix,
   lo : 0 .. MaxInput,
   state : {"posted", "hashed", "failing", "complete", "failed"}]

LEMMA JobsTyped ==
  ASSUME TypeOK
  PROVE  jobs \in [Posted -> JobType] /\ \A i \in Posted : jobs[i] \in JobType
BY DEF TypeOK, JobType

\* A step of the jobs alone keeps the type invariant if it keeps their type.
LEMMA JobsStepType ==
  ASSUME TypeOK, jobs' \in [Posted' -> JobType],
         doneJobID' \in Nat, nextJobID' \in Nat, doneJobID' <= nextJobID',
         serialNext' \in Nat, failures' \in 0 .. MaxFailures,
         UNCHANGED <<inVars, frameEnded, inUse, mpc, taken>>
  PROVE  TypeOK'
<1>1. Capacity' = Capacity
  BY DEF Capacity, inVars
<1>2. jobs' \in [Posted' -> [start : 0 .. Capacity', size : 0 .. Target,
                             psize : 0 .. TargetPrefix, lo : 0 .. MaxInput,
                             state : {"posted", "hashed", "failing", "complete", "failed"}]]
  BY <1>1 DEF JobType
<1> QED BY <1>1, <1>2 DEF TypeOK, inVars

\* A worker's step on a job: the numbers stay, or the job is over.
LEMMA WorkerJob ==
  ASSUME IInv, NEW id \in Posted, NEW j \in JobType,
         jobs' = [jobs EXCEPT ![id] = j],
         \/ j.state \notin {"complete", "failed"} /\ Incomplete(id)
              /\ j.start = jobs[id].start /\ j.size = jobs[id].size
              /\ j.psize = jobs[id].psize /\ j.lo = jobs[id].lo
         \/ j.state \in {"complete", "failed"},
         serialNext' \in Nat, failures' \in 0 .. MaxFailures,
         UNCHANGED <<inVars, doneJobID, nextJobID, frameEnded, inUse, mpc, taken>>
  PROVE  IInv'
<1>1. TypeOK /\ Posted' = Posted /\ jobs \in [Posted -> JobType]
  BY JobsTyped DEF IInv, Posted
<1>2. TypeOK'
  <2>1. jobs' \in [Posted' -> JobType]
    BY <1>1
  <2>2. doneJobID \in Nat /\ nextJobID \in Nat /\ doneJobID <= nextJobID
    BY <1>1, Numbers
  <2> QED BY <1>1, <2>1, <2>2, JobsStepType
<1>3. FewerJobs
  <2>1. ASSUME NEW i \in Running' PROVE i \in Running /\ SameFields(i)
    <3>1. i \in Posted
      BY <1>1 DEF Running
    <3>2. CASE i = id
      BY <1>1, <3>1, <3>2 DEF Running, Incomplete, SameFields
    <3>3. CASE i # id
      BY <1>1, <3>1, <3>3 DEF Running, Incomplete, SameFields
    <3> QED BY <3>2, <3>3
  <2> QED BY <2>1 DEF FewerJobs
<1>4. Shape' /\ Placement' /\ JobContent' /\ PrefixInv'
  BY <1>3, KeepJobs DEF inVars
<1>5. RangeInv'
  BY <1>3, KeepRange DEF inVars
<1> QED BY <1>2, <1>4, <1>5 DEF IInv

LEMMA WorkerStepIInv == IInv /\ WorkerStep => IInv'
<1> SUFFICES ASSUME IInv, WorkerStep PROVE IInv'
  OBVIOUS
<1>1. PICK id \in Posted : SerialTurn(id) \/ FailJob(id) \/ ReportJob(id)
  BY DEF WorkerStep
<1>2. TypeOK /\ jobs \in [Posted -> JobType] /\ jobs[id] \in JobType
  BY JobsTyped DEF IInv
<1>3. serialNext \in Nat /\ failures \in 0 .. MaxFailures /\ id \in Nat
      /\ MaxFailures \in Nat
  BY <1>2, Numbers, RoundAssumption DEF TypeOK, Posted
<1>4. CASE SerialTurn(id)
  <2> DEFINE j == [jobs[id] EXCEPT !.state = "hashed"]
  <2>1. j \in JobType
    BY <1>2 DEF JobType
  <2>2. /\ j.state = "hashed" /\ j.start = jobs[id].start /\ j.size = jobs[id].size
        /\ j.psize = jobs[id].psize /\ j.lo = jobs[id].lo
    BY <1>2 DEF JobType
  <2>3. jobs' = [jobs EXCEPT ![id] = j] /\ Incomplete(id)
    BY <1>2, <1>4 DEF SerialTurn, SetState, Incomplete
  <2>4. serialNext' \in Nat /\ failures' \in 0 .. MaxFailures
    BY <1>3, <1>4 DEF SerialTurn
  <2>5. UNCHANGED <<inVars, doneJobID, nextJobID, frameEnded, inUse, mpc, taken>>
    BY <1>4 DEF SerialTurn
  <2> HIDE DEF j
  <2> QED BY <2>1, <2>2, <2>3, <2>4, <2>5, WorkerJob
<1>5. CASE FailJob(id)
  <2> DEFINE j == [jobs[id] EXCEPT !.state = "failing"]
  <2>1. j \in JobType
    BY <1>2 DEF JobType
  <2>2. /\ j.state = "failing" /\ j.start = jobs[id].start /\ j.size = jobs[id].size
        /\ j.psize = jobs[id].psize /\ j.lo = jobs[id].lo
    BY <1>2 DEF JobType
  <2>3. jobs' = [jobs EXCEPT ![id] = j] /\ Incomplete(id)
    BY <1>2, <1>5 DEF FailJob, SetState, Incomplete
  <2>4. serialNext' \in Nat /\ failures' \in 0 .. MaxFailures
    BY <1>3, <1>5 DEF FailJob
  <2>5. UNCHANGED <<inVars, doneJobID, nextJobID, frameEnded, inUse, mpc, taken>>
    BY <1>5 DEF FailJob
  <2> HIDE DEF j
  <2> QED BY <2>1, <2>2, <2>3, <2>4, <2>5, WorkerJob
<1>6. CASE ReportJob(id)
  <2>1. PICK state \in {"complete", "failed"} :
          jobs' = [jobs EXCEPT ![id] = Over(state)]
    BY <1>6 DEF ReportJob
  <2>2. Over(state) \in JobType /\ Over(state).state = state
    BY <1>2, Sizes DEF JobType, Over
  <2>3. /\ serialNext' \in Nat /\ failures' \in 0 .. MaxFailures
        /\ UNCHANGED <<inVars, doneJobID, nextJobID, frameEnded, inUse, mpc, taken>>
    BY <1>3, <1>6 DEF ReportJob, serialVars
  <2> QED BY <2>1, <2>2, <2>3, WorkerJob
<1> QED BY <1>1, <1>4, <1>5, <1>6

LEMMA RetireIInv == IInv /\ RetireJob => IInv'
<1> SUFFICES ASSUME IInv, RetireJob PROVE IInv'
  OBVIOUS
<1>1. TypeOK /\ jobs \in [Posted -> JobType] /\ \A i \in Posted : jobs[i] \in JobType
  BY JobsTyped DEF IInv
<1>2. doneJobID \in Nat /\ nextJobID \in Nat /\ doneJobID < nextJobID
      /\ doneJobID' = doneJobID + 1 /\ nextJobID' = nextJobID
      /\ jobs' = [id \in doneJobID + 1 .. nextJobID - 1 |-> jobs[id]]
  BY <1>1, Numbers DEF RetireJob
<1>3. Posted' = doneJobID + 1 .. nextJobID - 1 /\ Posted' \subseteq Posted
  BY <1>2 DEF Posted
<1>4. TypeOK'
  <2>1. jobs' \in [Posted' -> JobType]
    BY <1>1, <1>2, <1>3
  <2>2. serialNext' \in Nat /\ failures' \in 0 .. MaxFailures
        /\ UNCHANGED <<inVars, frameEnded, inUse, mpc, taken>>
    BY <1>1 DEF RetireJob, serialVars, TypeOK
  <2> QED BY <1>1, <1>2, <2>1, <2>2, JobsStepType
<1>5. FewerJobs
  <2>1. \A i \in Posted' : i \in Posted /\ jobs'[i] = jobs[i]
    BY <1>2, <1>3
  <2> QED BY <2>1 DEF FewerJobs, Running, Incomplete, SameFields
<1>6. Shape' /\ Placement' /\ JobContent' /\ PrefixInv'
  BY <1>5, KeepJobs DEF inVars, RetireJob
<1>7. RangeInv'
  BY <1>5, KeepRange DEF inVars, RetireJob
<1> QED BY <1>4, <1>6, <1>7 DEF IInv

-----------------------------------------------------------------------------
\* ZSTDMT_tryGetInputRange, step by step.

LEMMA SameJobs ==
  ASSUME UNCHANGED <<jobs, doneJobID, nextJobID>>
  PROVE  /\ Running' = Running /\ Posted' = Posted /\ FewerJobs
         /\ \A i : Low(i)' = Low(i) /\ High(i)' = High(i)
BY DEF Running, Posted, Incomplete, FewerJobs, SameFields, Low, High

\* What the earliest job says of the others.
LEMMA EarliestRange ==
  ASSUME IInv, NEW e \in Running, \A k \in Running : e <= k
  PROVE  /\ Used(jobs[e]).start = Low(e) /\ Used(jobs[e]).size > 0
         /\ Used(jobs[e]) \in [start : 0 .. Capacity, size : 0 .. Target]
         /\ \A i \in Running : Ahead(i) => Ahead(e)
         /\ \A i \in Running : (Ahead(i) <=> Ahead(e)) => Low(e) <= Low(i)
<1>1. TypeOK
  BY DEF IInv
<1>2. /\ jobs[e].start \in Nat /\ jobs[e].size \in Nat /\ jobs[e].psize \in Nat
      /\ jobs[e].size > 0 /\ jobs[e].psize <= jobs[e].start
      /\ jobs[e].start + Target <= Capacity
      /\ jobs[e].size <= Target /\ jobs[e].psize <= Target
      /\ Target \in Nat /\ Capacity \in Nat
  BY <1>1, Sizes, JobNumbers DEF IInv, Shape
<1>3. /\ Used(jobs[e]).start = Low(e) /\ Used(jobs[e]).size > 0
      /\ Used(jobs[e]) \in [start : 0 .. Capacity, size : 0 .. Target]
  <2>1. CASE jobs[e].psize > 0
    BY <1>2, <2>1 DEF Used, Span, Low
  <2>2. CASE jobs[e].psize = 0
    BY <1>2, <2>2 DEF Used, Span, Low
  <2> QED BY <1>2, <2>1, <2>2
<1>4. ASSUME NEW i \in Running
      PROVE  (Ahead(i) => Ahead(e)) /\ ((Ahead(i) <=> Ahead(e)) => Low(e) <= Low(i))
  <2>1. i \in Nat /\ e \in Nat /\ e <= i /\ Low(e) \in Int
    BY <1>1, JobNumbers
  <2>2. CASE i = e
    BY <2>1, <2>2
  <2>3. CASE e < i
    BY <2>3 DEF IInv, Placement
  <2> QED BY <2>1, <2>2, <2>3
<1> QED BY <1>3, <1>4

\* When no whole section is left before the end of the buffer, no job lies ahead.
LEMMA NoneAheadAtEnd ==
  ASSUME IInv, MustWrap, NEW i \in Running
  PROVE  ~Ahead(i) /\ Behind(i)
<1>1. /\ TypeOK /\ pos \in Nat /\ Capacity \in Nat /\ Target \in Nat
      /\ jobs[i].start \in Nat /\ jobs[i].psize \in Nat
      /\ jobs[i].start + Target <= Capacity
  BY Sizes, Numbers, JobNumbers DEF IInv, Shape
<1>2. ~Ahead(i)
  BY <1>1 DEF MustWrap, Ahead, Low
<1> QED BY <1>2 DEF IInv, Placement

LEMMA AskIInv ==
  ASSUME IInv, NEW range \in [start : 0 .. Capacity, size : 0 .. Target],
         Ask(range),
         \/ Running = {} /\ range.size = 0
         \/ \E e \in Running : (\A k \in Running : e <= k) /\ range = Used(jobs[e])
  PROVE  IInv'
<1>1. /\ UNCHANGED <<jobs, doneJobID, nextJobID>> /\ UNCHANGED inVars /\ UNCHANGED taken
      /\ inUse' = range /\ ~have /\ mpc' \in {"wrap", "grant"}
  BY DEF Ask, jobVars
<1>2. Capacity' = Capacity /\ (MustWrap' <=> MustWrap)
  BY <1>1 DEF Capacity, MustWrap, inVars
<1>3. TypeOK'
  <2>1. TypeOK /\ Posted' = Posted
    BY <1>1, SameJobs DEF IInv
  <2>2. inUse' \in [start : 0 .. Capacity', size : 0 .. Target]
    BY <1>1, <1>2
  <2>3. UNCHANGED <<frameEnded, serialNext, failures>>
    BY DEF Ask, jobVars, serialVars
  <2> QED BY <1>1, <1>2, <2>1, <2>2, <2>3 DEF TypeOK, inVars
<1>4. Shape' /\ Placement' /\ JobContent' /\ PrefixInv'
  BY <1>1, SameJobs, KeepJobs DEF inVars
<1>5. /\ pos \in Nat /\ prefixSize \in Nat /\ Capacity \in Nat /\ Target \in Nat
      /\ Target > 0 /\ TypeOK /\ range.start \in Nat /\ range.size \in Nat
  BY Sizes, Numbers DEF IInv
<1>6. \A i \in Running : Low(i) \in Int
  BY <1>5, JobNumbers
<1>7. CASE MustWrap
  <2>1. mpc' = "wrap" /\ ~IsOverlapped(PrefixCopy, range)
    BY <1>7 DEF Ask
  <2>2. ASSUME range.size > 0
        PROVE  prefixSize <= range.start /\ \A i \in Running : range.start <= Low(i)
    <3>1. prefixSize <= range.start
      BY <1>5, <2>1, <2>2 DEF IsOverlapped, PrefixCopy, Span, EndOf
    <3>2. PICK e \in Running : (\A k \in Running : e <= k) /\ range = Used(jobs[e])
      BY <1>5, <2>2
    <3>3. range.start = Low(e) /\ \A i \in Running : (Ahead(i) <=> Ahead(e)) => Low(e) <= Low(i)
      BY <3>2, EarliestRange
    <3>4. \A i \in Running : ~Ahead(i)
      BY <1>7, NoneAheadAtEnd
    <3> QED BY <3>1, <3>2, <3>3, <3>4
  <2>3. range.size = 0 => Running = {}
    <3>1. \A e \in Running : (\A k \in Running : e <= k) => Used(jobs[e]).size > 0
      BY EarliestRange
    <3> QED BY <1>5, <3>1
  <2>4. RangeInv'
    BY <1>1, <1>2, <1>7, <2>1, <2>2, <2>3, SameJobs DEF RangeInv, inVars, IInv
  <2> QED BY <1>3, <1>4, <2>4 DEF IInv
<1>8. CASE ~MustWrap
  <2>1. mpc' = "grant" /\ ~IsOverlapped(NextRange, range)
    BY <1>8 DEF Ask
  <2>2. pos + Target <= Capacity
    BY <1>5, <1>8 DEF MustWrap
  <2>3. ASSUME NEW i \in Running, Ahead(i) PROVE pos + Target <= Low(i)
    <3>1. PICK e \in Running : (\A k \in Running : e <= k) /\ range = Used(jobs[e])
      BY <2>3
    <3>2. /\ range.start = Low(e) /\ range.size > 0
          /\ Ahead(e) /\ Low(e) <= Low(i)
      BY <2>3, <3>1, EarliestRange
    <3>3. pos <= range.start
      BY <3>2 DEF Ahead
    <3>4. pos + Target <= range.start
      BY <1>5, <2>1, <3>2, <3>3 DEF IsOverlapped, NextRange, Span, EndOf
    <3> QED BY <1>5, <1>6, <3>2, <3>4
  <2>4. SectionFree'
    BY <1>1, <1>2, <2>2, <2>3, SameJobs DEF SectionFree, Ahead, inVars
  <2>5. RangeInv'
    BY <1>1, <2>1, <2>4 DEF RangeInv, inVars, IInv
  <2> QED BY <1>3, <1>4, <2>5 DEF IInv
<1> QED BY <1>7, <1>8

LEMMA GetInputRangeIInv == IInv /\ GetInputRange => IInv'
<1> SUFFICES ASSUME IInv, GetInputRange PROVE IInv'
  OBVIOUS
<1>1. CASE Running = {} /\ Ask(NullRange)
  <2>1. NullRange \in [start : 0 .. Capacity, size : 0 .. Target] /\ NullRange.size = 0
    BY Sizes DEF IInv, NullRange, Span
  <2> QED BY <1>1, <2>1, AskIInv
<1>2. CASE \E id \in Running : (\A k \in Running : id <= k) /\ Ask(Used(jobs[id]))
  <2>1. PICK id \in Running : (\A k \in Running : id <= k) /\ Ask(Used(jobs[id]))
    BY <1>2
  <2>2. Used(jobs[id]) \in [start : 0 .. Capacity, size : 0 .. Target]
    BY <2>1, EarliestRange
  <2> QED BY <2>1, <2>2, AskIInv
<1> QED BY <1>1, <1>2 DEF GetInputRange

LEMMA WrapAroundIInv == IInv /\ WrapAround => IInv'
<1> SUFFICES ASSUME IInv, WrapAround PROVE IInv'
  OBVIOUS
<1>1. /\ TypeOK /\ Shape /\ Placement /\ JobContent /\ PrefixInv /\ RangeInv
      /\ mpc = "wrap" /\ ~have /\ filled = 0 /\ MustWrap
  BY DEF IInv, RangeInv, WrapAround
<1>2. /\ UNCHANGED <<jobs, doneJobID, nextJobID, frameEnded, serialNext, taken, failures>>
      /\ UNCHANGED <<windowSize, have, filled, prefixSize, inUse>>
      /\ prefixStart' = 0 /\ pos' = prefixSize /\ mpc' = "place"
      /\ mem' = [a \in 0 .. Capacity - 1 |->
                   IF a < prefixSize THEN mem[prefixStart + a] ELSE mem[a]]
  BY DEF WrapAround, jobVars, serialVars
<1>3. /\ pos \in Nat /\ pos <= Capacity /\ prefixSize \in Nat /\ prefixStart \in Nat
      /\ Capacity \in Nat /\ Capacity' = Capacity /\ prefixSize <= pos
      /\ taken \in Nat
  BY <1>1, <1>2, Sizes, Numbers DEF Capacity, PrefixInv
<1>4. \A i \in Running : prefixSize <= Low(i)
  <2> SUFFICES ASSUME NEW i \in Running PROVE prefixSize <= Low(i)
    OBVIOUS
  <2>1. inUse.size > 0
    BY <1>1, Numbers DEF RangeInv
  <2>2. /\ prefixSize <= inUse.start /\ inUse.start <= Low(i)
        /\ inUse.start \in Nat /\ Low(i) \in Int
    BY <1>1, <2>1, Numbers, JobNumbers DEF RangeInv
  <2> QED BY <1>3, <2>2
<1>5. \A a \in 0 .. Capacity - 1 :
        mem'[a] = IF a < prefixSize THEN mem[prefixStart + a] ELSE mem[a]
  BY <1>2
<1>6. TypeOK'
  <2>1. ASSUME NEW a \in 0 .. Capacity - 1, a < prefixSize
        PROVE  prefixStart + a \in 0 .. Capacity - 1
    BY <1>1, <1>3, <2>1 DEF PrefixInv
  <2>2. mem' \in [0 .. Capacity - 1 -> Byte]
    BY <1>1, <1>2, <2>1 DEF TypeOK
  <2>3. pos' \in 0 .. Capacity /\ prefixStart' \in 0 .. Capacity
    BY <1>2, <1>3
  <2>4. Posted' = Posted
    BY <1>2 DEF Posted
  <2> QED BY <1>1, <1>2, <1>3, <2>2, <2>3, <2>4 DEF TypeOK
<1>7. Running' = Running /\ \A i : Low(i)' = Low(i) /\ High(i)' = High(i)
  BY <1>2, SameJobs
<1>8. Shape'
  BY <1>1, <1>2, <1>3, <1>7 DEF Shape
<1>9. Placement'
  <2>1. ASSUME NEW i \in Running PROVE Ahead(i)' /\ ~Behind(i)'
    <3>1. Ahead(i)'
      BY <1>2, <1>4, <1>7 DEF Ahead
    <3>2. Low(i) < High(i) /\ Low(i) \in Int /\ High(i) \in Nat
      BY <1>1, JobNumbers DEF Shape, Low, High
    <3> QED BY <1>2, <1>3, <1>4, <1>7, <3>1, <3>2 DEF Behind
  <2>2. ASSUME NEW i \in Running, NEW k \in Running, i < k PROVE Low(i) <= Low(k)
    <3>1. ~Ahead(i) /\ ~Ahead(k)
      BY <1>1, NoneAheadAtEnd
    <3> QED BY <1>1, <2>2, <3>1 DEF Placement
  <2> QED BY <1>7, <2>1, <2>2 DEF Placement
<1>10. JobContent'
  <2> SUFFICES ASSUME NEW i \in Running, NEW k \in 1 .. jobs[i].psize + jobs[i].size
               PROVE  mem'[Low(i) + k - 1] = jobs[i].lo - jobs[i].psize + k
    BY <1>2, <1>7 DEF JobContent
  <2>1. /\ jobs[i].start \in Nat /\ jobs[i].size \in Nat /\ jobs[i].psize \in Nat
        /\ jobs[i].start + Target <= Capacity /\ jobs[i].size <= Target
        /\ jobs[i].psize <= jobs[i].start /\ Target \in Nat
    BY <1>1, Sizes, JobNumbers DEF Shape
  <2>2. Low(i) + k - 1 \in 0 .. Capacity - 1 /\ ~(Low(i) + k - 1 < prefixSize)
    BY <1>3, <1>4, <2>1 DEF Low
  <2>3. mem[Low(i) + k - 1] = jobs[i].lo - jobs[i].psize + k
    BY <1>1 DEF JobContent
  <2> QED BY <1>5, <2>2, <2>3
<1>11. PrefixInv'
  <2>1. ASSUME NEW k \in 1 .. prefixSize
        PROVE  mem'[k - 1] = taken - prefixSize + k
    <3>1. k - 1 \in 0 .. Capacity - 1 /\ k - 1 < prefixSize
      BY <1>3, <2>1
    <3>2. mem'[k - 1] = mem[prefixStart + (k - 1)]
      BY <1>5, <3>1
    <3>3. prefixStart + (k - 1) = pos - prefixSize + k - 1
      BY <1>1, <1>3, <2>1 DEF PrefixInv
    <3>4. k \in 1 .. prefixSize + filled
      BY <1>1, <1>3
    <3>5. mem[pos - prefixSize + k - 1] = taken - filled - prefixSize + k
      BY <1>1, <3>4 DEF PrefixInv
    <3> QED BY <1>1, <1>3, <3>2, <3>3, <3>5
  <2>2. prefixSize + filled <= taken
    BY <1>1 DEF PrefixInv
  <2>3. ASSUME NEW k \in 1 .. prefixSize' + filled'
        PROVE  mem'[pos' - prefixSize' + k - 1] = taken' - filled' - prefixSize' + k
    <3>1. k \in 1 .. prefixSize
      BY <1>1, <1>2, <1>3
    <3>2. /\ pos' - prefixSize' + k - 1 = k - 1
          /\ taken' - filled' - prefixSize' + k = taken - prefixSize + k
      BY <1>1, <1>2, <1>3, <3>1
    <3> QED BY <2>1, <3>1, <3>2
  <2> QED BY <1>2, <1>3, <2>2, <2>3 DEF PrefixInv
<1>12. RangeInv'
  <2>1. inUse.size > 0 => prefixSize <= inUse.start /\ \A i \in Running : inUse.start <= Low(i)
    BY <1>1 DEF RangeInv
  <2>2. inUse.size = 0 => Running = {}
    BY <1>1 DEF RangeInv
  <2> QED BY <1>1, <1>2, <1>7, <2>1, <2>2 DEF RangeInv
<1> QED BY <1>6, <1>8, <1>9, <1>10, <1>11, <1>12 DEF IInv

LEMMA PlaceIInv == IInv /\ PlaceAfterPrefix => IInv'
<1> SUFFICES ASSUME IInv, PlaceAfterPrefix PROVE IInv'
  OBVIOUS
<1>1. /\ TypeOK /\ RangeInv /\ mpc = "place" /\ ~have /\ filled = 0 /\ pos = prefixSize
      /\ UNCHANGED <<jobs, doneJobID, nextJobID, frameEnded, serialNext, taken, failures>>
      /\ UNCHANGED inVars /\ inUse' = NullRange /\ mpc' \in {"fill", "grant"}
  BY DEF IInv, RangeInv, PlaceAfterPrefix, jobVars, serialVars
<1>2. /\ pos \in Nat /\ Target \in Nat /\ Target > 0 /\ Capacity \in Nat
      /\ inUse.start \in Nat /\ inUse.size \in Nat /\ pos <= Target
      /\ 2 * Target <= Capacity /\ Capacity' = Capacity
  BY <1>1, Sizes, Numbers DEF Capacity, inVars
<1>3. TypeOK'
  <2>1. inUse' \in [start : 0 .. Capacity', size : 0 .. Target]
    BY <1>1, <1>2 DEF NullRange, Span
  <2>2. Posted' = Posted
    BY <1>1 DEF Posted
  <2> QED BY <1>1, <1>2, <2>1, <2>2 DEF TypeOK, inVars
<1>4. Shape' /\ Placement' /\ JobContent' /\ PrefixInv'
  BY <1>1, SameJobs, KeepJobs DEF inVars
<1>5. mpc' = "grant" => SectionFree'
  <2> SUFFICES ASSUME mpc' = "grant" PROVE SectionFree'
    OBVIOUS
  <2>1. ~IsOverlapped(NextRange, inUse)
    BY DEF PlaceAfterPrefix
  <2>2. ASSUME NEW i \in Running PROVE pos + Target <= Low(i)
    <3>1. inUse.size > 0 /\ pos <= inUse.start /\ inUse.start <= Low(i)
      BY <1>1, <1>2, <2>2 DEF RangeInv
    <3>2. pos + Target <= inUse.start
      BY <1>2, <2>1, <3>1 DEF IsOverlapped, NextRange, Span, EndOf
    <3>3. Low(i) \in Int
      BY <1>1, JobNumbers
    <3> QED BY <1>2, <3>1, <3>2, <3>3
  <2>3. pos + Target <= Capacity
    BY <1>2
  <2> QED BY <1>1, <1>2, <2>2, <2>3, SameJobs DEF SectionFree, inVars
<1>6. RangeInv'
  BY <1>1, <1>5 DEF RangeInv, inVars
<1> QED BY <1>3, <1>4, <1>6 DEF IInv

LEMMA GrantRangeIInv == IInv /\ GrantRange => IInv'
<1> SUFFICES ASSUME IInv, GrantRange PROVE IInv'
  OBVIOUS
<1>1. /\ TypeOK /\ RangeInv /\ mpc = "grant" /\ filled = 0 /\ SectionFree
      /\ UNCHANGED <<jobs, doneJobID, nextJobID, frameEnded, serialNext, taken, failures>>
      /\ UNCHANGED <<windowSize, mem, pos, prefixStart, prefixSize>>
      /\ have' = TRUE /\ filled' = 0 /\ inUse' = NullRange /\ mpc' = "fill"
  BY DEF IInv, RangeInv, GrantRange, jobVars, serialVars
<1>2. Capacity' = Capacity /\ Capacity \in Nat /\ Target \in Nat
  BY <1>1, Sizes DEF Capacity
<1>3. TypeOK'
  <2>1. inUse' \in [start : 0 .. Capacity', size : 0 .. Target] /\ filled' \in 0 .. Target
    BY <1>1, <1>2 DEF NullRange, Span
  <2>2. Posted' = Posted
    BY <1>1 DEF Posted
  <2> QED BY <1>1, <1>2, <2>1, <2>2 DEF TypeOK
<1>4. Shape' /\ Placement' /\ JobContent' /\ PrefixInv'
  BY <1>1, SameJobs, KeepJobs
<1>5. SectionFree'
  BY <1>1, <1>2, SameJobs DEF SectionFree, Ahead
<1>6. RangeInv'
  BY <1>1, <1>5 DEF RangeInv
<1> QED BY <1>3, <1>4, <1>6 DEF IInv

-----------------------------------------------------------------------------
\* Filling the section, and making it a job.

LEMMA FillIInv == IInv /\ (\E n \in 1 .. Target : Fill(n)) => IInv'
<1> SUFFICES ASSUME IInv, NEW n \in 1 .. Target, Fill(n) PROVE IInv'
  OBVIOUS
<1>1. /\ TypeOK /\ Shape /\ Placement /\ JobContent /\ PrefixInv /\ SectionFree
      /\ mpc = "fill" /\ have /\ filled + n <= Target /\ taken + n <= MaxInput
      /\ UNCHANGED <<jobs, doneJobID, nextJobID, frameEnded, serialNext, failures>>
      /\ UNCHANGED <<windowSize, pos, have, prefixStart, prefixSize, inUse, mpc>>
      /\ filled' = filled + n /\ taken' = taken + n
  BY DEF IInv, RangeInv, Fill, jobVars, serialVars
<1>2. \A a \in 0 .. Capacity - 1 :
        mem'[a] = IF a \in pos + filled .. pos + filled + n - 1
                  THEN taken + 1 + (a - (pos + filled)) ELSE mem[a]
  BY DEF Fill
<1>3. /\ pos \in Nat /\ filled \in Nat /\ taken \in Nat /\ prefixSize \in Nat
      /\ Target \in Nat /\ Capacity \in Nat /\ MaxInput \in Nat /\ n \in Nat
      /\ pos + Target <= Capacity /\ Capacity' = Capacity
      /\ prefixSize <= pos /\ prefixSize + filled <= taken
  BY <1>1, Sizes, Numbers DEF Capacity, SectionFree, PrefixInv
<1>4. TypeOK'
  <2>1. ASSUME NEW a \in 0 .. Capacity - 1, a \in pos + filled .. pos + filled + n - 1
        PROVE  taken + 1 + (a - (pos + filled)) \in Byte
    BY <1>1, <1>3, <2>1 DEF Byte
  <2>2. mem' \in [0 .. Capacity - 1 -> Byte]
    BY <1>1, <2>1 DEF TypeOK, Fill
  <2>3. filled' \in 0 .. Target /\ taken' \in 0 .. MaxInput
    BY <1>1, <1>3
  <2>4. Posted' = Posted
    BY <1>1 DEF Posted
  <2> QED BY <1>1, <1>3, <2>2, <2>3, <2>4 DEF TypeOK
<1>5. Running' = Running /\ \A i : Low(i)' = Low(i) /\ High(i)' = High(i)
  BY <1>1, SameJobs
<1>6. Shape'
  BY <1>1, <1>3, <1>5 DEF Shape
<1>7. Placement'
  BY <1>1, <1>5 DEF Placement, Ahead, Behind
<1>8. JobContent'
  <2> SUFFICES ASSUME NEW i \in Running, NEW k \in 1 .. jobs[i].psize + jobs[i].size
               PROVE  mem'[Low(i) + k - 1] = jobs[i].lo - jobs[i].psize + k
    BY <1>1, <1>5 DEF JobContent
  <2>1. /\ jobs[i].start \in Nat /\ jobs[i].size \in Nat /\ jobs[i].psize \in Nat
        /\ jobs[i].start + Target <= Capacity /\ jobs[i].size <= Target
        /\ jobs[i].psize <= jobs[i].start
    BY <1>1, JobNumbers DEF Shape
  <2>2. Low(i) + k - 1 \in 0 .. Capacity - 1
    BY <1>3, <2>1 DEF Low
  <2>3. Low(i) + k - 1 \notin pos + filled .. pos + filled + n - 1
    <3>1. CASE Behind(i)
      BY <1>3, <2>1, <3>1 DEF Behind, Low, High
    <3>2. CASE Ahead(i)
      <4>1. pos + Target <= Low(i)
        BY <1>1, <3>2 DEF SectionFree
      <4> QED BY <1>1, <1>3, <2>1, <4>1 DEF Low
    <3> QED BY <1>1, <3>1, <3>2 DEF Placement
  <2>4. mem[Low(i) + k - 1] = jobs[i].lo - jobs[i].psize + k
    BY <1>1 DEF JobContent
  <2> QED BY <1>2, <2>2, <2>3, <2>4
<1>9. PrefixInv'
  <2>1. ASSUME NEW k \in 1 .. prefixSize' + filled'
        PROVE  mem'[pos' - prefixSize' + k - 1] = taken' - filled' - prefixSize' + k
    <3> DEFINE a == pos - prefixSize + k - 1
    <3>1. /\ k \in 1 .. prefixSize + filled + n
          /\ pos' - prefixSize' + k - 1 = a
          /\ taken' - filled' - prefixSize' + k = taken - filled - prefixSize + k
      BY <1>1, <1>3
    <3>2. a \in 0 .. Capacity - 1
      BY <1>1, <1>3, <3>1
    <3>3. CASE k <= prefixSize + filled
      <4>1. a \notin pos + filled .. pos + filled + n - 1 /\ k \in 1 .. prefixSize + filled
        BY <1>3, <3>1, <3>3
      <4>2. mem[a] = taken - filled - prefixSize + k
        BY <1>1, <4>1 DEF PrefixInv
      <4>3. mem'[a] = mem[a]
        BY <1>2, <3>2, <4>1
      <4> QED BY <3>1, <4>2, <4>3
    <3>4. CASE ~(k <= prefixSize + filled)
      <4>1. a \in pos + filled .. pos + filled + n - 1
        BY <1>3, <3>1, <3>4
      <4>2. mem'[a] = taken + 1 + (a - (pos + filled))
        BY <1>2, <3>2, <4>1
      <4>3. taken + 1 + (a - (pos + filled)) = taken - filled - prefixSize + k
        BY <1>3, <3>1
      <4> HIDE DEF a
      <4> QED BY <3>1, <4>2, <4>3
    <3> QED BY <3>3, <3>4
  <2>2. prefixSize' <= pos' /\ prefixSize' + filled' <= taken'
    BY <1>1, <1>3
  <2>3. prefixSize' > 0 => prefixStart' + prefixSize' = pos'
    BY <1>1 DEF PrefixInv
  <2> QED BY <2>1, <2>2, <2>3 DEF PrefixInv
<1>10. RangeInv'
  <2>1. SectionFree'
    BY <1>1, <1>3, <1>5 DEF SectionFree, Ahead
  <2> QED BY <1>1, <2>1 DEF RangeInv
<1> QED BY <1>4, <1>6, <1>7, <1>8, <1>9, <1>10 DEF IInv

LEMMA CreateJobIInv == IInv /\ (\E endFrame \in BOOLEAN : CreateJob(endFrame)) => IInv'
<1> SUFFICES ASSUME IInv, NEW endFrame \in BOOLEAN, CreateJob(endFrame),
                    NEW n, n = nextJobID, NEW q, q = prefixSize'
             PROVE  IInv'
  OBVIOUS
<1> DEFINE new == [start |-> pos, size |-> filled, psize |-> prefixSize,
                   lo |-> taken - filled, state |-> "posted"]
<1>1. /\ TypeOK /\ Shape /\ Placement /\ JobContent /\ PrefixInv /\ SectionFree
      /\ mpc = "fill" /\ have /\ filled > 0
      /\ UNCHANGED <<windowSize, mem, doneJobID, inUse, mpc, serialNext, taken, failures>>
      /\ jobs' = [id \in doneJobID .. n |-> IF id = n THEN new ELSE jobs[id]]
      /\ nextJobID' = n + 1 /\ pos' = pos + filled /\ ~have' /\ filled' = 0
      /\ frameEnded' = endFrame /\ have' \in BOOLEAN
  BY DEF IInv, RangeInv, CreateJob, serialVars
<1>c. /\ filled > 0 /\ pos' = pos + filled /\ filled' = 0 /\ taken' = taken
      /\ mem' = mem /\ nextJobID' = n + 1 /\ doneJobID' = doneJobID
  BY <1>1
<1>i. Shape /\ Placement /\ JobContent /\ PrefixInv /\ SectionFree
  BY <1>1
<1>2. /\ pos \in Nat /\ filled \in Nat /\ taken \in Nat /\ prefixSize \in Nat
      /\ Target \in Nat /\ TargetPrefix \in Nat /\ Capacity \in Nat /\ MaxInput \in Nat
      /\ filled <= Target /\ prefixSize <= TargetPrefix /\ TargetPrefix <= Target
      /\ pos + Target <= Capacity /\ Capacity' = Capacity /\ taken <= MaxInput
      /\ prefixSize <= pos /\ prefixSize + filled <= taken
      /\ n \in Nat /\ doneJobID \in Nat /\ doneJobID <= n
  BY <1>1, Sizes, Numbers DEF Capacity, SectionFree, PrefixInv
<1>3. /\ Posted' = doneJobID .. n
      /\ \A i \in Posted : i # n /\ i \in Posted' /\ jobs'[i] = jobs[i]
      /\ \A i \in Posted' : i = n \/ i \in Posted
      /\ n \in Posted' /\ jobs'[n] = new
  <2>1. Posted' = doneJobID .. n
    BY <1>1, <1>2 DEF Posted
  <2>2. /\ \A i \in Posted : i # n /\ i \in doneJobID .. n
        /\ \A i \in doneJobID .. n : i = n \/ i \in Posted
        /\ n \in doneJobID .. n
    BY <1>1, <1>2 DEF Posted
  <2>3. \A i \in doneJobID .. n : jobs'[i] = IF i = n THEN new ELSE jobs[i]
    BY <1>1
  <2> HIDE DEF new
  <2> QED BY <2>1, <2>2, <2>3
<1>4. /\ \A i \in Running : i \in Running' /\ jobs'[i] = jobs[i]
      /\ \A i \in Running' : i = n \/ (i \in Running /\ i < n /\ jobs'[i] = jobs[i])
  <2>1. \A i \in Posted : i < n
    BY <1>2 DEF Posted
  <2> QED BY <1>3, <2>1 DEF Running, Incomplete
\* The prefix of the next job is the end of this one.
<1>5. /\ q \in Nat /\ q <= TargetPrefix /\ q <= filled /\ prefixSize' = q
      /\ q > 0 => prefixStart' = pos + filled - q
      /\ prefixStart' \in 0 .. Capacity
  <2>1. CASE endFrame
    BY <1>2, <2>1 DEF CreateJob
  <2>2. CASE ~endFrame
    <3>1. NewPrefix \in Nat /\ NewPrefix <= TargetPrefix /\ NewPrefix <= filled
      BY <1>2 DEF NewPrefix, Smaller
    <3>2. prefixSize' = NewPrefix /\ prefixStart' = pos + filled - NewPrefix
      BY <2>2 DEF CreateJob
    <3> QED BY <1>2, <3>1, <3>2
  <2> QED BY <2>1, <2>2
<1>e. /\ pos' - q \in Nat /\ taken' - filled' - q \in Nat
      /\ pos' - q = pos + filled - q /\ taken' - filled' - q = taken - q
      /\ q > 0 => prefixStart' + q = pos'
  BY <1>c, <1>2, <1>5
<1>6. TypeOK'
  <2>1. new \in JobType
    BY <1>2 DEF JobType
  <2>2. jobs' \in [Posted' -> JobType]
    <3>1. \A i \in Posted : jobs[i] \in JobType
      BY <1>1, JobsTyped
    <3>2. \A i \in Posted' : (IF i = n THEN new ELSE jobs[i]) \in JobType
      BY <1>3, <2>1, <3>1
    <3> HIDE DEF new
    <3> QED BY <1>1, <1>3, <3>2
  <2>3. jobs' \in [Posted' -> [start : 0 .. Capacity', size : 0 .. Target,
                               psize : 0 .. TargetPrefix, lo : 0 .. MaxInput,
                               state : {"posted", "hashed", "failing", "complete", "failed"}]]
    BY <1>2, <2>2 DEF JobType
  <2>4. /\ pos' \in 0 .. Capacity' /\ filled' \in 0 .. Target
        /\ prefixStart' \in 0 .. Capacity' /\ prefixSize' \in 0 .. TargetPrefix
        /\ doneJobID' \in Nat /\ nextJobID' \in Nat /\ doneJobID' <= nextJobID'
    BY <1>c, <1>e, <1>2, <1>5
  <2>5. have' \in BOOLEAN /\ frameEnded' \in BOOLEAN
    BY <1>1
  <2>6. /\ windowSize' \in WindowSizes /\ mem' \in [0 .. Capacity' - 1 -> Byte]
        /\ inUse' \in [start : 0 .. Capacity', size : 0 .. Target]
        /\ mpc' \in {"fill", "wrap", "place", "grant"} /\ serialNext' \in Nat
        /\ taken' \in 0 .. MaxInput /\ failures' \in 0 .. MaxFailures
    BY <1>1, <1>2 DEF TypeOK
  <2> QED BY <2>3, <2>4, <2>5, <2>6 DEF TypeOK
<1>7. /\ jobs'[n].start = pos /\ jobs'[n].size = filled
      /\ jobs'[n].psize = prefixSize /\ jobs'[n].lo = taken - filled
      /\ Low(n)' = pos - prefixSize /\ High(n)' = pos + filled
  BY <1>3 DEF Low, High
<1>8. \A i \in Running : Low(i)' = Low(i) /\ High(i)' = High(i)
  BY <1>4 DEF Low, High
<1> HIDE DEF new
<1>9. Shape'
  <2>1. /\ jobs'[n].size > 0 /\ jobs'[n].psize <= jobs'[n].start
        /\ jobs'[n].psize <= jobs'[n].lo /\ jobs'[n].start + Target <= Capacity'
    BY <1>c, <1>i, <1>2, <1>7 DEF SectionFree
  <2> QED BY <1>i, <1>2, <1>4, <2>1 DEF Shape
<1>10. Placement'
  <2>1. \A i \in Running : /\ Low(i) \in Int /\ High(i) \in Nat /\ Low(i) < High(i)
    BY <1>1, JobNumbers DEF Shape, Low, High
  <2>2. Behind(n)' /\ ~Ahead(n)'
    BY <1>c, <1>2, <1>7 DEF Behind, Ahead
  <2>3. \A i \in Running : (Ahead(i) => Ahead(i)') /\ (Behind(i) => Behind(i)')
    BY <1>c, <1>i, <1>2, <1>8, <2>1 DEF Ahead, Behind, SectionFree
  <2>4. \A i \in Running : ~(Ahead(i)' /\ Behind(i)')
    BY <1>c, <1>i, <1>2, <1>8, <2>1 DEF Ahead, Behind
  <2>5. \A i \in Running : (Ahead(i) \/ Behind(i)) /\ (Ahead(i)' <=> Ahead(i))
                           /\ (Behind(i)' <=> Behind(i))
    BY <1>i, <2>3, <2>4 DEF Placement
  <2>6. \A i \in Running : Behind(i) => Low(i) <= pos - prefixSize
    BY <1>i DEF Placement
  <2>7. \A i \in Running' : Behind(i)' \/ Ahead(i)'
    BY <1>4, <2>2, <2>5
  <2>8. ASSUME NEW i \in Running', NEW k \in Running', i < k
        PROVE  /\ Ahead(k)' => Ahead(i)'
               /\ (Ahead(i)' <=> Ahead(k)') => Low(i)' <= Low(k)'
    <3>1. i \in Running
      BY <1>2, <1>3, <1>4, <2>8 DEF Running
    <3>2. CASE k = n
      <4>1. ~Ahead(k)' /\ Low(k)' = pos - prefixSize
        BY <1>7, <2>2, <3>2
      <4>2. ~Ahead(i)' => Low(i)' <= pos - prefixSize
        BY <1>8, <2>5, <2>6, <3>1
      <4> QED BY <4>1, <4>2
    <3>3. CASE k \in Running
      <4>1. /\ Ahead(k) => Ahead(i)
            /\ (Ahead(i) <=> Ahead(k)) => Low(i) <= Low(k)
        BY <1>i, <2>8, <3>1, <3>3 DEF Placement
      <4> QED BY <1>8, <2>5, <3>1, <3>3, <4>1
    <3> QED BY <1>4, <3>2, <3>3
  <2>9. ASSUME NEW i \in Running', Behind(i)' PROVE Low(i)' <= pos' - prefixSize'
    <3>1. CASE i = n
      BY <1>c, <1>e, <1>2, <1>5, <1>7, <3>1
    <3>2. CASE i \in Running
      <4>1. Low(i) <= pos /\ Low(i)' = Low(i)
        BY <1>2, <1>8, <2>1, <2>5, <2>6, <2>9, <3>2
      <4> QED BY <1>c, <1>2, <1>5, <2>1, <3>2, <4>1
    <3> QED BY <1>4, <3>1, <3>2
  <2> QED BY <2>7, <2>8, <2>9 DEF Placement
<1>11. JobContent'
  <2>1. ASSUME NEW k \in 1 .. jobs'[n].psize + jobs'[n].size
        PROVE  mem'[Low(n)' + k - 1] = jobs'[n].lo - jobs'[n].psize + k
    <3>1. k \in 1 .. prefixSize + filled
      BY <1>7
    <3>2. mem[pos - prefixSize + k - 1] = taken - filled - prefixSize + k
      BY <1>i, <3>1 DEF PrefixInv
    <3> QED BY <1>c, <1>7, <3>2
  <2>2. ASSUME NEW i \in Running, NEW k \in 1 .. jobs'[i].psize + jobs'[i].size
        PROVE  mem'[Low(i)' + k - 1] = jobs'[i].lo - jobs'[i].psize + k
    <3>1. jobs'[i] = jobs[i] /\ Low(i)' = Low(i)
      BY <1>4, <1>8
    <3>2. k \in 1 .. jobs[i].psize + jobs[i].size
      BY <3>1
    <3>3. mem[Low(i) + k - 1] = jobs[i].lo - jobs[i].psize + k
      BY <1>i, <3>2 DEF JobContent
    <3> QED BY <1>c, <3>1, <3>3
  <2> QED BY <1>4, <2>1, <2>2 DEF JobContent
<1>12. PrefixInv'
  <2>1. ASSUME NEW k \in 1 .. q
        PROVE  mem[pos + filled - q + k - 1] = taken - q + k
    <3> DEFINE m == prefixSize + filled - q + k
    <3>1. m \in 1 .. prefixSize + filled
      BY <1>2, <1>5
    <3>2. /\ pos + filled - q + k - 1 = pos - prefixSize + m - 1
          /\ taken - q + k = taken - filled - prefixSize + m
      BY <1>2, <1>5
    <3> HIDE DEF m
    <3>3. mem[pos - prefixSize + m - 1] = taken - filled - prefixSize + m
      BY <1>i, <3>1 DEF PrefixInv
    <3> QED BY <3>2, <3>3
  <2>2. \A k \in 1 .. prefixSize' + filled' :
          mem'[pos' - prefixSize' + k - 1] = taken' - filled' - prefixSize' + k
    BY <1>c, <1>e, <1>5, <2>1
  <2>3. /\ prefixSize' <= pos' /\ prefixSize' + filled' <= taken'
        /\ prefixSize' > 0 => prefixStart' + prefixSize' = pos'
    BY <1>c, <1>e, <1>2, <1>5
  <2> QED BY <2>2, <2>3 DEF PrefixInv
<1>13. RangeInv'
  BY <1>1, <1>c DEF RangeInv
<1> QED BY <1>6, <1>9, <1>10, <1>11, <1>12, <1>13 DEF IInv

LEMMA EndWithoutInputIInv == IInv /\ EndWithoutInput => IInv'
<1> SUFFICES ASSUME IInv, EndWithoutInput PROVE IInv'
  OBVIOUS
<1>1. /\ TypeOK /\ Shape /\ Placement /\ JobContent /\ PrefixInv
      /\ mpc = "fill" /\ filled = 0 /\ have' = FALSE
      /\ prefixStart' = 0 /\ prefixSize' = 0 /\ frameEnded' = TRUE
      /\ UNCHANGED <<windowSize, mem, pos, filled, jobs, doneJobID, nextJobID, inUse,
                     mpc, serialNext, taken, failures>>
  BY DEF IInv, EndWithoutInput, serialVars
<1>2. /\ Capacity' = Capacity /\ Capacity \in Nat /\ TargetPrefix \in Nat
      /\ pos \in Nat /\ taken \in Nat /\ prefixSize \in Nat
  BY <1>1, Sizes, Numbers DEF Capacity
<1>3. Running' = Running /\ Posted' = Posted
      /\ \A i : Low(i)' = Low(i) /\ High(i)' = High(i)
  BY <1>1, SameJobs
<1>4. TypeOK'
  <2>1. /\ prefixStart' \in 0 .. Capacity' /\ prefixSize' \in 0 .. TargetPrefix
    BY <1>1, <1>2
  <2>2. have' \in BOOLEAN /\ frameEnded' \in BOOLEAN
    BY <1>1
  <2> QED BY <1>1, <1>2, <1>3, <2>1, <2>2 DEF TypeOK
<1>5. Shape' /\ JobContent'
  BY <1>1, <1>2, <1>3 DEF Shape, JobContent
<1>6. Placement'
  <2>1. \A i \in Running : Low(i) \in Int /\ (Behind(i) => Low(i) <= pos - prefixSize)
    BY <1>1, JobNumbers DEF Placement
  <2>2. \A i \in Running : Behind(i) => Low(i) <= pos - 0
    BY <1>2, <2>1
  <2> QED BY <1>1, <1>3, <2>2 DEF Placement, Ahead, Behind
<1>7. PrefixInv'
  BY <1>1, <1>2 DEF PrefixInv
<1>8. RangeInv'
  BY <1>1 DEF RangeInv
<1> QED BY <1>4, <1>5, <1>6, <1>7, <1>8 DEF IInv

LEMMA InitCStreamIInv == IInv /\ InitCStream => IInv'
<1> SUFFICES ASSUME IInv, InitCStream PROVE IInv'
  OBVIOUS
<1>1. TypeOK /\ mpc' = "fill" /\ Capacity' = Capacity
  BY DEF IInv, InitCStream, Capacity
<1>2. Posted' = {} /\ Running' = {}
  BY DEF InitCStream, Posted, Running
<1>3. TypeOK'
  <2>1. /\ Capacity \in Nat /\ Target \in Nat /\ TargetPrefix \in Nat /\ MaxInput \in Nat
    BY <1>1, Sizes
  <2>2. /\ mem' \in [0 .. Capacity' - 1 -> Byte]
        /\ jobs' \in [Posted' -> [start : 0 .. Capacity', size : 0 .. Target,
                          psize : 0 .. TargetPrefix, lo : 0 .. MaxInput,
                          state : {"posted", "hashed", "failing", "complete", "failed"}]]
    BY <1>1, <1>2, <2>1 DEF InitCStream, Byte
  <2>3. /\ pos' \in 0 .. Capacity' /\ filled' \in 0 .. Target
        /\ prefixStart' \in 0 .. Capacity' /\ prefixSize' \in 0 .. TargetPrefix
        /\ doneJobID' \in Nat /\ nextJobID' \in Nat /\ doneJobID' <= nextJobID'
        /\ taken' \in 0 .. MaxInput /\ serialNext' \in Nat
    BY <1>1, <2>1 DEF InitCStream
  <2>4. have' \in BOOLEAN /\ frameEnded' \in BOOLEAN
    BY DEF InitCStream
  <2>5. inUse' \in [start : 0 .. Capacity', size : 0 .. Target]
    BY <1>1, <2>1 DEF InitCStream, NullRange, Span
  <2>6. windowSize' \in WindowSizes /\ failures' \in 0 .. MaxFailures
    BY <1>1 DEF InitCStream, TypeOK
  <2> QED BY <1>1, <2>2, <2>3, <2>4, <2>5, <2>6 DEF TypeOK
<1>4. Shape' /\ Placement' /\ JobContent'
  BY <1>2 DEF Shape, Placement, JobContent
<1>5. PrefixInv'
  BY DEF InitCStream, PrefixInv
<1>6. RangeInv'
  BY <1>1 DEF InitCStream, RangeInv
<1> QED BY <1>3, <1>4, <1>5, <1>6 DEF IInv

-----------------------------------------------------------------------------
\* Every step preserves the invariant.
LEMMA NextIInv == IInv /\ [Next]_vars => IInv'
<1> SUFFICES ASSUME IInv, [Next]_vars PROVE IInv'
  OBVIOUS
<1>1. CASE GetInputRange
  BY <1>1, GetInputRangeIInv
<1>2. CASE RangeStep
  BY <1>2, WrapAroundIInv, PlaceIInv, GrantRangeIInv DEF RangeStep
<1>3. CASE CallStep
  BY <1>3, FillIInv, CreateJobIInv, EndWithoutInputIInv, RetireIInv, InitCStreamIInv
  DEF CallStep
<1>4. CASE WorkerStep
  BY <1>4, WorkerStepIInv
<1>5. CASE Quiet \/ UNCHANGED vars
  <2>1. UNCHANGED <<inVars, jobVars, inUse, mpc, serialVars, taken, failures>>
    BY <1>5 DEF Quiet, vars
  <2>2. Capacity' = Capacity /\ FewerJobs /\ Posted' = Posted
    BY <2>1, SameJobs DEF Capacity, inVars, jobVars
  <2>3. TypeOK'
    BY <2>1, <2>2 DEF IInv, TypeOK, inVars, jobVars, serialVars
  <2>4. Shape' /\ Placement' /\ JobContent' /\ PrefixInv'
    BY <2>1, <2>2, KeepJobs DEF inVars
  <2>5. RangeInv'
    BY <2>1, <2>2, KeepRange DEF inVars
  <2> QED BY <2>3, <2>4, <2>5 DEF IInv
<1> QED BY <1>1, <1>2, <1>3, <1>4, <1>5 DEF Next

LEMMA AlwaysIInv == Spec => []IInv
<1> QED BY InitIInv, NextIInv, PTL DEF Spec

\* The round buffer's variables keep their types: the positions stay inside
\* the buffer, whatever flushes cut off and wherever it wraps.
THEOREM TypeCorrect == Spec => []TypeOK
<1>1. IInv => TypeOK
  BY DEF IInv
<1> QED BY AlwaysIInv, <1>1, PTL

\* ZSTDMT_tryGetInputRange looks at the earliest incomplete job only; still no
\* copy into the range it grants, and no move of the prefix, overwrites a byte
\* that a job which is not complete may read.
THEOREM InputNeverOverwritten == Spec => []InputIntact
<1>1. IInv => InputIntact
  <2> SUFFICES ASSUME IInv, NEW id \in Posted, Incomplete(id)
               PROVE  LET j == jobs[id] IN
                      /\ j.psize <= j.start /\ j.start + j.size <= Capacity
                      /\ j.psize <= j.lo
                      /\ \A k \in 1 .. j.psize + j.size :
                           mem[j.start - j.psize + k - 1] = j.lo - j.psize + k
    BY DEF InputIntact
  <2>1. id \in Running /\ TypeOK
    BY DEF Running, IInv
  <2>2. /\ jobs[id].start \in Nat /\ jobs[id].size \in Nat /\ jobs[id].size <= Target
        /\ Target \in Nat /\ Capacity \in Nat
    BY <2>1, JobNumbers, Sizes
  <2>3. /\ jobs[id].psize <= jobs[id].start /\ jobs[id].psize <= jobs[id].lo
        /\ jobs[id].start + Target <= Capacity
    BY <2>1 DEF IInv, Shape
  <2>4. \A k \in 1 .. jobs[id].psize + jobs[id].size :
          mem[jobs[id].start - jobs[id].psize + k - 1] = jobs[id].lo - jobs[id].psize + k
    BY <2>1 DEF IInv, JobContent, Low
  <2> QED BY <2>2, <2>3, <2>4
<1> QED BY AlwaysIInv, <1>1, PTL

\* The section granted lies whole inside the buffer and right after its prefix:
\* the two assertions at the end of ZSTDMT_tryGetInputRange.
THEOREM GrantedSectionFits == Spec => []SectionFits
<1>1. IInv => SectionFits
  <2> SUFFICES ASSUME IInv, have PROVE
         /\ pos + Target <= Capacity
         /\ ~IsOverlapped(NextRange, Span(prefixStart, prefixSize))
         /\ prefixSize > 0 => prefixStart + prefixSize = pos
    BY DEF SectionFits
  <2>1. /\ pos + Target <= Capacity
        /\ prefixSize > 0 => prefixStart + prefixSize = pos
    BY DEF IInv, RangeInv, SectionFree, PrefixInv
  <2>2. pos \in Nat /\ prefixStart \in Nat /\ prefixSize \in Nat
    BY Numbers DEF IInv
  <2>3. ~IsOverlapped(NextRange, Span(prefixStart, prefixSize))
    BY <2>1, <2>2 DEF IsOverlapped, NextRange, Span, EndOf
  <2> QED BY <2>1, <2>3
<1> QED BY AlwaysIInv, <1>1, PTL

-----------------------------------------------------------------------------
(***************************************************************************)
(* The window of the long distance matcher, as long as no job has failed:  *)
(* it holds the input hashed last, whole (LdmHistoryIntact), and whoever   *)
(* waits for it waits for a job that will move it on (LdmWaitServed).      *)
(*                                                                         *)
(* The window is hashed in order, and the sections still to be hashed      *)
(* follow it as links of a chain that wraps at most once (LdmChain); what  *)
(* is written later is kept apart from both (LdmApart).                    *)
(***************************************************************************)

RangeType  == [start : Nat, size : Nat]
WindowType == [ext : RangeType, pre : RangeType]

\* Without failures the jobs are hashed in order: the serial turns of exactly
\* those before serialNext are over.
LdmTurns ==
  /\ ldmWindow = ldmState
  /\ doneJobID <= serialNext /\ serialNext <= nextJobID
  /\ \A id \in Posted :
       jobs[id].state \in IF id < serialNext THEN {"hashed", "complete"} ELSE {"posted"}

Unhashed == serialNext .. nextJobID - 1

\* Where the section of the n-th job begins, in the buffer and in the input:
\* that of a job, or the one that is next to be filled.
SectionStart(n) == IF n < nextJobID THEN jobs[n].start ELSE pos
SectionLo(n)    == IF n < nextJobID THEN jobs[n].lo ELSE taken - filled

Section(id) == Span(jobs[id].start, jobs[id].size)

\* Where the input before that section ends in the buffer.
StopBefore(n) == IF n = serialNext THEN EndOf(ldmState.pre) ELSE EndOf(Section(n - 1))

Linked(start, stop) ==
  \/ start = stop
  \/ stop > Capacity - Target /\ start <= TargetPrefix

LdmChain ==
  \A n \in serialNext .. nextJobID :
    /\ Linked(SectionStart(n), StopBefore(n))
    /\ n > serialNext => SectionLo(n) = jobs[n - 1].lo + jobs[n - 1].size

\* The segment r holds the input up to last.
Holds(r, last) ==
  /\ EndOf(r) <= Capacity
  /\ \A k \in 1 .. r.size : mem[r.start + k - 1] = last - r.size + k

LdmContent ==
  /\ Holds(ldmState.pre, SectionLo(serialNext))
  /\ Holds(ldmState.ext, SectionLo(serialNext) - ldmState.pre.size)

WindowClear(r) == ~IsOverlapped(r, ldmState.ext) /\ ~IsOverlapped(r, ldmState.pre)

\* Nothing that will be written or hashed lies in the window.
LdmApart ==
  /\ \A id \in Unhashed : WindowClear(Section(id))
  /\ \A i, k \in Unhashed : i # k => ~IsOverlapped(Section(i), Section(k))
  /\ have => WindowClear(NextRange)

\* An older segment ends at the end of the buffer, the current one then begins
\* at its beginning.
LdmPlaced ==
  /\ ldmState.ext.size + ldmState.pre.size <= windowSize
  /\ ldmState.pre.size = 0 => ldmState.ext.size = 0
  /\ ldmState.ext.size > 0 =>
       /\ ldmState.pre.start <= TargetPrefix
       /\ EndOf(ldmState.ext) > Capacity - Target

LdmOff == windowSize = 0 => ldmState = EmptyWindow

LdmKept == LdmChain /\ LdmContent /\ LdmApart /\ LdmPlaced

LdmInv ==
  failures = 0 =>
    /\ ldmState \in WindowType /\ LdmTurns /\ LdmOff
    /\ windowSize > 0 => LdmKept

-----------------------------------------------------------------------------
\* The jobs still to be hashed are jobs that run.
LEMMA UnhashedJobs ==
  ASSUME IInv, LdmTurns
  PROVE  /\ serialNext \in Nat /\ nextJobID \in Nat /\ serialNext <= nextJobID
         /\ \A id \in Unhashed :
              /\ id \in Nat /\ id \in Posted /\ id \in Running
              /\ jobs[id].start \in Nat /\ jobs[id].size \in Nat /\ jobs[id].lo \in Nat
              /\ jobs[id].psize \in Nat /\ jobs[id].psize <= jobs[id].start
              /\ jobs[id].size > 0 /\ EndOf(Section(id)) <= Capacity
              /\ Section(id) \in RangeType
<1>1. TypeOK /\ serialNext \in Nat /\ nextJobID \in Nat /\ doneJobID \in Nat
      /\ doneJobID <= serialNext /\ serialNext <= nextJobID
  BY Numbers DEF IInv, TypeOK, LdmTurns
<1>2. ASSUME NEW id \in Unhashed PROVE id \in Nat /\ id \in Posted /\ id \in Running
  <2>1. id \in Nat /\ id \in Posted /\ ~(id < serialNext)
    BY <1>1 DEF Unhashed, Posted
  <2>2. jobs[id].state = "posted"
    BY <2>1 DEF LdmTurns
  <2> QED BY <2>1, <2>2 DEF Running, Incomplete
<1>3. ASSUME NEW id \in Running
      PROVE  /\ jobs[id].start \in Nat /\ jobs[id].size \in Nat /\ jobs[id].lo \in Nat
             /\ jobs[id].psize \in Nat /\ jobs[id].psize <= jobs[id].start
             /\ jobs[id].size > 0 /\ EndOf(Section(id)) <= Capacity
             /\ Section(id) \in RangeType
  <2>1. /\ jobs[id].start \in Nat /\ jobs[id].size \in Nat /\ jobs[id].lo \in Nat
        /\ jobs[id].psize \in Nat /\ jobs[id].size <= Target
    BY <1>1, JobNumbers
  <2>2. /\ jobs[id].psize <= jobs[id].start /\ jobs[id].size > 0
        /\ jobs[id].start + Target <= Capacity
    BY DEF IInv, Shape
  <2>3. Target \in Nat /\ Capacity \in Nat
    BY <1>1, Sizes
  <2>4. EndOf(Section(id)) <= Capacity /\ Section(id) \in RangeType
    BY <2>1, <2>2, <2>3 DEF Section, Span, EndOf, RangeType
  <2> QED BY <2>1, <2>2, <2>4
<1> QED BY <1>1, <1>2, <1>3

\* The bytes of such a section.
LEMMA SectionContent ==
  ASSUME IInv, LdmTurns, NEW id \in Unhashed
  PROVE  Holds(Section(id), jobs[id].lo + jobs[id].size)
<1>1. /\ id \in Running /\ EndOf(Section(id)) <= Capacity
      /\ jobs[id].start \in Nat /\ jobs[id].size \in Nat /\ jobs[id].lo \in Nat
      /\ jobs[id].psize \in Nat
  BY UnhashedJobs
<1>2. ASSUME NEW k \in 1 .. jobs[id].size
      PROVE  mem[jobs[id].start + k - 1] = jobs[id].lo + jobs[id].size - jobs[id].size + k
  <2> DEFINE m == jobs[id].psize + k
  <2>1. m \in 1 .. jobs[id].psize + jobs[id].size
    BY <1>1
  <2>2. /\ Low(id) + m - 1 = jobs[id].start + k - 1
        /\ jobs[id].lo - jobs[id].psize + m = jobs[id].lo + jobs[id].size - jobs[id].size + k
    BY <1>1 DEF Low
  <2> HIDE DEF m
  <2>3. mem[Low(id) + m - 1] = jobs[id].lo - jobs[id].psize + m
    BY <1>1, <2>1 DEF IInv, JobContent
  <2> QED BY <2>2, <2>3
<1> QED BY <1>1, <1>2 DEF Holds, Section, Span

\* The numbers of the chain.
LEMMA ChainNumbers ==
  ASSUME IInv, LdmTurns, NEW n \in serialNext .. nextJobID
  PROVE  /\ n \in Nat /\ SectionStart(n) \in Nat /\ SectionLo(n) \in Nat
         /\ n > serialNext => n - 1 \in Unhashed
<1>1. /\ serialNext \in Nat /\ nextJobID \in Nat /\ TypeOK /\ PrefixInv
  BY UnhashedJobs DEF IInv
<1>2. /\ pos \in Nat /\ taken \in Nat /\ filled \in Nat /\ prefixSize \in Nat
      /\ prefixSize + filled <= taken
  BY <1>1, Numbers DEF PrefixInv
<1>3. n \in Nat /\ (n > serialNext => n - 1 \in Unhashed)
  BY <1>1 DEF Unhashed
<1>4. CASE n < nextJobID
  <2>1. n \in Unhashed
    BY <1>1, <1>4 DEF Unhashed
  <2> QED BY <1>3, <1>4, <2>1, UnhashedJobs DEF SectionStart, SectionLo
<1>5. CASE ~(n < nextJobID)
  BY <1>2, <1>3, <1>5 DEF SectionStart, SectionLo
<1> QED BY <1>4, <1>5

-----------------------------------------------------------------------------
\* Steps that leave the window and the serial turn alone.

\* The window keeps its bytes if nothing is written over them.
LEMMA ContentKept ==
  ASSUME LdmContent, UNCHANGED <<windowSize, ldmState>>,
         SectionLo(serialNext)' = SectionLo(serialNext),
         \A k \in 1 .. ldmState.pre.size :
           mem'[ldmState.pre.start + k - 1] = mem[ldmState.pre.start + k - 1],
         \A k \in 1 .. ldmState.ext.size :
           mem'[ldmState.ext.start + k - 1] = mem[ldmState.ext.start + k - 1]
  PROVE  LdmContent'
<1>1. Capacity' = Capacity
  BY DEF Capacity
<1> QED BY <1>1 DEF LdmContent, Holds, EndOf

\* The window stays apart from the sections still to be hashed if those stay.
LEMMA ApartKept ==
  ASSUME LdmApart, UNCHANGED ldmState, Unhashed' = Unhashed,
         \A id \in Unhashed : Section(id)' = Section(id),
         have' => WindowClear(NextRange)'
  PROVE  LdmApart'
<1>1. \A id \in Unhashed : WindowClear(Section(id))'
  <2> SUFFICES ASSUME NEW id \in Unhashed PROVE WindowClear(Section(id))'
    OBVIOUS
  <2>1. WindowClear(Section(id)) /\ Section(id)' = Section(id)
    BY DEF LdmApart
  <2> QED BY <2>1 DEF WindowClear, IsOverlapped, EndOf
<1>2. ASSUME NEW i \in Unhashed, NEW k \in Unhashed, i # k
      PROVE  ~IsOverlapped(Section(i), Section(k))'
  <2>1. /\ ~IsOverlapped(Section(i), Section(k))
        /\ Section(i)' = Section(i) /\ Section(k)' = Section(k)
    BY <1>2 DEF LdmApart
  <2> QED BY <2>1 DEF IsOverlapped, EndOf
<1> QED BY <1>1, <1>2 DEF LdmApart

\* Steps of the application thread that write nothing and cut nothing.
LEMMA SameLdm ==
  ASSUME LdmInv, have' => have,
         UNCHANGED <<windowSize, mem, pos, filled, taken, jobs, doneJobID, nextJobID,
                     serialNext, ldmState, ldmWindow, failures>>
  PROVE  LdmInv'
<1> SUFFICES ASSUME failures = 0
             PROVE  /\ ldmState \in WindowType /\ LdmTurns' /\ LdmOff'
                    /\ windowSize > 0 => LdmKept'
  BY DEF LdmInv
<1>1. /\ ldmState \in WindowType /\ LdmTurns /\ LdmOff
      /\ windowSize > 0 => LdmKept
  BY DEF LdmInv
<1>2. Capacity' = Capacity /\ Posted' = Posted /\ Unhashed' = Unhashed
  BY DEF Capacity, Posted, Unhashed
<1>3. \A n : /\ SectionStart(n)' = SectionStart(n) /\ SectionLo(n)' = SectionLo(n)
             /\ Section(n)' = Section(n) /\ StopBefore(n)' = StopBefore(n)
  BY DEF SectionStart, SectionLo, Section, StopBefore, Span, EndOf
<1>4. LdmTurns' /\ LdmOff'
  BY <1>1, <1>2 DEF LdmTurns, LdmOff
<1>5. ASSUME windowSize > 0 PROVE LdmKept'
  <2>1. LdmChain /\ LdmContent /\ LdmApart /\ LdmPlaced
    BY <1>1, <1>5 DEF LdmKept
  <2>2. LdmChain'
    BY <1>2, <1>3, <2>1 DEF LdmChain, Linked
  <2>3. LdmContent'
    BY <1>3, <2>1, ContentKept
  <2>4. have' => WindowClear(NextRange)'
    BY <2>1 DEF LdmApart, WindowClear, NextRange, Span, IsOverlapped, EndOf
  <2>5. LdmApart'
    BY <1>2, <1>3, <2>1, <2>4, ApartKept
  <2>6. LdmPlaced'
    BY <1>2, <2>1 DEF LdmPlaced, EndOf
  <2> QED BY <2>2, <2>3, <2>5, <2>6 DEF LdmKept
<1> QED BY <1>1, <1>4, <1>5

\* ZSTDMT_tryGetInputRange: the prefix is copied only to where the window is not.
LEMMA WrapAroundLdm == IInv /\ LdmInv /\ WrapAround => LdmInv'
<1> SUFFICES ASSUME IInv, LdmInv, WrapAround, failures = 0
             PROVE  /\ (ldmState \in WindowType)' /\ LdmTurns' /\ LdmOff'
                    /\ windowSize' > 0 => LdmKept'
  BY DEF LdmInv, WrapAround
<1>1. /\ ldmState \in WindowType /\ LdmTurns /\ LdmOff
      /\ windowSize > 0 => LdmKept
  BY DEF LdmInv
<1>2. /\ UNCHANGED <<jobs, doneJobID, nextJobID, serialNext, ldmState, ldmWindow, taken>>
      /\ UNCHANGED <<windowSize, have, filled>>
      /\ pos' = prefixSize /\ MustWrap /\ ~have
      /\ mem' = [a \in 0 .. Capacity - 1 |->
                   IF a < prefixSize THEN mem[prefixStart + a] ELSE mem[a]]
  BY DEF WrapAround, jobVars, serialVars, IInv, RangeInv
<1>3. /\ TypeOK /\ Capacity \in Nat /\ Target \in Nat /\ pos \in Nat
      /\ prefixSize \in Nat /\ prefixSize <= TargetPrefix
  BY Sizes, Numbers DEF IInv
<1>4. Capacity' = Capacity /\ Posted' = Posted /\ Unhashed' = Unhashed
  BY <1>2 DEF Capacity, Posted, Unhashed
<1>5. LdmTurns' /\ LdmOff'
  BY <1>1, <1>2, <1>4 DEF LdmTurns, LdmOff
<1>6. ASSUME windowSize > 0 PROVE LdmKept'
  <2>1. LdmChain /\ LdmContent /\ LdmApart /\ LdmPlaced
    BY <1>1, <1>6 DEF LdmKept
  <2>2. \A n : /\ SectionLo(n)' = SectionLo(n) /\ Section(n)' = Section(n)
               /\ StopBefore(n)' = StopBefore(n)
    BY <1>2 DEF SectionLo, Section, StopBefore, Span, EndOf
  <2>3. LdmChain'
    <3> SUFFICES ASSUME NEW n \in serialNext .. nextJobID
                 PROVE  /\ Linked(SectionStart(n)', StopBefore(n))
                        /\ n > serialNext => SectionLo(n) = jobs[n - 1].lo + jobs[n - 1].size
      BY <1>2, <1>4, <2>2 DEF LdmChain, Linked
    <3>1. /\ Linked(SectionStart(n), StopBefore(n))
          /\ n > serialNext => SectionLo(n) = jobs[n - 1].lo + jobs[n - 1].size
      BY <2>1 DEF LdmChain
    <3>2. CASE n < nextJobID
      BY <1>2, <3>1, <3>2 DEF SectionStart
    <3>3. CASE ~(n < nextJobID)
      <4>1. SectionStart(n) = pos /\ SectionStart(n)' = prefixSize
        BY <1>2, <3>3 DEF SectionStart
      <4>2. StopBefore(n) > Capacity - Target
        BY <1>2, <1>3, <3>1, <4>1 DEF Linked, MustWrap
      <4> QED BY <1>3, <3>1, <4>1, <4>2 DEF Linked
    <3> QED BY <3>2, <3>3
  <2>4. LdmContent'
    <3>1. ASSUME NEW r \in RangeType, EndOf(r) <= Capacity, ~IsOverlapped(PrefixCopy, r),
                 NEW k \in 1 .. r.size
          PROVE  mem'[r.start + k - 1] = mem[r.start + k - 1]
      <4>1. r.start \in Nat /\ r.size \in Nat
        BY DEF RangeType
      <4>2. prefixSize > 0 => r.start >= prefixSize
        BY <1>3, <3>1, <4>1 DEF IsOverlapped, PrefixCopy, Span, EndOf
      <4>3. r.start + k - 1 \in 0 .. Capacity - 1 /\ ~(r.start + k - 1 < prefixSize)
        BY <1>3, <3>1, <4>1, <4>2 DEF EndOf
      <4> QED BY <1>2, <4>3
    <3>2. /\ ~IsOverlapped(PrefixCopy, ldmState.ext)
          /\ ~IsOverlapped(PrefixCopy, ldmState.pre)
      BY <1>1, <1>3, <1>6 DEF WrapAround, LdmComplete, LdmTurns
    <3>3. /\ ldmState.ext \in RangeType /\ EndOf(ldmState.ext) <= Capacity
          /\ ldmState.pre \in RangeType /\ EndOf(ldmState.pre) <= Capacity
      BY <1>1, <2>1 DEF LdmContent, Holds, WindowType
    <3> QED BY <1>2, <2>1, <2>2, <3>1, <3>2, <3>3, ContentKept
  <2>5. LdmApart'
    BY <1>2, <1>4, <2>1, <2>2, ApartKept
  <2>6. LdmPlaced'
    BY <1>2, <1>4, <2>1 DEF LdmPlaced, EndOf
  <2> QED BY <2>3, <2>4, <2>5, <2>6 DEF LdmKept
<1> QED BY <1>1, <1>2, <1>5, <1>6

\* A section is granted only where the window is not.
LEMMA GrantRangeLdm == IInv /\ LdmInv /\ GrantRange => LdmInv'
<1> SUFFICES ASSUME IInv, LdmInv, GrantRange, failures = 0
             PROVE  /\ (ldmState \in WindowType)' /\ LdmTurns' /\ LdmOff'
                    /\ windowSize' > 0 => LdmKept'
  BY DEF LdmInv, GrantRange
<1>1. /\ ldmState \in WindowType /\ LdmTurns /\ LdmOff
      /\ windowSize > 0 => LdmKept
  BY DEF LdmInv
<1>2. /\ UNCHANGED <<jobs, doneJobID, nextJobID, serialNext, ldmState, ldmWindow, taken>>
      /\ UNCHANGED <<windowSize, mem, pos, filled>>
  BY DEF GrantRange, jobVars, serialVars, IInv, RangeInv
<1>3. Capacity' = Capacity /\ Posted' = Posted /\ Unhashed' = Unhashed
  BY <1>2 DEF Capacity, Posted, Unhashed
<1>4. \A n : /\ SectionStart(n)' = SectionStart(n) /\ SectionLo(n)' = SectionLo(n)
             /\ Section(n)' = Section(n) /\ StopBefore(n)' = StopBefore(n)
  BY <1>2 DEF SectionStart, SectionLo, Section, StopBefore, Span, EndOf
<1>5. LdmTurns' /\ LdmOff'
  BY <1>1, <1>2, <1>3 DEF LdmTurns, LdmOff
<1>6. ASSUME windowSize > 0 PROVE LdmKept'
  <2>1. LdmChain /\ LdmContent /\ LdmApart /\ LdmPlaced /\ windowSize \in Nat
    BY <1>1, <1>6, RoundAssumption DEF LdmKept, IInv, TypeOK
  <2>2. LdmChain'
    BY <1>2, <1>3, <1>4, <2>1 DEF LdmChain, Linked
  <2>3. LdmContent'
    BY <1>2, <1>4, <2>1, ContentKept
  <2>4. WindowClear(NextRange)
    BY <1>1, <1>6, <2>1 DEF GrantRange, LdmComplete, LdmTurns, WindowClear
  <2>5. WindowClear(NextRange)'
    BY <1>2, <2>4 DEF WindowClear, NextRange, Span, IsOverlapped, EndOf
  <2>6. LdmApart'
    BY <1>2, <1>3, <1>4, <2>1, <2>5, ApartKept
  <2>7. LdmPlaced'
    BY <1>2, <1>3, <2>1 DEF LdmPlaced, EndOf
  <2> QED BY <2>2, <2>3, <2>6, <2>7 DEF LdmKept
<1> QED BY <1>1, <1>2, <1>5, <1>6

\* Filling writes into the granted section only.
LEMMA FillLdm == IInv /\ LdmInv /\ (\E n \in 1 .. Target : Fill(n)) => LdmInv'
<1> SUFFICES ASSUME IInv, LdmInv, NEW m \in 1 .. Target, Fill(m), failures = 0
             PROVE  /\ (ldmState \in WindowType)' /\ LdmTurns' /\ LdmOff'
                    /\ windowSize' > 0 => LdmKept'
  BY DEF LdmInv, Fill
<1>1. /\ ldmState \in WindowType /\ LdmTurns /\ LdmOff
      /\ windowSize > 0 => LdmKept
  BY DEF LdmInv
<1>2. /\ UNCHANGED <<jobs, doneJobID, nextJobID, serialNext, ldmState, ldmWindow>>
      /\ UNCHANGED <<windowSize, have, pos>> /\ have
      /\ filled' = filled + m /\ taken' = taken + m /\ filled + m <= Target
      /\ mem' = [a \in 0 .. Capacity - 1 |->
                   IF a \in pos + filled .. pos + filled + m - 1
                   THEN taken + 1 + (a - (pos + filled)) ELSE mem[a]]
  BY DEF Fill, jobVars, serialVars
<1>3. /\ TypeOK /\ Capacity \in Nat /\ Target \in Nat /\ pos \in Nat /\ Target > 0
      /\ filled \in Nat /\ taken \in Nat
  BY Sizes, Numbers DEF IInv
<1>4. Capacity' = Capacity /\ Posted' = Posted /\ Unhashed' = Unhashed
  BY <1>2 DEF Capacity, Posted, Unhashed
<1>5. LdmTurns' /\ LdmOff'
  BY <1>1, <1>2, <1>4 DEF LdmTurns, LdmOff
<1>6. ASSUME windowSize > 0 PROVE LdmKept'
  <2>1. LdmChain /\ LdmContent /\ LdmApart /\ LdmPlaced
    BY <1>1, <1>6 DEF LdmKept
  <2>2. taken' - filled' = taken - filled
    BY <1>2, <1>3
  <2>3. \A n : /\ SectionStart(n)' = SectionStart(n) /\ SectionLo(n)' = SectionLo(n)
               /\ Section(n)' = Section(n) /\ StopBefore(n)' = StopBefore(n)
    BY <1>2, <2>2 DEF SectionStart, SectionLo, Section, StopBefore, Span, EndOf
  <2>4. LdmChain'
    BY <1>2, <1>4, <2>1, <2>3 DEF LdmChain, Linked
  <2>5. LdmContent'
    <3>1. ASSUME NEW r \in RangeType, EndOf(r) <= Capacity, ~IsOverlapped(NextRange, r),
                 NEW k \in 1 .. r.size
          PROVE  mem'[r.start + k - 1] = mem[r.start + k - 1]
      <4>1. r.start \in Nat /\ r.size \in Nat
        BY DEF RangeType
      <4>2. r.start >= pos + Target \/ pos >= r.start + r.size
        BY <1>3, <3>1, <4>1 DEF IsOverlapped, NextRange, Span, EndOf
      <4>3. /\ r.start + k - 1 \in 0 .. Capacity - 1
            /\ r.start + k - 1 \notin pos + filled .. pos + filled + m - 1
        <5>1. r.start + r.size <= Capacity /\ filled + m <= Target
          BY <1>2, <3>1 DEF EndOf
        <5> QED BY <1>3, <4>1, <4>2, <5>1
      <4> QED BY <1>2, <4>3
    <3>2. ~IsOverlapped(NextRange, ldmState.ext) /\ ~IsOverlapped(NextRange, ldmState.pre)
      BY <1>2, <2>1 DEF LdmApart, WindowClear
    <3>3. /\ ldmState.ext \in RangeType /\ EndOf(ldmState.ext) <= Capacity
          /\ ldmState.pre \in RangeType /\ EndOf(ldmState.pre) <= Capacity
      BY <1>1, <2>1 DEF LdmContent, Holds, WindowType
    <3> QED BY <1>2, <2>1, <2>3, <3>1, <3>2, <3>3, ContentKept
  <2>6. WindowClear(NextRange)'
    BY <1>2, <2>1 DEF LdmApart, WindowClear, NextRange, Span, IsOverlapped, EndOf
  <2>7. LdmApart'
    BY <1>2, <1>4, <2>1, <2>3, <2>6, ApartKept
  <2>8. LdmPlaced'
    BY <1>2, <1>4, <2>1 DEF LdmPlaced, EndOf
  <2> QED BY <2>4, <2>5, <2>7, <2>8 DEF LdmKept
<1> QED BY <1>1, <1>2, <1>5, <1>6

-----------------------------------------------------------------------------
\* Steps on the jobs.

\* A section cut for a new job lies where the window and the others are not.
LEMMA CreateJobLdm ==
  IInv /\ LdmInv /\ (\E endFrame \in BOOLEAN : CreateJob(endFrame)) => LdmInv'
<1> SUFFICES ASSUME NEW n, n = nextJobID
             PROVE  IInv /\ LdmInv /\ (\E endFrame \in BOOLEAN : CreateJob(endFrame)) => LdmInv'
  OBVIOUS
<1> DEFINE new == [start |-> pos, size |-> filled, psize |-> prefixSize,
                  lo |-> taken - filled, state |-> "posted"]
<1> SUFFICES ASSUME IInv, LdmInv, NEW endFrame \in BOOLEAN, CreateJob(endFrame), failures = 0
             PROVE  /\ (ldmState \in WindowType)' /\ LdmTurns' /\ LdmOff'
                    /\ windowSize' > 0 => LdmKept'
  BY DEF LdmInv, CreateJob
<1>1. /\ ldmState \in WindowType /\ LdmTurns /\ LdmOff
      /\ windowSize > 0 => LdmKept
  BY DEF LdmInv
<1>2. /\ UNCHANGED <<windowSize, mem, doneJobID, serialNext, ldmState, ldmWindow, taken>>
      /\ have /\ ~have' /\ filled > 0 /\ filled' = 0 /\ pos' = pos + filled
      /\ nextJobID' = n + 1
      /\ jobs' = [id \in doneJobID .. n |-> IF id = n THEN new ELSE jobs[id]]
  BY DEF CreateJob, serialVars
<1>3. /\ TypeOK /\ PrefixInv /\ SectionFree /\ Placement
      /\ Target \in Nat /\ pos \in Nat /\ Target > 0 /\ filled \in Nat /\ taken \in Nat
      /\ filled <= Target /\ n \in Nat /\ serialNext \in Nat /\ doneJobID \in Nat
      /\ doneJobID <= serialNext /\ serialNext <= n
  BY <1>1, <1>2, Sizes, Numbers, UnhashedJobs DEF IInv, RangeInv, LdmTurns
<1>4. Capacity' = Capacity
  BY <1>2 DEF Capacity
<1>5. /\ Posted' = doneJobID .. n /\ Unhashed' = serialNext .. n
      /\ \A i \in Posted' : i = n \/ (i \in Posted /\ i < n /\ jobs'[i] = jobs[i])
      /\ jobs'[n] = new
      /\ \A i \in Unhashed' : i = n \/ (i \in Unhashed /\ i < n /\ jobs'[i] = jobs[i])
  BY <1>2, <1>3 DEF Posted, Unhashed
<1>6. LdmTurns' /\ LdmOff'
  <2>1. new.state = "posted"
    OBVIOUS
  <2> HIDE DEF new
  <2>2. \A i \in Posted' :
          jobs'[i].state \in IF i < serialNext THEN {"hashed", "complete"} ELSE {"posted"}
    BY <1>1, <1>3, <1>5, <2>1 DEF LdmTurns
  <2> QED BY <1>1, <1>2, <1>3, <2>2 DEF LdmTurns, LdmOff
<1>7. /\ jobs'[n].start = pos /\ jobs'[n].size = filled /\ jobs'[n].lo = taken - filled
      /\ Section(n)' = Span(pos, filled)
  BY <1>5 DEF Section
<1> HIDE DEF new
<1>8. ASSUME windowSize > 0 PROVE LdmKept'
  <2>1. LdmChain /\ LdmContent /\ LdmApart /\ LdmPlaced
    BY <1>1, <1>8 DEF LdmKept
  <2>2. \A i \in Unhashed : i \in Unhashed' /\ i < n /\ jobs'[i] = jobs[i]
                            /\ Section(i)' = Section(i) /\ EndOf(Section(i))' = EndOf(Section(i))
    BY <1>2, <1>3, <1>5 DEF Unhashed, Posted, Section, Span, EndOf
  <2>3. ASSUME NEW k \in serialNext .. n
        PROVE  /\ SectionStart(k)' = SectionStart(k) /\ SectionLo(k)' = SectionLo(k)
               /\ StopBefore(k)' = StopBefore(k)
               /\ k > serialNext => jobs'[k - 1] = jobs[k - 1]
    <3>1. k \in Nat /\ k < n + 1 /\ (k > serialNext => k - 1 \in Unhashed)
      BY <1>3 DEF Unhashed
    <3>2. SectionStart(k)' = SectionStart(k) /\ SectionLo(k)' = SectionLo(k)
      <4>1. CASE k = n
        BY <1>2, <1>3, <1>7, <4>1 DEF SectionStart, SectionLo
      <4>2. CASE k # n
        <5>1. k \in Unhashed /\ k < n
          BY <1>3, <3>1, <4>2 DEF Unhashed
        <5> QED BY <1>2, <2>2, <3>1, <5>1 DEF SectionStart, SectionLo
      <4> QED BY <4>1, <4>2
    <3>3. StopBefore(k)' = StopBefore(k)
      <4>1. CASE k = serialNext
        BY <1>2, <4>1 DEF StopBefore, EndOf
      <4>2. CASE k # serialNext
        BY <1>2, <1>3, <2>2, <3>1, <4>2 DEF StopBefore
      <4> QED BY <4>1, <4>2
    <3> QED BY <2>2, <3>1, <3>2, <3>3
  <2>4. LdmChain'
    <3> SUFFICES ASSUME NEW k \in serialNext .. n + 1
                 PROVE  /\ Linked(SectionStart(k)', StopBefore(k)')
                        /\ k > serialNext => SectionLo(k)' = jobs'[k - 1].lo + jobs'[k - 1].size
      BY <1>2, <1>4 DEF LdmChain, Linked
    <3>1. CASE k \in serialNext .. n
      BY <2>1, <2>3, <3>1 DEF LdmChain
    <3>2. CASE k = n + 1
      <4>1. k - 1 = n /\ k # serialNext /\ ~(k < n + 1)
        BY <1>3, <3>2
      <4>2. SectionStart(k)' = pos + filled /\ SectionLo(k)' = taken - 0
        BY <1>2, <4>1 DEF SectionStart, SectionLo
      <4>3. StopBefore(k)' = pos + filled
        BY <1>2, <1>7, <4>1 DEF StopBefore, EndOf, Span
      <4>4. SectionLo(k)' = jobs'[k - 1].lo + jobs'[k - 1].size
        BY <1>3, <1>7, <4>1, <4>2
      <4> QED BY <4>2, <4>3, <4>4 DEF Linked
    <3> QED BY <1>3, <3>1, <3>2
  <2>5. LdmContent'
    <3>1. SectionLo(serialNext)' = SectionLo(serialNext)
      BY <1>2, <1>3, <2>3
    <3> QED BY <1>2, <2>1, <3>1, ContentKept
  <2>6. LdmApart'
    <3>1. \A i \in Unhashed' : WindowClear(Section(i))'
      <4> SUFFICES ASSUME NEW i \in Unhashed' PROVE WindowClear(Section(i))'
        OBVIOUS
      <4>1. CASE i = n
        <5>1. WindowClear(NextRange) /\ ldmState.ext \in RangeType /\ ldmState.pre \in RangeType
          BY <1>1, <1>2, <2>1 DEF LdmApart, WindowType
        <5>2. WindowClear(Span(pos, filled))
          BY <1>3, <5>1 DEF WindowClear, NextRange, Span, IsOverlapped, EndOf, RangeType
        <5> QED BY <1>2, <1>7, <4>1, <5>2 DEF WindowClear, IsOverlapped, EndOf
      <4>2. CASE i \in Unhashed
        <5>1. WindowClear(Section(i)) /\ Section(i)' = Section(i)
          BY <2>1, <2>2, <4>2 DEF LdmApart
        <5> QED BY <1>2, <5>1 DEF WindowClear, IsOverlapped, EndOf
      <4> QED BY <1>5, <4>1, <4>2
    <3>2. ASSUME NEW i \in Unhashed
          PROVE  /\ ~IsOverlapped(Section(i), Section(n))'
                 /\ ~IsOverlapped(Section(n), Section(i))'
      <4>1. /\ i \in Running /\ jobs[i].start \in Nat /\ jobs[i].size \in Nat
            /\ jobs[i].psize \in Nat
        BY <1>1, UnhashedJobs
      <4>2. Behind(i) \/ Ahead(i)
        BY <1>3, <4>1 DEF Placement
      <4>3. jobs[i].start + jobs[i].size <= pos \/ pos + Target <= jobs[i].start
        BY <1>3, <4>1, <4>2 DEF SectionFree, Behind, Ahead, High, Low
      <4>4. Section(i)' = Span(jobs[i].start, jobs[i].size) /\ Section(n)' = Span(pos, filled)
        BY <1>7, <2>2 DEF Section
      <4> QED BY <1>3, <4>1, <4>3, <4>4 DEF IsOverlapped, EndOf, Span
    <3>3. ASSUME NEW i \in Unhashed', NEW k \in Unhashed', i # k
          PROVE  ~IsOverlapped(Section(i), Section(k))'
      <4>1. CASE i \in Unhashed /\ k \in Unhashed
        <5>1. /\ ~IsOverlapped(Section(i), Section(k))
              /\ Section(i)' = Section(i) /\ Section(k)' = Section(k)
          BY <2>1, <2>2, <3>3, <4>1 DEF LdmApart
        <5> QED BY <5>1 DEF IsOverlapped, EndOf
      <4>2. CASE i = n /\ k \in Unhashed
        BY <1>2, <3>2, <4>2
      <4>3. CASE k = n /\ i \in Unhashed
        BY <1>2, <3>2, <4>3
      <4> QED BY <1>5, <3>3, <4>1, <4>2, <4>3
    <3> QED BY <1>2, <3>1, <3>3 DEF LdmApart
  <2>7. LdmPlaced'
    BY <1>2, <1>4, <2>1 DEF LdmPlaced, EndOf
  <2> QED BY <2>4, <2>5, <2>6, <2>7 DEF LdmKept
<1> QED BY <1>1, <1>2, <1>6, <1>8

\* Steps that change only jobs whose turn is over.
LEMMA HashedJobsLdm ==
  ASSUME IInv, LdmInv, LdmTurns', failures = 0,
         UNCHANGED <<windowSize, mem, pos, have, filled, taken, nextJobID,
                     serialNext, ldmState, failures>>,
         \A id \in Unhashed : jobs'[id] = jobs[id]
  PROVE  LdmInv'
<1>1. /\ ldmState \in WindowType /\ LdmTurns /\ LdmOff
      /\ windowSize > 0 => LdmKept
  BY DEF LdmInv
<1>2. Capacity' = Capacity /\ Unhashed' = Unhashed /\ LdmOff'
  BY <1>1 DEF Capacity, Unhashed, LdmOff
<1>3. ASSUME windowSize > 0 PROVE LdmKept'
  <2>1. LdmChain /\ LdmContent /\ LdmApart /\ LdmPlaced
    BY <1>1, <1>3 DEF LdmKept
  <2>2. \A id \in Unhashed : Section(id)' = Section(id)
    BY DEF Section, Span
  <2>3. ASSUME NEW n \in serialNext .. nextJobID
        PROVE  /\ SectionStart(n)' = SectionStart(n) /\ SectionLo(n)' = SectionLo(n)
               /\ StopBefore(n)' = StopBefore(n)
               /\ n > serialNext => jobs'[n - 1] = jobs[n - 1]
    <3>1. n \in Nat /\ serialNext \in Nat /\ nextJobID \in Nat /\ serialNext <= nextJobID
          /\ (n > serialNext => n - 1 \in Unhashed)
      BY <1>1, ChainNumbers, UnhashedJobs
    <3>2. n < nextJobID => jobs'[n] = jobs[n]
      BY <3>1 DEF Unhashed
    <3>3. SectionStart(n)' = SectionStart(n) /\ SectionLo(n)' = SectionLo(n)
      BY <3>2 DEF SectionStart, SectionLo
    <3>4. StopBefore(n)' = StopBefore(n)
      BY <2>2, <3>1 DEF StopBefore, EndOf
    <3> QED BY <3>1, <3>3, <3>4
  <2>4. LdmChain'
    BY <1>2, <2>1, <2>3 DEF LdmChain, Linked
  <2>5. LdmContent'
    <3>1. serialNext \in serialNext .. nextJobID
      BY <1>1, UnhashedJobs
    <3>2. SectionLo(serialNext)' = SectionLo(serialNext)
      BY <2>3, <3>1
    <3> QED BY <2>1, <3>2, ContentKept
  <2>6. have' => WindowClear(NextRange)'
    BY <2>1 DEF LdmApart, WindowClear, NextRange, Span, IsOverlapped, EndOf
  <2>7. LdmApart'
    BY <1>2, <2>1, <2>2, <2>6, ApartKept
  <2>8. LdmPlaced'
    BY <1>2, <2>1 DEF LdmPlaced, EndOf
  <2> QED BY <2>4, <2>5, <2>7, <2>8 DEF LdmKept
<1> QED BY <1>1, <1>2, <1>3 DEF LdmInv

\* A job is retired only after its turn.
LEMMA RetireLdm == IInv /\ LdmInv /\ RetireJob => LdmInv'
<1> SUFFICES ASSUME IInv, LdmInv, RetireJob, failures = 0 PROVE LdmInv'
  BY DEF LdmInv, RetireJob
<1>1. LdmTurns /\ TypeOK
  BY DEF LdmInv, IInv
<1>2. /\ UNCHANGED <<windowSize, mem, pos, have, filled, taken, nextJobID,
                     serialNext, ldmState, ldmWindow, failures>>
      /\ doneJobID < nextJobID /\ jobs[doneJobID].state = "complete"
      /\ doneJobID' = doneJobID + 1
      /\ jobs' = [id \in doneJobID + 1 .. nextJobID - 1 |-> jobs[id]]
  BY DEF RetireJob, inVars, serialVars
<1>3. doneJobID \in Nat /\ nextJobID \in Nat /\ serialNext \in Nat
  BY <1>1, Numbers, UnhashedJobs
<1>4. doneJobID < serialNext
  <2>1. doneJobID \in Posted /\ doneJobID <= serialNext
    BY <1>1, <1>2, <1>3 DEF Posted, LdmTurns
  <2>2. ~(doneJobID < serialNext) => jobs[doneJobID].state \in {"posted"}
    BY <1>1, <2>1 DEF LdmTurns
  <2> QED BY <1>2, <2>2
<1>5. /\ Posted' = doneJobID + 1 .. nextJobID - 1
      /\ \A id \in Posted' : id \in Posted /\ jobs'[id] = jobs[id]
      /\ \A id \in Unhashed : jobs'[id] = jobs[id]
  BY <1>2, <1>3, <1>4 DEF Posted, Unhashed
<1>6. LdmTurns'
  BY <1>1, <1>2, <1>3, <1>4, <1>5 DEF LdmTurns
<1> QED BY <1>2, <1>5, <1>6, HashedJobsLdm

\* A job reports its end only after its turn.
LEMMA ReportLdm ==
  ASSUME IInv, LdmInv, NEW id \in Posted, ReportJob(id)
  PROVE  LdmInv'
<1> SUFFICES ASSUME failures = 0 PROVE LdmInv'
  BY DEF LdmInv, ReportJob
<1>1. LdmTurns /\ TypeOK /\ jobs \in [Posted -> JobType]
  BY JobsTyped DEF LdmInv, IInv
<1>2. UNCHANGED <<windowSize, mem, pos, have, filled, taken, doneJobID, nextJobID,
                  serialNext, ldmState, ldmWindow, failures>>
  BY DEF ReportJob, inVars, serialVars
<1>3. serialNext \in Nat /\ id \in Nat /\ doneJobID \in Nat /\ nextJobID \in Nat
  BY <1>1, Numbers, UnhashedJobs DEF Posted
<1>4. /\ jobs[id].state \notin {"posted", "failing"} /\ id < serialNext
      /\ jobs' = [jobs EXCEPT ![id] = Over("complete")]
  <2>1. jobs[id].state \in IF id < serialNext THEN {"hashed", "complete"} ELSE {"posted"}
    BY <1>1 DEF LdmTurns
  <2>2. jobs[id].state \in {"hashed", "failing"}
    BY DEF ReportJob
  <2> QED BY <2>1, <2>2 DEF ReportJob
<1>5. Posted' = Posted
  BY <1>2 DEF Posted
<1>6. \A i \in Posted : i # id => jobs'[i] = jobs[i]
  BY <1>1, <1>4
<1>7. jobs'[id].state = "complete"
  BY <1>1, <1>4 DEF Over
<1>8. \A i \in Unhashed : jobs'[i] = jobs[i]
  <2>1. \A i \in Unhashed : i \in Posted /\ i # id
    BY <1>1, <1>3, <1>4, UnhashedJobs DEF Unhashed
  <2> QED BY <1>6, <2>1
<1>9. LdmTurns'
  BY <1>1, <1>2, <1>4, <1>5, <1>6, <1>7 DEF LdmTurns
<1> QED BY <1>2, <1>8, <1>9, HashedJobsLdm

\* A new frame begins with an empty window at the beginning of the buffer.
LEMMA InitCStreamLdm == IInv /\ InitCStream => LdmInv'
<1> SUFFICES ASSUME IInv, InitCStream, failures' = 0 PROVE LdmInv'
  BY DEF LdmInv
<1>1. /\ ldmState' = EmptyWindow /\ ldmWindow' = EmptyWindow /\ pos' = 0 /\ taken' = 0
      /\ filled' = 0 /\ ~have' /\ doneJobID' = 0 /\ nextJobID' = 0 /\ serialNext' = 0
      /\ windowSize' = windowSize
  BY DEF InitCStream
<1>2. /\ Posted' = {} /\ Unhashed' = {} /\ Capacity' = Capacity /\ Capacity \in Nat
  BY <1>1, Sizes DEF Posted, Unhashed, Capacity, IInv
<1>3. EmptyWindow \in WindowType /\ EmptyWindow.ext = Span(0, 0) /\ EmptyWindow.pre = Span(0, 0)
      /\ EndOf(EmptyWindow.pre) = 0 /\ EndOf(EmptyWindow.ext) = 0
  BY DEF EmptyWindow, WindowType, RangeType, NullRange, Span, EndOf
<1>4. LdmTurns' /\ LdmOff' /\ (ldmState \in WindowType)'
  BY <1>1, <1>2, <1>3 DEF LdmTurns, LdmOff
<1>5. LdmChain'
  <2>1. \A n \in 0 .. 0 : n = 0
    OBVIOUS
  <2>2. SectionStart(0)' = 0 /\ StopBefore(0)' = 0 /\ ~(0 > 0)
    BY <1>1, <1>3 DEF SectionStart, StopBefore, EndOf
  <2> QED BY <1>1, <2>1, <2>2 DEF LdmChain, Linked
<1>6. LdmContent'
  BY <1>1, <1>2, <1>3 DEF LdmContent, Holds, EndOf, Span
<1>7. LdmApart'
  BY <1>1, <1>2 DEF LdmApart
<1>8. LdmPlaced'
  <2>1. windowSize \in Nat
    BY RoundAssumption DEF IInv, TypeOK
  <2> QED BY <1>1, <1>3, <2>1 DEF LdmPlaced, Span
<1> QED BY <1>4, <1>5, <1>6, <1>7, <1>8 DEF LdmInv, LdmKept

-----------------------------------------------------------------------------
\* ZSTDMT_serialState_update: the window moves on by a section.

LEMMA KeepLastRange ==
  ASSUME NEW r \in RangeType, NEW n \in Nat
  PROVE  /\ KeepLast(r, n) \in RangeType /\ EndOf(KeepLast(r, n)) = EndOf(r)
         /\ KeepLast(r, n).size <= n /\ KeepLast(r, n).size <= r.size
         /\ r.size <= n => KeepLast(r, n) = r
         /\ r.size > 0 /\ n > 0 => KeepLast(r, n).size > 0
         /\ \A x \in RangeType : ~IsOverlapped(x, r) => ~IsOverlapped(x, KeepLast(r, n))
         /\ \A last \in Int : Holds(r, last) => Holds(KeepLast(r, n), last)
<1>1. r.start \in Nat /\ r.size \in Nat
  BY DEF RangeType
<1>2. CASE r.size <= n
  BY <1>1, <1>2 DEF KeepLast
<1>3. CASE ~(r.size <= n)
  <2>1. KeepLast(r, n) = Span(r.start + r.size - n, n)
    <3>1. KeepLast(r, n) = Span(EndOf(r) - n, n)
      BY <1>3 DEF KeepLast
    <3>2. EndOf(r) - n = r.start + r.size - n
      BY <1>1 DEF EndOf
    <3> QED BY <3>1, <3>2
  <2>2. /\ KeepLast(r, n) \in RangeType /\ EndOf(KeepLast(r, n)) = EndOf(r)
    BY <1>1, <1>3, <2>1 DEF Span, RangeType, EndOf
  <2>3. ASSUME NEW x \in RangeType, ~IsOverlapped(x, r)
        PROVE  ~IsOverlapped(x, KeepLast(r, n))
    BY <1>1, <1>3, <2>1, <2>3 DEF Span, RangeType, EndOf, IsOverlapped
  <2>4. ASSUME NEW last \in Int, Holds(r, last) PROVE Holds(KeepLast(r, n), last)
    <3>1. ASSUME NEW k \in 1 .. n PROVE mem[r.start + r.size - n + k - 1] = last - n + k
      <4> DEFINE m == r.size - n + k
      <4>1. /\ m \in 1 .. r.size /\ r.start + m - 1 = r.start + r.size - n + k - 1
            /\ last - r.size + m = last - n + k
        BY <1>1, <1>3
      <4> HIDE DEF m
      <4>2. mem[r.start + m - 1] = last - r.size + m
        BY <2>4, <4>1 DEF Holds
      <4> QED BY <4>1, <4>2
    <3>2. EndOf(KeepLast(r, n)) <= Capacity
      BY <2>2, <2>4 DEF Holds
    <3> QED BY <2>1, <3>1, <3>2 DEF Holds, Span
  <2> QED BY <1>1, <1>3, <2>1, <2>2, <2>3, <2>4 DEF Span
<1> QED BY <1>2, <1>3

\* The window after ZSTD1_window_update: the section apart from the window is
\* either joined to the current segment or begins a new one.
LEMMA AppendedWindow ==
  ASSUME NEW w \in WindowType, NEW src \in RangeType, src.size > 0,
         ~IsOverlapped(src, w.ext), ~IsOverlapped(src, w.pre)
  PROVE  LET a == Reduce(Append2(w, src), src) IN
         /\ a \in WindowType
         /\ src.start = EndOf(w.pre) =>
              a.ext = w.ext /\ a.pre = Span(w.pre.start, w.pre.size + src.size)
         /\ src.start # EndOf(w.pre) => a.ext \in {NullRange, w.pre} /\ a.pre = src
<1> DEFINE b == Append2(w, src)
<1>1. /\ w.ext \in RangeType /\ w.pre \in RangeType
      /\ w.ext.start \in Nat /\ w.ext.size \in Nat /\ w.pre.start \in Nat
      /\ w.pre.size \in Nat /\ src.start \in Nat /\ src.size \in Nat
  BY DEF WindowType, RangeType
<1>2. CASE src.start = EndOf(w.pre)
  <2>1. b = [w EXCEPT !.pre.size = @ + src.size]
    BY <1>2 DEF Append2
  <2>2. b.ext = w.ext /\ b.pre = [w.pre EXCEPT !.size = w.pre.size + src.size]
    BY <2>1 DEF WindowType
  <2>3. b.pre = Span(w.pre.start, w.pre.size + src.size)
    BY <1>1, <2>2 DEF RangeType, Span
  <2>4. b \in WindowType
    <3>1. b.pre \in RangeType
      BY <1>1, <2>3 DEF RangeType, Span
    <3> HIDE DEF b
    <3>2. b = [w EXCEPT !.pre = b.pre]
      BY <2>1, <2>2 DEF WindowType
    <3> QED BY <3>1, <3>2 DEF WindowType
  <2> HIDE DEF b
  <2>5. ~IsOverlapped(b.ext, src)
    BY <2>2 DEF IsOverlapped
  <2>6. Reduce(b, src) = b
    BY <2>5 DEF Reduce
  <2> QED BY <1>2, <2>2, <2>3, <2>4, <2>6 DEF b
<1>3. CASE src.start # EndOf(w.pre)
  <2>1. b = [ext |-> IF w.pre.size < HashReadSize THEN NullRange ELSE w.pre, pre |-> src]
    BY <1>3 DEF Append2
  <2>2. b.ext \in {NullRange, w.pre} /\ b.pre = src
    BY <2>1
  <2>3. NullRange \in RangeType /\ ~IsOverlapped(NullRange, src)
    BY DEF NullRange, Span, RangeType, IsOverlapped
  <2>4. b \in WindowType
    BY <1>1, <2>1, <2>3 DEF WindowType
  <2> HIDE DEF b
  <2>5. ~IsOverlapped(b.ext, src)
    BY <2>2, <2>3 DEF IsOverlapped
  <2>6. Reduce(b, src) = b
    BY <2>5 DEF Reduce
  <2> QED BY <1>3, <2>2, <2>4, <2>6 DEF b
<1> QED BY <1>2, <1>3

\* What ZSTD1_window_enforceMaxDist leaves.
LEMMA EnforcedWindow ==
  ASSUME NEW a \in WindowType, windowSize \in Nat, windowSize > 0, a.pre.size > 0
  PROVE  LET w == EnforceMaxDist(a) IN
         /\ w \in WindowType
         /\ w.ext.size + w.pre.size <= windowSize /\ w.pre.size > 0
         /\ w.ext.size <= a.ext.size
         /\ EndOf(w.pre) = EndOf(a.pre) /\ EndOf(w.ext) = EndOf(a.ext)
         /\ w.ext.size > 0 => w.pre = a.pre
         /\ \A last \in Int :
              Holds(a.pre, last) /\ Holds(a.ext, last - a.pre.size) =>
                Holds(w.pre, last) /\ Holds(w.ext, last - w.pre.size)
         /\ \A x \in RangeType :
              /\ ~IsOverlapped(x, a.ext) => ~IsOverlapped(x, w.ext)
              /\ ~IsOverlapped(x, a.pre) => ~IsOverlapped(x, w.pre)
<1> DEFINE e == a.ext  p == a.pre  room == Larger(0, windowSize - a.pre.size)
           x == KeepLast(e, room)  q == KeepLast(p, windowSize)
<1>1. e \in RangeType /\ p \in RangeType /\ p.size \in Nat /\ e.size \in Nat /\ p.size > 0
  BY DEF WindowType, RangeType
<1>2. /\ room \in Nat /\ (room > 0 => p.size < windowSize)
      /\ p.size <= windowSize => room + p.size = windowSize
      /\ p.size > windowSize => room = 0
  BY <1>1 DEF Larger
<1> HIDE DEF room, e, p
<1>3. /\ q \in RangeType /\ EndOf(q) = EndOf(p) /\ q.size <= windowSize /\ q.size <= p.size
      /\ p.size <= windowSize => q = p
      /\ q.size > 0
      /\ \A r \in RangeType : ~IsOverlapped(r, p) => ~IsOverlapped(r, q)
      /\ \A last \in Int : Holds(p, last) => Holds(q, last)
  BY <1>1, KeepLastRange
<1>4. /\ x \in RangeType /\ EndOf(x) = EndOf(e) /\ x.size <= room /\ x.size <= e.size
      /\ \A r \in RangeType : ~IsOverlapped(r, e) => ~IsOverlapped(r, x)
      /\ \A last \in Int : Holds(e, last) => Holds(x, last)
  BY <1>1, <1>2, KeepLastRange
<1> HIDE DEF x, q
<1>5. q.size \in Nat /\ x.size \in Nat
  BY <1>3, <1>4 DEF RangeType
<1>6. x.size > 0 => q = p
  BY <1>1, <1>2, <1>3, <1>4, <1>5
<1>7. x.size + q.size <= windowSize
  BY <1>1, <1>2, <1>3, <1>4, <1>5
<1>8. ASSUME NEW last \in Int, Holds(p, last), Holds(e, last - p.size)
      PROVE  Holds(q, last) /\ Holds(x, last - q.size)
  <2>1. Holds(q, last)
    BY <1>3, <1>8
  <2>2. last - p.size \in Int
    BY <1>1
  <2>3. Holds(x, last - p.size)
    BY <1>4, <1>8, <2>2
  <2>4. CASE x.size > 0
    BY <1>6, <2>1, <2>3, <2>4
  <2>5. CASE ~(x.size > 0)
    <3>1. 1 .. x.size = {}
      BY <1>5, <2>5
    <3> QED BY <2>1, <2>3, <3>1 DEF Holds
  <2> QED BY <2>4, <2>5
<1>9. EnforceMaxDist(a) = [pre |-> q, ext |-> x]
  BY DEF EnforceMaxDist, q, x, e, p, room
<1>10. EnforceMaxDist(a) \in WindowType
  BY <1>3, <1>4, <1>9 DEF WindowType
<1>11. EnforceMaxDist(a).pre = q /\ EnforceMaxDist(a).ext = x
  BY <1>9
<1> QED BY <1>3, <1>4, <1>6, <1>7, <1>8, <1>10, <1>11 DEF e, p

\* The window of LdmInv, moved on by the section whose turn it is.
LEMMA MovedWindow ==
  ASSUME IInv, LdmTurns, ldmState \in WindowType, LdmKept, windowSize > 0,
         serialNext \in Unhashed
  PROVE  LET id == serialNext
             w == WindowAfter(ldmState, Section(id))
             last == jobs[id].lo + jobs[id].size
         IN
         /\ w \in WindowType
         /\ w.ext.size + w.pre.size <= windowSize /\ w.pre.size > 0
         /\ w.ext.size > 0 =>
              w.pre.start <= TargetPrefix /\ EndOf(w.ext) > Capacity - Target
         /\ EndOf(w.pre) = EndOf(Section(id))
         /\ Holds(w.pre, last) /\ Holds(w.ext, last - w.pre.size)
         /\ \A x \in RangeType :
              WindowClear(x) /\ ~IsOverlapped(x, Section(id)) =>
                ~IsOverlapped(x, w.ext) /\ ~IsOverlapped(x, w.pre)
<1> DEFINE id == serialNext  src == Section(id)  e == ldmState.ext  p == ldmState.pre
           lo == jobs[id].lo  last == lo + src.size
           a == Reduce(Append2(ldmState, src), src)
           w == EnforceMaxDist(a)
<1>1. LdmChain /\ LdmContent /\ LdmApart /\ LdmPlaced
  BY DEF LdmKept
<1>2. /\ id \in Nat /\ nextJobID \in Nat /\ id < nextJobID
      /\ src \in RangeType /\ src.size > 0 /\ src.size = jobs[id].size
      /\ src.start = jobs[id].start /\ lo \in Nat /\ last \in Int /\ EndOf(src) <= Capacity
  BY UnhashedJobs DEF Unhashed, Section, Span
<1>3. Holds(src, last)
  BY <1>2, SectionContent
<1>4. /\ e \in RangeType /\ p \in RangeType /\ e.size \in Nat /\ p.size \in Nat
      /\ e.start \in Nat /\ p.start \in Nat /\ src.size \in Nat /\ src.start \in Nat
  BY <1>2 DEF WindowType, RangeType
<1>5. Holds(p, lo) /\ Holds(e, lo - p.size)
  BY <1>1, <1>2 DEF LdmContent, SectionLo
<1>6. Linked(src.start, EndOf(p))
  <2>1. id \in serialNext .. nextJobID
    BY <1>2
  <2> QED BY <1>1, <1>2, <2>1 DEF LdmChain, SectionStart, StopBefore
<1>7. ~IsOverlapped(src, e) /\ ~IsOverlapped(src, p)
  BY <1>1 DEF LdmApart, WindowClear
<1>8. /\ a \in WindowType
      /\ src.start = EndOf(p) => a.ext = e /\ a.pre = Span(p.start, p.size + src.size)
      /\ src.start # EndOf(p) => a.ext \in {NullRange, p} /\ a.pre = src
  <2> HIDE DEF src
  <2> QED BY <1>2, <1>7, AppendedWindow
<1>9. WindowAfter(ldmState, src) = w
  BY DEF WindowAfter
<1>10. Capacity \in Nat /\ Target \in Nat /\ TargetPrefix \in Nat /\ windowSize \in Nat
  BY Sizes, RoundAssumption DEF IInv, TypeOK
<1>11. /\ p.size = 0 => e.size = 0
       /\ e.size > 0 => p.start <= TargetPrefix /\ EndOf(e) > Capacity - Target
  BY <1>1 DEF LdmPlaced
<1> HIDE DEF w, a, src, lo, last, e, p
<1>12. last = lo + src.size
  BY DEF last
<1>13. NullRange \in RangeType /\ NullRange.size = 0 /\ NullRange.start = 0
  BY DEF NullRange, Span, RangeType
\* The window that joins the section, before it is cut to its size.
<1>14. /\ a.pre.size > 0 /\ EndOf(a.pre) = EndOf(src)
       /\ a.ext.size > 0 => a.pre.start <= TargetPrefix /\ EndOf(a.ext) > Capacity - Target
       /\ Holds(a.pre, last) /\ Holds(a.ext, last - a.pre.size)
       /\ \A x \in RangeType :
            ~IsOverlapped(x, e) /\ ~IsOverlapped(x, p) /\ ~IsOverlapped(x, src) =>
              ~IsOverlapped(x, a.ext) /\ ~IsOverlapped(x, a.pre)
  <2>1. CASE src.start = EndOf(p)
    <3>1. /\ a.ext = e /\ a.pre.start = p.start /\ a.pre.size = p.size + src.size
      BY <1>8, <2>1 DEF Span
    <3>2. src.start = p.start + p.size
      BY <2>1 DEF EndOf
    <3>3. a.pre.size > 0 /\ EndOf(a.pre) = EndOf(src)
      BY <1>2, <1>4, <3>1, <3>2 DEF EndOf
    <3>4. ASSUME NEW k \in 1 .. p.size + src.size
          PROVE  mem[p.start + k - 1] = last - (p.size + src.size) + k
      <4>1. CASE k <= p.size
        <5>1. k \in 1 .. p.size
          BY <1>4, <4>1
        <5>2. mem[p.start + k - 1] = lo - p.size + k
          BY <1>5, <5>1 DEF Holds
        <5> QED BY <1>2, <1>4, <1>12, <5>2
      <4>2. CASE ~(k <= p.size)
        <5> DEFINE m == k - p.size
        <5>1. m \in 1 .. src.size
          BY <1>4, <4>2
        <5>2. mem[src.start + m - 1] = last - src.size + m
          BY <1>3, <5>1 DEF Holds
        <5>3. src.start + m - 1 = p.start + k - 1
              /\ last - src.size + m = last - (p.size + src.size) + k
          BY <1>2, <1>4, <3>2
        <5> QED BY <5>2, <5>3
      <4> QED BY <4>1, <4>2
    <3>5. Holds(a.pre, last)
      BY <1>2, <3>1, <3>3, <3>4 DEF Holds
    <3>6. Holds(a.ext, last - a.pre.size)
      <4>1. last - (p.size + src.size) = lo - p.size
        BY <1>2, <1>4, <1>12
      <4> QED BY <1>5, <3>1, <4>1
    <3>7. ASSUME NEW x \in RangeType,
                 ~IsOverlapped(x, e), ~IsOverlapped(x, p), ~IsOverlapped(x, src)
          PROVE  ~IsOverlapped(x, a.ext) /\ ~IsOverlapped(x, a.pre)
      <4>1. ~IsOverlapped(x, a.ext)
        BY <3>1, <3>7
      <4>2. x.start \in Nat /\ x.size \in Nat
        BY DEF RangeType
      <4>3. ~IsOverlapped(x, a.pre)
        BY <1>2, <1>4, <3>1, <3>2, <3>7, <4>2 DEF IsOverlapped, EndOf
      <4> QED BY <4>1, <4>3
    <3> QED BY <1>11, <3>1, <3>3, <3>5, <3>6, <3>7
  <2>2. CASE src.start # EndOf(p)
    <3>1. a.ext \in {NullRange, p} /\ a.pre = src
      BY <1>8, <2>2
    <3>2. src.start <= TargetPrefix /\ EndOf(p) > Capacity - Target
      BY <1>6, <2>2 DEF Linked
    <3>3. last - src.size = lo
      BY <1>2, <1>4, <1>12
    <3>4. Holds(a.ext, last - src.size)
      <4>1. CASE a.ext = p
        BY <1>5, <3>3, <4>1
      <4>2. CASE a.ext = NullRange
        BY <1>10, <1>13, <4>2 DEF Holds, EndOf
      <4> QED BY <3>1, <4>1, <4>2
    <3>5. ASSUME NEW x \in RangeType,
                 ~IsOverlapped(x, e), ~IsOverlapped(x, p), ~IsOverlapped(x, src)
          PROVE  ~IsOverlapped(x, a.ext) /\ ~IsOverlapped(x, a.pre)
      <4>1. ~IsOverlapped(x, NullRange)
        BY <1>13 DEF IsOverlapped
      <4> QED BY <3>1, <3>5, <4>1
    <3>6. a.ext.size > 0 => a.ext = p
      BY <1>13, <3>1
    <3> QED BY <1>2, <1>3, <3>1, <3>2, <3>4, <3>5, <3>6
  <2> QED BY <2>1, <2>2
<1>15. /\ w \in WindowType
       /\ w.ext.size + w.pre.size <= windowSize /\ w.pre.size > 0
       /\ w.ext.size <= a.ext.size
       /\ EndOf(w.pre) = EndOf(a.pre) /\ EndOf(w.ext) = EndOf(a.ext)
       /\ w.ext.size > 0 => w.pre = a.pre
       /\ \A l \in Int :
            Holds(a.pre, l) /\ Holds(a.ext, l - a.pre.size) =>
              Holds(w.pre, l) /\ Holds(w.ext, l - w.pre.size)
       /\ \A x \in RangeType :
            /\ ~IsOverlapped(x, a.ext) => ~IsOverlapped(x, w.ext)
            /\ ~IsOverlapped(x, a.pre) => ~IsOverlapped(x, w.pre)
  BY <1>8, <1>10, <1>14, EnforcedWindow DEF w
<1>16. w.ext.size > 0 => w.pre.start <= TargetPrefix /\ EndOf(w.ext) > Capacity - Target
  <2>1. w.ext.size \in Nat /\ a.ext.size \in Nat
    BY <1>8, <1>15 DEF WindowType, RangeType
  <2> QED BY <1>14, <1>15, <2>1
<1>17. Holds(w.pre, last) /\ Holds(w.ext, last - w.pre.size)
  BY <1>2, <1>14, <1>15
<1>18. \A x \in RangeType :
         WindowClear(x) /\ ~IsOverlapped(x, src) =>
           ~IsOverlapped(x, w.ext) /\ ~IsOverlapped(x, w.pre)
  BY <1>14, <1>15 DEF WindowClear, e, p
<1>19. last = jobs[serialNext].lo + jobs[serialNext].size
  BY <1>2, <1>12 DEF lo
<1> QED BY <1>9, <1>14, <1>15, <1>16, <1>17, <1>18, <1>19 DEF src

\* The serial turn of a job.
LEMMA SerialTurnLdm ==
  ASSUME IInv, LdmInv, NEW id \in Posted, SerialTurn(id)
  PROVE  LdmInv'
<1> SUFFICES ASSUME failures = 0
             PROVE  /\ (ldmState \in WindowType)' /\ LdmTurns' /\ LdmOff'
                    /\ windowSize' > 0 => LdmKept'
  BY DEF LdmInv, SerialTurn
<1>1. /\ ldmState \in WindowType /\ LdmTurns /\ LdmOff
      /\ windowSize > 0 => LdmKept
      /\ TypeOK /\ jobs \in [Posted -> JobType]
  BY JobsTyped DEF LdmInv, IInv
<1>2. /\ UNCHANGED <<windowSize, mem, pos, have, filled, taken, doneJobID, nextJobID>>
      /\ jobs[id].state = "posted" /\ serialNext >= id
      /\ jobs' = [jobs EXCEPT ![id].state = "hashed"] /\ serialNext' = serialNext + 1
  BY DEF SerialTurn, SetState, inVars
<1>3. /\ id \in Nat /\ doneJobID \in Nat /\ nextJobID \in Nat /\ serialNext \in Nat
      /\ doneJobID <= id /\ id < nextJobID /\ doneJobID <= serialNext
  BY <1>1, Numbers, UnhashedJobs DEF Posted, LdmTurns
<1>4. serialNext = id
  <2>1. jobs[id].state \in IF id < serialNext THEN {"hashed", "complete"} ELSE {"posted"}
    BY <1>1 DEF LdmTurns
  <2> QED BY <1>2, <1>3, <2>1
<1>5. /\ id \in Unhashed /\ Unhashed' = id + 1 .. nextJobID - 1 /\ Posted' = Posted
      /\ Capacity' = Capacity
      /\ \A i \in Unhashed' : i \in Unhashed /\ i # id
  BY <1>2, <1>3, <1>4 DEF Unhashed, Posted, Capacity
<1>6. /\ \A i \in Posted : i # id => jobs'[i] = jobs[i]
      /\ jobs'[id].state = "hashed"
      /\ jobs'[id].lo = jobs[id].lo
      /\ jobs'[id].size = jobs[id].size /\ jobs'[id].start = jobs[id].start
  BY <1>1, <1>2 DEF JobType
<1>7. ldmWindow' = ldmState' /\ (windowSize = 0 => ldmState' = ldmState)
  BY <1>1 DEF SerialTurn, LdmTurns
<1>8. LdmTurns'
  <2>1. ASSUME NEW i \in Posted
        PROVE  jobs'[i].state \in IF i < id + 1 THEN {"hashed", "complete"} ELSE {"posted"}
    <3>1. i \in Nat
      BY <1>3 DEF Posted
    <3>2. CASE i = id
      BY <1>3, <1>6, <3>2
    <3>3. CASE i # id
      <4>1. jobs'[i] = jobs[i]
        BY <1>6, <3>3
      <4>2. jobs[i].state \in IF i < id THEN {"hashed", "complete"} ELSE {"posted"}
        BY <1>1, <1>4 DEF LdmTurns
      <4>3. i < id + 1 <=> i < id
        BY <1>3, <3>1, <3>3
      <4> QED BY <4>1, <4>2, <4>3
    <3> QED BY <3>2, <3>3
  <2> QED BY <1>2, <1>3, <1>4, <1>5, <1>7, <2>1 DEF LdmTurns
<1>9. LdmOff'
  BY <1>1, <1>2, <1>7 DEF LdmOff
<1>10. CASE windowSize = 0
  BY <1>1, <1>2, <1>7, <1>8, <1>9, <1>10
<1>11. CASE windowSize # 0
  <2> DEFINE w == WindowAfter(ldmState, Section(id))  last == jobs[id].lo + jobs[id].size
  <2>1. windowSize \in Nat /\ windowSize > 0 /\ LdmKept
    BY <1>1, <1>11, RoundAssumption DEF TypeOK
  <2>2. LdmChain /\ LdmContent /\ LdmApart /\ LdmPlaced
    BY <2>1 DEF LdmKept
  <2>3. ldmState' = w
    BY <1>4, <2>1 DEF SerialTurn, Section
  <2>4. /\ w \in WindowType
        /\ w.ext.size + w.pre.size <= windowSize /\ w.pre.size > 0
        /\ w.ext.size > 0 =>
             w.pre.start <= TargetPrefix /\ EndOf(w.ext) > Capacity - Target
        /\ EndOf(w.pre) = EndOf(Section(id))
        /\ Holds(w.pre, last) /\ Holds(w.ext, last - w.pre.size)
        /\ \A x \in RangeType :
             WindowClear(x) /\ ~IsOverlapped(x, Section(id)) =>
               ~IsOverlapped(x, w.ext) /\ ~IsOverlapped(x, w.pre)
    BY <1>1, <1>4, <1>5, <2>1, MovedWindow
  <2> HIDE DEF w
  <2>5. \A i \in Unhashed' : jobs'[i] = jobs[i] /\ Section(i)' = Section(i)
    BY <1>1, <1>5, <1>6, UnhashedJobs DEF Section
  <2>6. ASSUME NEW n \in id + 1 .. nextJobID
        PROVE  /\ SectionStart(n)' = SectionStart(n) /\ SectionLo(n)' = SectionLo(n)
               /\ StopBefore(n)' = StopBefore(n)
               /\ jobs'[n - 1].lo + jobs'[n - 1].size = jobs[n - 1].lo + jobs[n - 1].size
    <3>1. n \in Nat /\ n # id /\ n # serialNext /\ n - 1 \in Posted
          /\ (n < nextJobID => n \in Unhashed')
          /\ n - 1 \in id .. nextJobID - 1
      BY <1>3, <1>4, <1>5 DEF Posted
    <3>2. SectionStart(n)' = SectionStart(n) /\ SectionLo(n)' = SectionLo(n)
      BY <1>2, <2>5, <3>1 DEF SectionStart, SectionLo
    <3>3. CASE n = id + 1
      <4>1. n - 1 = id /\ n = serialNext'
        BY <1>2, <1>3, <1>4, <3>3
      <4>2. StopBefore(n)' = EndOf(Section(id))
        BY <2>3, <2>4, <4>1 DEF StopBefore, EndOf
      <4>3. StopBefore(n) = EndOf(Section(id))
        BY <3>1, <4>1 DEF StopBefore
      <4> QED BY <1>6, <3>2, <4>1, <4>2, <4>3
    <3>4. CASE n # id + 1
      <4>1. n # serialNext' /\ n - 1 \in Unhashed'
        BY <1>2, <1>3, <1>4, <1>5, <3>1, <3>4
      <4>2. Section(n - 1)' = Section(n - 1) /\ jobs'[n - 1] = jobs[n - 1]
        BY <2>5, <4>1
      <4>3. StopBefore(n)' = StopBefore(n)
        BY <3>1, <4>1, <4>2 DEF StopBefore, EndOf
      <4> QED BY <3>2, <4>2, <4>3
    <3> QED BY <3>3, <3>4
  <2>7. LdmChain'
    <3> SUFFICES ASSUME NEW n \in id + 1 .. nextJobID
                 PROVE  /\ Linked(SectionStart(n)', StopBefore(n)')
                        /\ SectionLo(n)' = jobs'[n - 1].lo + jobs'[n - 1].size
      BY <1>2, <1>4, <1>5 DEF LdmChain, Linked
    <3>1. n \in serialNext .. nextJobID /\ n > serialNext
      BY <1>3, <1>4
    <3>2. /\ Linked(SectionStart(n), StopBefore(n))
          /\ SectionLo(n) = jobs[n - 1].lo + jobs[n - 1].size
      BY <2>2, <3>1 DEF LdmChain
    <3> QED BY <2>6, <3>2
  <2>8. LdmContent'
    <3>1. id + 1 \in id + 1 .. nextJobID /\ id + 1 \in serialNext .. nextJobID
          /\ id + 1 > serialNext /\ (id + 1) - 1 = id
      BY <1>3, <1>4
    <3>2. SectionLo(id + 1) = last
      BY <2>2, <3>1 DEF LdmChain
    <3>3. SectionLo(id + 1)' = last
      BY <2>6, <3>1, <3>2
    <3>4. SectionLo(serialNext)' = last
      BY <1>2, <1>4, <3>3
    <3> HIDE DEF last
    <3> QED BY <1>2, <1>5, <2>3, <2>4, <3>4 DEF LdmContent, Holds, EndOf
  <2>9. LdmApart'
    <3>1. ASSUME NEW i \in Unhashed' PROVE WindowClear(Section(i))'
      <4>1. /\ i \in Unhashed /\ i # id /\ Section(i)' = Section(i)
            /\ Section(i) \in RangeType
        BY <1>1, <1>5, <2>5, UnhashedJobs
      <4>2. WindowClear(Section(i)) /\ ~IsOverlapped(Section(i), Section(id))
        BY <1>5, <2>2, <4>1 DEF LdmApart
      <4>3. ~IsOverlapped(Section(i), w.ext) /\ ~IsOverlapped(Section(i), w.pre)
        BY <2>4, <4>1, <4>2
      <4> QED BY <2>3, <4>1, <4>3 DEF WindowClear, IsOverlapped, EndOf
    <3>2. ASSUME NEW i \in Unhashed', NEW k \in Unhashed', i # k
          PROVE  ~IsOverlapped(Section(i), Section(k))'
      <4>1. i \in Unhashed /\ k \in Unhashed
            /\ Section(i)' = Section(i) /\ Section(k)' = Section(k)
        BY <1>5, <2>5
      <4>2. ~IsOverlapped(Section(i), Section(k))
        BY <2>2, <3>2, <4>1 DEF LdmApart
      <4> QED BY <4>1, <4>2 DEF IsOverlapped, EndOf
    <3>3. have' => WindowClear(NextRange)'
      <4> SUFFICES ASSUME have PROVE WindowClear(NextRange)'
        BY <1>2
      <4>1. WindowClear(NextRange) /\ SectionFree /\ Placement
        BY <2>2 DEF LdmApart, IInv, RangeInv
      <4>2. /\ pos \in Nat /\ Target \in Nat /\ id \in Running
            /\ jobs[id].start \in Nat /\ jobs[id].size \in Nat /\ jobs[id].psize \in Nat
        BY <1>1, <1>5, Sizes, Numbers, UnhashedJobs
      <4>3. Behind(id) \/ Ahead(id)
        BY <4>1, <4>2 DEF Placement
      <4>4. jobs[id].start + jobs[id].size <= pos \/ pos + Target <= jobs[id].start
        BY <4>1, <4>2, <4>3 DEF SectionFree, Behind, Ahead, High, Low
      <4>5. ~IsOverlapped(NextRange, Section(id)) /\ NextRange \in RangeType
        BY <4>2, <4>4 DEF IsOverlapped, NextRange, Section, Span, EndOf, RangeType
      <4>6. ~IsOverlapped(NextRange, w.ext) /\ ~IsOverlapped(NextRange, w.pre)
        BY <2>4, <4>1, <4>5
      <4> QED BY <1>2, <2>3, <4>6 DEF WindowClear, IsOverlapped, EndOf, NextRange, Span
    <3> QED BY <3>1, <3>2, <3>3 DEF LdmApart
  <2>10. LdmPlaced'
    <3>1. w.pre.size # 0
      BY <2>4 DEF WindowType, RangeType
    <3> QED BY <1>2, <1>5, <2>3, <2>4, <3>1 DEF LdmPlaced, EndOf
  <2>11. (ldmState \in WindowType)'
    BY <2>3, <2>4
  <2> QED BY <1>8, <1>9, <2>7, <2>8, <2>9, <2>10, <2>11 DEF LdmKept
<1> QED BY <1>10, <1>11

-----------------------------------------------------------------------------
\* Every step keeps the window.

LEMMA InitLdm == Init => LdmInv
<1> SUFFICES ASSUME Init, failures = 0 PROVE LdmInv
  BY DEF LdmInv
<1>1. /\ ldmState = EmptyWindow /\ ldmWindow = EmptyWindow /\ pos = 0 /\ taken = 0
      /\ filled = 0 /\ ~have /\ doneJobID = 0 /\ nextJobID = 0 /\ serialNext = 0
  BY DEF Init
<1>2. /\ Posted = {} /\ Unhashed = {}
      /\ Capacity \in Nat /\ windowSize \in Nat
  <2>1. 0 .. 0 - 1 = {}
    OBVIOUS
  <2>2. TypeOK
    BY InitIInv DEF IInv
  <2>3. Capacity \in Nat /\ windowSize \in Nat
    BY <2>2, Sizes, RoundAssumption DEF TypeOK
  <2> QED BY <1>1, <2>1, <2>3 DEF Posted, Unhashed
<1>3. EmptyWindow \in WindowType /\ EmptyWindow.ext = Span(0, 0) /\ EmptyWindow.pre = Span(0, 0)
      /\ EndOf(EmptyWindow.pre) = 0 /\ EndOf(EmptyWindow.ext) = 0
  BY DEF EmptyWindow, WindowType, RangeType, NullRange, Span, EndOf
<1>4. LdmTurns /\ LdmOff
  BY <1>1, <1>2 DEF LdmTurns, LdmOff
<1>5. LdmChain
  <2>1. \A n \in 0 .. 0 : n = 0
    OBVIOUS
  <2>2. SectionStart(0) = 0 /\ StopBefore(0) = 0 /\ ~(0 > 0)
    BY <1>1, <1>3 DEF SectionStart, StopBefore
  <2> QED BY <1>1, <2>1, <2>2 DEF LdmChain, Linked
<1>6. LdmContent /\ LdmApart
  BY <1>1, <1>2, <1>3 DEF LdmContent, LdmApart, Holds, Span
<1>7. LdmPlaced
  BY <1>1, <1>2, <1>3 DEF LdmPlaced, Span
<1> QED BY <1>1, <1>3, <1>4, <1>5, <1>6, <1>7 DEF LdmInv, LdmKept

LEMMA NextLdm == IInv /\ LdmInv /\ [Next]_vars => LdmInv'
<1> SUFFICES ASSUME IInv, LdmInv, [Next]_vars PROVE LdmInv'
  OBVIOUS
<1>1. CASE GetInputRange \/ PlaceAfterPrefix \/ Quiet \/ UNCHANGED vars
  <2>1. UNCHANGED <<windowSize, mem, pos, have, filled, taken, jobs, doneJobID, nextJobID,
                    serialNext, ldmState, ldmWindow, failures>>
    BY <1>1 DEF GetInputRange, Ask, PlaceAfterPrefix, Quiet, vars, inVars, jobVars, serialVars
  <2> QED BY <2>1, SameLdm
<1>2. CASE WrapAround \/ GrantRange
  BY <1>2, WrapAroundLdm, GrantRangeLdm
<1>3. CASE (\E n \in 1 .. Target : Fill(n)) \/ (\E endFrame \in BOOLEAN : CreateJob(endFrame))
  BY <1>3, FillLdm, CreateJobLdm
<1>4. CASE EndWithoutInput
  <2>1. UNCHANGED <<windowSize, mem, pos, filled, taken, jobs, doneJobID, nextJobID,
                    serialNext, ldmState, ldmWindow, failures>> /\ ~have'
    BY <1>4 DEF EndWithoutInput, serialVars
  <2> QED BY <2>1, SameLdm
<1>5. CASE RetireJob \/ InitCStream
  BY <1>5, RetireLdm, InitCStreamLdm
<1>6. CASE WorkerStep
  <2>1. PICK id \in Posted : SerialTurn(id) \/ FailJob(id) \/ ReportJob(id)
    BY <1>6 DEF WorkerStep
  <2>2. CASE FailJob(id)
    <3>1. failures' = failures + 1 /\ failures \in Nat
      BY <2>2, RoundAssumption DEF FailJob, IInv, TypeOK
    <3>2. failures' # 0
      BY <3>1
    <3> QED BY <3>2 DEF LdmInv
  <2> QED BY <2>1, <2>2, SerialTurnLdm, ReportLdm
<1> QED BY <1>1, <1>2, <1>3, <1>4, <1>5, <1>6 DEF Next, RangeStep, CallStep

LEMMA AlwaysLdm == Spec => [](IInv /\ LdmInv)
<1>1. Init => IInv /\ LdmInv
  BY InitIInv, InitLdm
<1>2. IInv /\ LdmInv /\ [Next]_vars => (IInv /\ LdmInv)'
  BY NextIInv, NextLdm
<1> QED BY <1>1, <1>2, PTL DEF Spec

\* The window that ZSTDMT_serialState_update publishes: as long as no job has
\* failed it holds, in its two segments, the input hashed last, and nothing was
\* written over it since; ZSTDMT_waitForLdmComplete keeps the next section and
\* the copy of the prefix off it.
THEOREM LdmHistoryKept == Spec => []LdmHistoryIntact
<1>1. IInv /\ LdmInv => LdmHistoryIntact
  <2> DEFINE e == ldmWindow.ext  p == ldmWindow.pre  all == e.size + p.size
             hashed == IF p.size = 0 THEN 0 ELSE mem[EndOf(p) - 1]
             at(k) == IF k <= e.size THEN e.start + k - 1 ELSE p.start + (k - e.size) - 1
             last == SectionLo(serialNext)
  <2> SUFFICES ASSUME IInv, LdmInv, failures = 0, NEW k \in 1 .. all
               PROVE  mem[at(k)] = hashed - all + k
    BY DEF LdmHistoryIntact
  <2>1. ldmWindow = ldmState /\ ldmState \in WindowType /\ LdmTurns /\ LdmOff
    BY DEF LdmInv, LdmTurns
  <2>2. /\ e \in RangeType /\ p \in RangeType /\ e.size \in Nat /\ p.size \in Nat
        /\ e.start \in Nat /\ p.start \in Nat
    BY <2>1 DEF WindowType, RangeType
  <2>3. windowSize \in Nat /\ windowSize > 0
    <3>1. windowSize \in Nat
      BY RoundAssumption DEF IInv, TypeOK
    <3>2. windowSize = 0 => e.size = 0 /\ p.size = 0
      BY <2>1 DEF LdmOff, EmptyWindow, NullRange, Span
    <3> QED BY <2>2, <3>1, <3>2
  <2>4. LdmContent /\ LdmPlaced
    BY <2>3 DEF LdmInv, LdmKept
  <2>5. p.size > 0
    BY <2>1, <2>2, <2>4 DEF LdmPlaced
  <2>6. last \in Nat
    <3>1. serialNext \in serialNext .. nextJobID
      BY <2>1, UnhashedJobs
    <3> QED BY <2>1, <3>1, ChainNumbers
  <2>7. Holds(p, last) /\ Holds(e, last - p.size)
    BY <2>1, <2>4 DEF LdmContent
  <2> HIDE DEF e, p, last
  <2>8. hashed = last
    <3>1. mem[p.start + p.size - 1] = last - p.size + p.size
      BY <2>2, <2>5, <2>7 DEF Holds
    <3>2. EndOf(p) - 1 = p.start + p.size - 1 /\ last - p.size + p.size = last
      BY <2>2, <2>6 DEF EndOf
    <3> QED BY <2>2, <2>5, <3>1, <3>2
  <2>9. CASE k <= e.size
    <3>1. mem[e.start + k - 1] = last - p.size - e.size + k
      <4>1. k \in 1 .. e.size
        BY <2>2, <2>9
      <4>2. mem[e.start + k - 1] = (last - p.size) - e.size + k
        BY <2>7, <4>1 DEF Holds
      <4> QED BY <2>2, <2>6, <4>2
    <3>2. last - p.size - e.size + k = last - (e.size + p.size) + k
      BY <2>2, <2>6
    <3> QED BY <2>8, <2>9, <3>1, <3>2
  <2>10. CASE ~(k <= e.size)
    <3> DEFINE m == k - e.size
    <3>1. m \in 1 .. p.size
      BY <2>2, <2>10
    <3>2. mem[p.start + m - 1] = last - p.size + m
      BY <2>7, <3>1 DEF Holds
    <3>3. last - p.size + m = last - (e.size + p.size) + k
      BY <2>2, <2>6
    <3> QED BY <2>8, <2>10, <3>2, <3>3
  <2> QED BY <2>9, <2>10
<1> QED BY AlwaysLdm, <1>1, PTL

\* A segment that ends near the end of the buffer (here [a, a + b) with an older
\* one of size y) leaves two sections before it; of two segments, the older one
\* begins a section behind the end of the other.
LEMMA OneSegment ==
  ASSUME NEW a \in Nat, NEW b \in Nat, NEW y \in Nat, NEW c \in Nat, NEW w \in Nat,
         NEW t \in Nat, c >= w + 3 * t, b + y <= w, a + b > c - t, y > 0 => a <= t
  PROVE  a > 2 * t /\ y = 0
OBVIOUS

LEMMA TwoSegments ==
  ASSUME NEW a \in Nat, NEW b \in Nat, NEW x \in Nat, NEW y \in Nat, NEW c \in Nat,
         NEW w \in Nat, NEW t \in Nat, c >= w + 3 * t, b + y <= w, a <= t, x + y > c - t
  PROVE  x >= a + b + t
OBVIOUS

\* "This is the minimum slack that LDM works with" (ZSTDMT_initCStream_internal):
\* with three sections of slack, whoever waits for the window finds a job that
\* will move it on, as long as no job has failed.
THEOREM LdmNeverStuck == Spec => []LdmWaitServed
<1>1. IInv /\ LdmInv => LdmWaitServed
  <2> DEFINE e == ldmState.ext  p == ldmState.pre
  <2> SUFFICES ASSUME IInv, LdmInv, failures = 0, Running = {}
               PROVE  /\ mpc = "wrap" => LdmComplete(PrefixCopy)
                      /\ mpc = "grant" => LdmComplete(NextRange)
    BY DEF LdmWaitServed, LdmSlackEnough
  <2> SUFFICES ASSUME windowSize # 0
               PROVE  /\ mpc = "wrap" => WindowClear(PrefixCopy)
                      /\ mpc = "grant" => WindowClear(NextRange)
    BY DEF LdmComplete, WindowClear, LdmInv, LdmTurns
  <2>1. windowSize \in Nat /\ windowSize > 0
    BY RoundAssumption DEF IInv, TypeOK
  <2>2. LdmTurns /\ LdmChain /\ LdmPlaced /\ ldmState \in WindowType
    BY <2>1 DEF LdmInv, LdmKept
  <2>3. /\ e.size \in Nat /\ p.size \in Nat /\ e.start \in Nat /\ p.start \in Nat
    BY <2>2 DEF WindowType, RangeType
\* Every job was hashed: the window is followed by the write position.
  <2>4. serialNext = nextJobID
    <3>1. Unhashed = {} /\ serialNext \in Nat /\ nextJobID \in Nat /\ serialNext <= nextJobID
      BY <2>2, UnhashedJobs
    <3>2. ~(serialNext < nextJobID)
      <4>1. serialNext < nextJobID => serialNext \in Unhashed
        BY <3>1 DEF Unhashed
      <4> QED BY <3>1, <4>1
    <3> QED BY <3>1, <3>2
  <2>5. Linked(pos, EndOf(p))
    <3>1. nextJobID \in Nat
      BY <2>2, UnhashedJobs
    <3>2. nextJobID \in serialNext .. nextJobID /\ ~(nextJobID < nextJobID)
      BY <2>4, <3>1
    <3>3. SectionStart(nextJobID) = pos /\ StopBefore(nextJobID) = EndOf(p)
      BY <2>4, <3>2 DEF SectionStart, StopBefore
    <3>4. Linked(SectionStart(nextJobID), StopBefore(nextJobID))
      BY <2>2, <3>2 DEF LdmChain
    <3> QED BY <3>3, <3>4
  <2>6. /\ pos \in Nat /\ prefixSize \in Nat /\ prefixSize <= TargetPrefix
        /\ Target \in Nat /\ TargetPrefix \in Nat /\ TargetPrefix <= Target
        /\ Capacity \in Nat
    BY Numbers, Sizes DEF IInv
  <2>7. Capacity >= windowSize + 3 * Target
    <3> DEFINE n == Target * NbWorkers
    <3>1. n \in Nat
      BY RoundAssumption
    <3> HIDE DEF n
    <3>2. Larger(windowSize, n) >= windowSize /\ Larger(windowSize, n) \in Nat
      BY <2>1, <3>1 DEF Larger
    <3>3. Capacity = Larger(windowSize, n) + 3 * Target
      BY DEF Capacity, n
    <3> QED BY <2>1, <2>6, <3>2, <3>3
  <2>8. /\ e.size + p.size <= windowSize
        /\ e.size > 0 => p.start <= TargetPrefix /\ EndOf(e) > Capacity - Target
    BY <2>2 DEF LdmPlaced
  <2> DEFINE c == Capacity
  <2>9. c >= windowSize + 3 * Target /\ c \in Nat
    BY <2>6, <2>7
  <2>10. EndOf(p) = p.start + p.size /\ EndOf(e) = e.start + e.size
    BY DEF EndOf
  <2>11. e.size > 0 => p.start <= TargetPrefix /\ e.start + e.size > c - Target
    BY <2>8, <2>10
  <2>12. pos = p.start + p.size
           \/ (p.start + p.size > c - Target /\ pos <= TargetPrefix)
    BY <2>5, <2>10 DEF Linked
  <2>13. MustWrap <=> c - pos < Target
    BY DEF MustWrap
  <2> HIDE DEF c, e, p
\* A segment that ends near the end of the buffer leaves two sections before it.
  <2>14. p.start + p.size > c - Target => p.start > 2 * Target /\ e.size = 0
    <3>1. e.size > 0 => p.start <= Target
      BY <2>3, <2>6, <2>11
    <3>2. p.size + e.size <= windowSize
      BY <2>3, <2>8
    <3> QED BY <2>1, <2>3, <2>6, <2>9, <3>1, <3>2, OneSegment
  <2>15. ASSUME mpc = "wrap" PROVE WindowClear(PrefixCopy)
    <3>1. c - pos < Target
      BY <2>13, <2>15 DEF IInv, RangeInv
    <3>2. p.start + p.size > c - Target
      BY <2>3, <2>6, <2>9, <2>12, <3>1
    <3>3. p.start > 2 * Target /\ e.size = 0
      BY <2>14, <3>2
    <3>4. ~IsOverlapped(PrefixCopy, p) /\ ~IsOverlapped(PrefixCopy, e)
      BY <2>3, <2>6, <3>3 DEF IsOverlapped, PrefixCopy, Span, EndOf
    <3> QED BY <3>4 DEF WindowClear, e, p
  <2>16. ASSUME mpc = "grant" PROVE WindowClear(NextRange)
    <3>1. CASE pos = p.start + p.size
      <4>1. ~IsOverlapped(NextRange, p)
        BY <2>3, <2>6, <3>1 DEF IsOverlapped, NextRange, Span, EndOf
      <4>2. e.size > 0 => e.start >= pos + Target
        <5> SUFFICES ASSUME e.size > 0 PROVE e.start >= pos + Target
          OBVIOUS
        <5>1. p.start <= Target /\ e.start + e.size > c - Target
          BY <2>3, <2>6, <2>11
        <5>2. p.size + e.size <= windowSize
          BY <2>3, <2>8
        <5>3. e.start >= p.start + p.size + Target
          BY <2>1, <2>3, <2>6, <2>9, <5>1, <5>2, TwoSegments
        <5> QED BY <3>1, <5>3
      <4>3. ~IsOverlapped(NextRange, e)
        BY <2>3, <2>6, <4>2 DEF IsOverlapped, NextRange, Span, EndOf
      <4> QED BY <4>1, <4>3 DEF WindowClear, e, p
    <3>2. CASE p.start + p.size > c - Target /\ pos <= TargetPrefix
      <4>1. p.start > 2 * Target /\ e.size = 0
        BY <2>14, <3>2
      <4>2. ~IsOverlapped(NextRange, p) /\ ~IsOverlapped(NextRange, e)
        BY <2>3, <2>6, <3>2, <4>1 DEF IsOverlapped, NextRange, Span, EndOf
      <4> QED BY <4>2 DEF WindowClear, e, p
    <3> QED BY <2>12, <3>1, <3>2
  <2> QED BY <2>15, <2>16
<1> QED BY AlwaysLdm, <1>1, PTL

=============================================================================
