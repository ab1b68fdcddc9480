# A verification development for zstd1

This directory holds TLA+ models of the program in `src/`: a Go package (`zstd.go`,
`zstd_stream.go`) around the C sources of Zstandard 1.3.4, with every exported name
mangled from `ZSTD_` to `ZSTD1_` (`mangle.sh`). TLC checks the models on small
instances; TLAPS proves theorems about the thread pool, the multithreaded compressor, its
round input buffer and LDM window, the match window and the fast searches, and the streaming
decoder, for every size.

The sections below are the inventory of the system, what each module models, what the
runs show and with which bounds, what is proved and along which argument, what is only
model-checked, what is not modelled, and where the code and its own word disagree.

## 1. Inventory

| Part | Sources | State | Operations | Hard behaviour |
|---|---|---|---|---|
| Thread pool | `pool.c`, `threading.h` | ring buffer of jobs, busy counter, shutdown flag, one mutex, two condition variables | create, add, tryAdd, worker loop, join, free | interleavings, lost wake-ups, shutdown with work left, failing thread creation, queue of size 0 |
| Multithreaded streaming compressor | `zstdmt_compress.c` | job table (a ring of slots), doneJobID/nextJobID, prepared job, input section, serial state, per-job mutex and condition | initCStream, resetCStream, compressStream, flushStream, endStream; worker `ZSTDMT_compressionJob` | application and workers share job slots with few locks; jobs finish out of order and fail; table and pool at their limits; frame ended by an empty block; frames abandoned |
| Round input buffer, LDM window | `zstdmt_compress.c`, `zstd_ldm.c`, `zstd_compress_internal.h` | buffer, write position, prefix, published copy of the LDM window | tryGetInputRange, fill, createCompressionJob, serial turn | memory reused while workers read it; a check used after two waits; window moved only by jobs already posted |
| One-pass MT compression, pools | `zstdmt_compress.c` | job table, output written in place or copied; free lists of buffers, contexts, sequences | compress_advanced_internal, get/release | job sizes at their limits; free list smaller than the job table |
| Frame and block compressor | `zstd_compress.c`, `zbuff_compress.c` | stage, block states (repeat offsets and tables), window | compressBegin/Continue/End, compressBlock, compressStream | tables and offsets a block leaves to the next; a dictionary's tables; flush and end in any order |
| Window, match finders | `zstd_compress_internal.h`, `zstd_fast.c`, `zstd_double_fast.c`, `zstd_lazy.c`, `zstd_opt.c`, `zstd_ldm.c` | base, dictBase, limits, hash and chain tables | window update, overflow correction, table reduction, block compressors | 32-bit indices, segments that overlap, callers that write over their input |
| Streaming decompressor | `zstd_decompress.c`, `zbuff_decompress.c`, `zstd_legacy.h` | stage, expected size, window in a round buffer, hostage byte, legacy context | decompressContinue, decompressStream, initDStream | resumption at any byte, history kept long enough, contexts reused |
| Frame and block decoder | `zstd_decompress.c` | block states, two segments of history, stage of a frame | decompressFrame, decompressContinue, decompressBlock, dictionaries, several frames | destinations that move, too little room, cut input |
| Entropy coders | `fse_*.c`, `huf_*.c`, `entropy_common.c`, `bitstream.h` | none between calls | normalise, build tables, encode, decode | rounding, table boundaries, encoder and decoder in step, containers that overflow |
| Legacy decoders | `zstd_v01.c` ... `zstd_v07.c` | as the decompressor | as the decompressor | seven formats, each with a copy of everything |
| Go API | `zstd.go`, `zstd_stream.go`, `errors.go` | Writer: context, output buffer, first error; reader: two buffers and offsets | Write, Close, Read, Compress, Decompress | short reads, errors after partial output, slices of the caller used later |
| Dictionary builder | `cover.c`, `zdict.c`, `divsufsort.c` | best dictionary so far, count of live jobs | COVER_best_start/finish/wait | pool jobs updating one record |
| Helpers | `xxhash.c`, `mem.h`, `error_private.*`, `cpu.h` | none | | |

How they interact. The Go API calls the single-threaded C functions only, and its build does not
define `ZSTD1_MULTITHREAD`. The multithreaded code is there as a build configuration: the
application thread of a `ZSTDMT_CCtx` posts jobs to a pool of queue size 0 with `POOL_tryAdd`;
each worker runs `ZSTDMT_compressionJob`, which uses a `CCtx` of its own, shares the job record
with the application thread, and takes its turn in the serial state to hash its input and to run
the long distance matcher (LDM). Without `ZSTD1_MULTITHREAD`, `POOL_add` and `POOL_tryAdd` call
the function in the caller, which is a behaviour of the model in which every job runs to its end
at once. A compressing context keeps a window on the caller's memory; the searches turn it into
sequences, the entropy coders write them; the decoders, one-shot or in stages, read them back.
Legacy formats are decoded by copies of all of that in one file each, reached through
`zstd_legacy.h` (`ZSTD1_LEGACY_SUPPORT`, off by default at `zstd_decompress.c:29`; the models
have it on).

What makes each part correct:

* pool: an accepted job runs exactly once, in order; nobody sleeps for ever; shutdown drains;
* multithreaded compressor: what comes out is the encoding of what went in, in order, once,
  however the workers are scheduled and whichever job fails; a slot has one owner at a time;
  every call returns;
* round buffer: no byte is overwritten while something may read it; waiting for the buffer ends;
* window and searches: what may be referred to is still there, indices stay in range, the
  sequences found decode to the block;
* compressor, entropy coders and decoders: what is written is read back, in every mode;
  what is cut or does not fit is refused, and nothing is written beyond the room given;
* streaming decompressor: the output is the same however input and room are cut; 0 means done;
  a caller who keeps coming gets everything.

## 2. Modules

| Module | What it is |
|---|---|
| `JobQueue` | abstract: a FIFO queue of jobs, each started and finished once |
| `ThreadPool` | `pool.c`, one action per critical section and per signal; implements `JobQueue` |
| `MTFrame` | abstract: the output of a streaming compressor is a growing prefix of the encoding of its input |
| `MTStream`, `MCMTStream` | the streaming path of `zstdmt_compress.c`; implements `MTFrame` |
| `RoundBuffer` | the round input buffer and the LDM window of `zstdmt_compress.c` |
| `MatchState`, `MCMatchState` | the match window, its tables and the fast searches |
| `Common`, `DContext`, `DStream` | error codes; frames as data and the decoding context; the streaming and bufferless decoders |
| `LegacyContext`, `ZbuffV04` ... `ZbuffV07`, `LegacyStream`, `MCDecode` | the buffered decoders of v0.4 to v0.7 and the whole streaming decoder |
| `Bits`, `Fse`, `Huf`, `Codes`, `Blocks` | bit streams, tables, Huffman coding, codes of sequences, sequence execution: the decoding halves |
| `Zstd`, `ZstdFrame` | the decoder of the current format: blocks, frames, dictionaries, stages |
| `OldFormats`, `ZstdV01` ... `ZstdV07`, `MultiFrame` | the legacy decoders, and a source of several frames |
| `EntropyC`, `ZstdC` | the writing halves of the entropy coders; blocks, frames and dictionaries of the compressor |
| `LegacyWriter` | external: encoders of the old formats |
| `Codec`, `MCCodec` | writers and readers put together |
| `ThreadPoolProofs`, `MTStreamProofs`, `MTOutputProofs`, `RoundBufferProofs`, `MatchStateProofs`, `MatchSearchProofs`, `DStreamProofs` | theorems |

### ThreadPool

Variables have the names of the fields of `POOL_ctx_s`; `wpc`, `ppc` and `opc` say where
each worker, client and the creating thread stand. Everything in the context is accessed
under `queueMutex`, so a critical section is one action (`WorkerPop`, `AddEnqueue`,
`TryAdd`...), with the signal inside it when the code sends it before unlocking
(`AddInternal`) and as an action of its own when it is sent after
(`WorkerSignalPopped`, `WorkerSignalIdle`, `JoinWakePushers`, `JoinWakeWorkers`).
`pthread_cond_wait` is a step to sleep and, once woken, another look at the loop condition;
`SpuriousWake` lets any sleeper wake without a signal. `POOL_create` may fail in the middle
and join what it started. The only thing asked of the callers is that no client is inside
`POOL_add` when the context is freed, which `pool.c` does not check.

The refinement maps `waiting` to the content of the ring buffer from head to tail
(`Content`), `running` to the jobs popped and not returned, `done` to a history variable.

### MTStream

The compressed data is a sequence of tokens: a header that says whether a checksum follows,
one block per chunk of input, the last-block mark, the checksum (a hash of the first n
chunks, or `Corrupt` if the serial state hashed anything else). A job is a range of chunks.
`jobs` is the table indexed by `jobID & jobIDMask`, so a slot that is reused too early is
overwritten in the model as it is in the code, and a worker reads its job where it lies.

A call of the application thread is: `StartFrame` and `InitNewFrame` or `ResetCStream`
(`ZSTDMT_initCStream_internal`, which waits for the jobs of an unfinished frame); or
`FillInput`/`FillRefused`/`CallNoInput` (the head of `ZSTDMT_compressStream_generic`,
`ZSTDMT_flushStream` and `ZSTDMT_endStream`), then one of `CreateJob`, `PostReadyJob`,
`CreateLastEmptyBlock`, `CreateNothing` (`ZSTDMT_createCompressionJob`), then
`Flush`, `FlushSleep`, `FlushError` and `FailFrame` (`ZSTDMT_flushProduced`).
A worker goes through `TakeJob`, `BeginJob` (contexts, buffers, compressBegin), its
serial turn (`SerialSleep`, `SerialTurn`), `CompressChunk`* and `CompressLast`,
`EnsureFinished`, `ReportJob`, `Unbusy`; `FailJob` is any allocation or compression error.
Critical sections under `job_mutex` and `serial.mutex` are single actions. An unlocked
access to a job's shared field is an action too.

Left out: `jobs[].cSize` is written with an error code without the lock, which C calls a
data race; it is modelled as an atomic write. The pool appears only as the single place of a
queue of intended size 0, which is what `ThreadPool` proves it to be
(`AcceptedJobHasThread`). `ZSTDMT_tryGetInputRange` may refuse whenever some job is
incomplete, which is more often than the round buffer really does. The one-pass shortcut is
not taken: `CanCall` asks for less room than it needs. Every frame is one of several workers:
the switch to a single blocking thread for a small pledged size (`zstdmt_compress.c:1237-1245`,
which returns before the jobs of an abandoned frame are waited for, and 1720-1722, where its
calls go to `ZSTD1_compressStream_generic`) is left out, and so are the returns of
`ZSTDMT_initCStream_internal` for want of memory (1263, 1298-1300, 1315-1316).

### RoundBuffer

`mem` maps each address to the position in the input of the byte it holds, so a read of an
overwritten byte is visible. `ZSTDMT_tryGetInputRange` is split where it waits or where other
threads can move: reading the range in use (`GetInputRange`), moving the prefix
(`WrapAround`), the second test (`PlaceAfterPrefix`), taking the range (`GrantRange`).
The waits for the LDM are guards on the published window. The window has two segments,
`ext` and `pre`, for the extDict and the prefix of `ZSTD1_window_t`; `Append2`, `Reduce`
and `EnforceMaxDist` are `ZSTD1_window_update` and `ZSTD1_window_enforceMaxDist` on
addresses instead of indices. The finer cut of a section into chunks of
`ZSTD1_ldm_generateSequences` is abstracted: the window is published after the whole section.

### MatchState

The caller's memory, the window on it, and two hash tables. `ResetContext` and
`ContinueContext` begin a frame (`ZSTD1_resetCCtx_internal` with a new or a kept window, and a
dictionary or a job's prefix loaded); `AddChunk` is `ZSTD1_window_update` in
`ZSTD1_compressContinue_internal`, with the input placed behind the last chunk or anywhere
else, over older input too; `CompressBlock` is one turn of `ZSTD1_compress_frameChunk`:
overflow correction, table reduction, `enforceMaxDist`, the search, and the repeat offsets of
the block kept or not. `Search` is `ZSTD1_compressBlock_fast` and `_doubleFast` with and
without an external dictionary, turn by turn; a read of something that is not history sets
`wild`. How bytes hash is a constant, whether a block is worth sending compressed is left
open, the sizes (`MaxDist`, `BlockSize`, `Cycle`, `CurrentMax`) are scaled.

Left out: the lazy, binary-tree, optimal and long distance searches; `ZSTDcrp_noMemset`
(`ZSTD1_copyCCtx`); `ZSTD1_compressBlock`, which neither corrects nor enforces
(`zstd_compress.c:2150`). Two rules are asked of the caller: it changes its memory only by
writing new input, and it loads a dictionary at a low index (`DictIndexMax`), where
`LowDictionaries` tells how low: a window and a block below `CURRENT_MAX`. Neither is enforced
by the code. Nor is `OffsetsInReach`, under which `Regenerates` is proved: a repeat offset found
in a dictionary does not outlive, through blocks left raw, a reduction of the indices. Section 6
says what happens otherwise; frames without a dictionary need neither of the last two.

### DStream and LegacyStream

What a byte of output is, is told by its position, so memory is a function from addresses to
positions, and a block comes out right only if each byte its matches may refer to is still
where the context looks for it (`HistoryThere`). `DContext` is the decoding context:
`DecompressContinue` by stages, `CheckContinuity`, the dictionary. In `DStream` one action is
one stage inside a call of `ZSTD1_decompressStream` (`StartFrame`, `LoadHeader`, `SinglePass`,
`ConsumeHeader`, `ReadDirect`, `StartLoad`, `Load`, `Flush`, `Return`), or a turn of the
bufferless loop that `zstd.h` describes. `InitDStream` changes the source at any moment.
`LegacyStream` adds the legacy formats: `LegacyDetect` (only the current call's bytes are
looked at, as in the code), `LegacyStep` (one turn of `ZBUFFv04` ... `ZBUFFv07`, each a module
with its own stages, buffers and hints), `LegacyReturn`.

Abstracted: the checksum is not computed, sequences are not decoded (that is `Codec`'s part);
`inBuff` is scaled to hold a header; the allocation of a legacy context does not fail.
Matches of v0.4 and v0.5 are taken to reach no farther than the window less what a copy
overruns, an assumption on encoders that are not here.

### Codec and what it puts together

`Codec` is the control: a frame is written chunk by chunk (`CompressBegin`,
`CompressContinue`, `CompressEnd`), or by an encoder of an older format, or is skippable; then
the source is read in one call, whole, cut or with too little room, measured, decoded piece by
piece into one destination or two, or passed on block by block. Its operators are given in the
cfg by `MCCodec`: the current compressor (`ZstdC`), the decoders (`Zstd`, `ZstdFrame`,
`ZstdV01` ... `ZstdV07`, `MultiFrame`) and the entropy coders they share, all down to bytes and
bits. What a block means is its literals and matches (`Codes`), whatever its format.
`Word` is the size of a container in bytes. The run has 4, where the containers of the encoders
come nearest to overflowing (`EncoderFits`); with `Word = 8` in the same cfg all its properties
hold too (3728 states), over the refills and flushes of a 64-bit build.

Decided outside: the sequences of a block (the search is `MatchState`'s part), the cut into
blocks, and whether the search prefers recent offsets (`recalls`). Scaled: Huffman codes have at
most 6 bits (`HufLog`; 11 and 12 in the code), totals given to `FSE_normalizeCount` stay below
2048. The checksum is a digest that tells contents apart, not XXH64. Of the legacy formats: the
encoders are external and write what the decoders accept; rle blocks exist in v0.7 only; of a
corrupt v0.7 dictionary only the identifier is kept.

## 3. Runs

| Run | Module, cfg | Shows | Bounds, and why they are enough |
|---|---|---|---|
| `pool` | `ThreadPool`, `ThreadPool.cfg` | FIFO refinement, a thread for every job, draining, no lost wake-up | 2 workers, 2 clients with 2 jobs each, intended queue sizes 0 and 2: the queue of size 0 fills, the ring of 3 slots wraps, both clients can block, workers can sleep while others are woken |
| `mt_stream` | `MCMTStream`, `MCMTStream.cfg` | encoding refinement, ownership of slots, the two ground rules of the code (completed means inactive, skipped only on error), return value 0 | 2 workers, 3 chunks in sections of 2, 2 frames, 1 failure: jobs of one and two chunks, jobs out of order, a failed job before and after its turn, a frame abandoned and followed by another |
| `mt_live` | `MCMTStream`, `MCMTStreamLive.cfg` | calls return, jobs end | 2 workers, 2 chunks in sections of 1, 1 failure: both workers in the serial state, either failing |
| `mt_table` | `MCMTStream`, `MCMTTable.cfg` | slots reused in order, completion of the frame | 1 worker, table of 4, 5 chunks in sections of 1, and a caller that sometimes gives no room: the table does get full |
| `mt_reuse` | `MCMTStream`, `MCMTReuse.cfg` | finding: `jobReady` survives into the next frame | as `mt_table`, two frames |
| `mt_empty` | `MCMTStream`, `MCMTEmpty.cfg` | finding: the job of an empty frame is "completed" while its worker runs | one worker |
| `round` | `RoundBuffer`, `RoundBuffer.cfg` | nothing read is overwritten, sections fit, LDM history intact, LDM wait ends without failures | 2 workers, sections and prefixes of 2 bytes, windows of 0 and 4 bytes, 11 bytes of input in a buffer of 10: the buffer wraps, after sections cut short by a flush too |
| `round_ldm_fail` | `RoundBuffer`, `RoundBufferLdmFail.cfg` | finding: after one failure the LDM wait may not end | 10 bytes, window of 4 |
| `decode` | `MCDecode`, `MCDecode.cfg` | flushed bytes are the next output, 0 means a whole frame delivered, the end is withheld until flushed, hints stay in the frame, valid sources are not refused | sources of every kind (long with a wrapping buffer, single segment decoded in one pass, skippable and shorter than a block header, empty, too wide a window, one or two legacy frames of each version); pieces of one byte or all; two sources, one failing allocation |
| `decode_live` | `MCDecode`, `MCDecodeLive.cfg` | a caller who keeps coming gets everything | the same sources, one at a time, rooms of 0, 1 and 12 bytes |
| `match` | `MCMatchState`, `MCMatchState.cfg` | no byte referred to was overwritten, sequences decode to their block, indices stay in range | window 24, blocks 14, indices up to 102 with correction at 58, dictionaries that end at 20 or lower, 4 calls: several corrections, also in frames begun with a dictionary, segments that overlap, dictionaries loaded into kept contexts, both searches |
| `codec` | `MCCodec`, `MCCodec.cfg` | what is written is read back, in every mode and format; what is cut or has no room is refused | the cases of `MCCodec`: every type of block, literals and table mode, repeated tables, long offsets, dictionaries, and two frames in a row |

Deadlock is checked in the `pool` and `mt_` runs; `Quiet` and `Terminated` are the states in
which the application has simply stopped calling. The others let a caller stop, and the wait
shown by `round_ldm_fail` really stops the application thread; `round` states as an invariant
(`LdmWaitServed`) that it does not happen without a failure.

Named bounds: `MaxJobs`, `MaxInput`, `MaxFrames`, `MaxFailures`, `MaxCalls`, `MaxSources`,
`MaxAllocFail`, `IndexMax`. The bound on the input per frame ends a frame
sooner; it cuts no interleaving within one. `IndexMax` stands for the largest 32-bit index:
calls that fail at their first block move indices on without a correction. `DictIndexMax` is
no bound but the rule asked of the caller. In `match` no chunk leaves a repeat offset that
outlives a reduction, so `OffsetsInReach` holds in every state of it. Workers are
symmetric in `MTStream` (no ordering among them is used), so `mt_stream` uses their
permutations; the runs with liveness properties do not.

`Uses` in `MTStream` switches on what a caller may do besides plain streaming. The passing
runs keep it empty because each of its values leads to a defect of the code, found by a run
of its own or described in section 6.

Fairness. `ThreadPool`: weak fairness of each worker, of each client inside `POOL_add`, of
creation and of joining: threads are scheduled and job functions return; nothing makes a
client submit or free. `MTStream`: weak fairness of the application thread inside a call
and of each worker, for the same reason; strong fairness of `CallEnd` is the caller that
keeps asking for the end of its frame and keeps making room, without which no completion can
be promised (`zstd.h` asks it of callers of `ZSTD1_endStream`). `CallReturns` and
`JobCompletes` need no help from it to stop a thread inside a call. `LegacyStream`: weak
fairness of the steps inside a call and of the bufferless loop, strong fairness of
`CallWithBoth`, the caller who again and again brings at least a byte of source and room for a
byte; calls with less may come in between. No fairness is assumed of failures, of spurious
wake-ups, of new frames or of new sources.

## 4. Proofs

| Module | Theorems | For |
|---|---|---|
| `ThreadPoolProofs` | `TypeCorrect`, `AcceptedJobHasThread`, `NoJobAbandoned`, `PoolIsAJobQueue` | any finite non-empty set of workers, any clients, bound on jobs and queue sizes (`PoolAssumption`) |
| `MTStreamProofs` | `TypeCorrect`, `OwnJob`, `CompletedInactive`, `SkippedFailed` | any number of workers, table, job size, room, input, frames and failures, and any `Uses` but `emptyFrame` and `dropReady` |
| `MTOutputProofs` | `Flushed`, `Encodes` | the same, with `Uses = {}` |
| `RoundBufferProofs` | `TypeCorrect`, `InputNeverOverwritten`, `GrantedSectionFits`, `LdmHistoryKept`, `LdmNeverStuck` | any workers and slots, section size, prefix no longer than a section, windows, input and failures (`RoundAssumption`; `ZSTDMT_initCStream_internal` makes a section at least a prefix long); what they say of the LDM window holds until a job fails |
| `MatchStateProofs` | `WindowInvariant`, `HistoryTheorem`, `IndicesTheorem` | any memory, chunks, placements and hash, any sizes with `CurrentMax` at least a window, a cycle and a block (`SizesAssumption`, `MemoryAssumption`), and, as a hypothesis of each theorem, dictionaries that end a window and a block below `CurrentMax` (`LowDictionaries`) |
| `MatchSearchProofs` | `TypeOKTheorem`, `RegeneratesTheorem`, `PlainRegenerates` | the first two: the same, and behaviours with `OffsetsInReach`; the third needs neither hypothesis, for frames without a dictionary (`DictIndexMax = 0`; jobs have their prefixes). All: any hash functions into the tables (`HashAssumption`), blocks no longer than the window and windows of four bytes or more (`SizesAssumption`; `ZSTD1_resetCCtx_internal` takes the smaller of the block and the window, `ZSTD1_WINDOWLOG_MIN` is 10) |
| `DStreamProofs` | `CurrentInv`, `CurrentTypes`, `CurrentFlush`, `CurrentZero`, `CurrentNeverFails`, `CurrentEnd`, `CurrentNeverBack`, `CurrentHint` | any sources of frames of the current format and skippable frames (`CurrentOnly`), any cut of source and room, any block, window and dictionary size, number of sources and failing allocations (`SizeAssumption`, `SourceAssumption`, `DStreamAssumption`) |

### The pool

None of its properties is inductive. `IInv` adds: `RingInv` (a ring of more than one slot is
flagged empty exactly when head and tail meet, so it is never full and `Count` tells its jobs),
`NoHoles` (every counted slot holds a job, so `NoJob` is never popped), `BusyInv` (for a
queue of size 1, `numThreadsBusy` is the number of workers between pop and unbusy, so the
test of `isQueueFull` on the counter is a test on threads), `WorkersInv` (a worker holds a job
exactly between popping it and returning from it, no thread counts before creation is over,
all are gone when the context is freed) and `ClientsInv`. Refinement needs more,
in `RInv`: a job is in one place at most (waiting, running or done: `UniqueInv`) and the jobs
a client has still to submit are in none (`FreshInv`); otherwise `Submit` could not be
shown to hand over a new job. Each action is then one step of `JobQueue` or a stutter.
Lemmas about `Content` say what popping and appending do to the sequence, whatever the
wrap-around.

### The job table

`IInv` of `MTStreamProofs` says who may touch which slot. `Placed`: jobs `doneJobID` to
`nextJobID - 1` lie each in the slot of its number, at most `NbSlots` of them, so no two share
one (`SlotDistinct`; the mask is a remainder because the table is a power of two). `Ready`: the
prepared job is in the slot behind them, untouched. `Spare`: every other slot is zeroed.
`Queue`, `Working`, `Exclusive`: a slot is queued, or some worker's, or neither; a worker that
is `Active` has a pending job that is not consumed, and how much it has written is told by its
stage. `Busy` counts the workers, so the pool refuses when it should. The theorems leave out
two uses: without them a job has input and `jobReady` is that of the open frame, which is
what every test `consumed = size` and every reuse of a slot rests on. The runs `mt_empty` and
`mt_reuse` show both rules broken, so neither hypothesis can be dropped.

`MTOutputProofs` adds `Content`, what the jobs hold: `Cutting` (the input is cut into
consecutive jobs; exactly the last one ends the frame; who writes the checksum), `Writing` (the
output of a job is a section of the frame's tokens, whole when it is complete), `Given` (what
the caller has is the frame up to the flushed part of the current job) and `Turns` (while no
live job has failed, serial turns are taken in order, none is passed over, and the hash covers
the input up to the job whose turn it is: this makes the checksum that of the whole input).
`Encodes` is then the refinement of `MTFrame`: `InitCStream` is `Start`, `FillInput` is
`Accept`, `Flush` is `Deliver`, `FailFrame` is `Fail`, all else stutters. A failed job never
gets past `Flush`, so its turn, taken or not, reaches no caller.

### The round buffer

The code tests a new range against one job only, the earliest that is not complete, and it
tests once, before two waits. Why that is enough is `Placement`: every incomplete job lies
wholly behind the write position or wholly ahead of it; those ahead are older than those
behind; on each side the older job lies lower. So if a range that begins at the write
position does not touch the earliest job, it touches none. `Shape` keeps that a job was cut
from a section that was whole, by which no job is ahead once the buffer must wrap:
the wrap turns all of them from behind to ahead. `RangeInv` carries the test over the waits:
between test and use the application thread stands still, and workers only make jobs
complete. `JobContent` and `PrefixInv` then follow the bytes: of a job, of the prefix of the
next one (moved by the wrap) and of the section being filled. Of the capacity these proofs use
only that it is at least two sections.

The proofs about the LDM window need the rest of it. Until a job fails, turns are taken in order
(`LdmTurns`), so the window is the input up to the job whose turn is next (`LdmContent`). The
sections still to be hashed follow it as a chain (`LdmChain`): each begins where the one before
ended, or at the beginning of the buffer when that one ended within a section of its end. None
of them, nor the range about to be granted, touches the window (`LdmApart`). `LdmPlaced` says
that an older segment is there only after a wrap, and ends near the end of the buffer. A
window that is in the way of a range therefore cannot be the one left by the last job: with
`windowSize + 3 * Target` bytes, a chain whose jobs are all hashed leaves the window right
before the range, clear of it. So while the application thread waits some posted job is not
hashed, and the worker of the first such job has its turn (`LdmNeverStuck`). The premise that no
job has failed cannot be dropped: `round_ldm_fail`.

### The match window

`IInv` of `MatchStateProofs` is the order of the limits; `Holds`: every index from `lowLimit` on
is a byte of the stream, at its distance from the end, still in memory; and `Near`: `lowLimit`
is within `MaxDist` of what was compressed, unless a dictionary is still in use; then it ends at
`DictIndexMax` or lower and no more than `MaxDist` was compressed behind it. One lemma for each
operation on the window says what it keeps (`Segment`, `Overlap`, `Updated`, `Corrected`,
`Enforced`). The one that is not evident is `Overlap`: input written over the dictionary segment
makes only the part *after* it usable, and what is written over the current segment is nothing
that has an index. `Near` is why `Correction` takes off no more than `lowLimit`, so that no
index that may be referred to becomes negative: the order of correcting before enforcing matters
there. For a dictionary in use this takes `LowDictionaries`: what is compressed cannot be far
enough for a reduction. The code does not see to that, so it is a hypothesis of the theorems and
no assumption on constants.

`MatchSearchProofs` is about the tables and the searches. `Spot` says what a table may hold
while a search is at `ip`: an index below `lowLimit`, one whose eight bytes lie in the
dictionary segment, or one in the prefix before `ip` with eight bytes before the block's end.
What is *not* excluded is an index of an older frame or of memory overwritten since: it lies
below `lowLimit`, and the searches must not use it. Everything else a search does follows from
what is kept by one turn, `SearchInv`:

* `Steady`: the tables hold spots, the position and the anchor are in the block, and the two
  offsets stay in the prefix when there is one segment (an offset that does not was put aside)
  and are no larger than what was compressed. With two segments the code looks at `ip - offset`
  as an unsigned number; `RepHeld` shows that what `RepInSegment` then lets through is four bytes
  of one segment. It needs an offset to be no larger than the index, also the 4 a frame begins
  with: with two segments every block begins at index 4 or later, because a dictionary segment
  shorter than eight bytes is dropped (`Marks`). A reduction moves the index back and leaves the
  offset: here `OffsetsInReach` is needed, and nowhere else. Without dictionaries it holds by
  itself, because an offset is then never larger than the window, to which indices are reduced
  at the lowest (`PlainOffsets`, `PlainRegenerates`).
* `Tracked`: some offsets `r` of a decoder are reached by the sequences so far (`Encoded`:
  each match is a copy the decoder makes, within the window or from a dictionary it still
  has), and agree with the search's. `Agrees` is loose by what the code leaves loose: the
  second offset may be that of the decoder or equal to the first, the third is the decoder's
  alone, and an offset put aside counts as the one it was.
* `Behind`: right behind a match, where the second offset is tried with a sequence that has no
  literals, it is the decoder's, or it is put aside or leads to other bytes and is not taken. So
  the swap of the decoder's offsets is never one too many.

`Made` then says that a decoder that follows such a `Path` puts out the stream: a match longer
than its offset repeats itself as the stream does (`Periodic`). Between blocks the invariant is
`SInv`: `TablesFit`, `OffsetsAt`, `Marks` (where the frame is, and how long a loaded dictionary
is still in reach) and `BlockMade`. A block left raw changes the tables and not the offsets; a
reduction turns an index below the new `lowLimit` into 0, which is no index because a reduced
window begins above 0 (`BlockGiven`); a frame that keeps its context finds spots of the frame
before, all below its `lowLimit` (`ClearedSpots`).

The recursive functions of the model (the turns of a search, the filling of the tables, the
decoder) are met by `RecursionExists`: by induction on the number of turns, stated for sets of
numbers, a function with those values exists, so it is the one `CHOOSE` takes. What a turn
keeps then holds of the last one.

### The streaming decoder

A frame is data: where it lies in the source, where each of its blocks lies, and where what
each produces lies in the output. `SourceAssumption` says that they follow one another, which
is what a valid source is; no sum over blocks is needed, and the sizes of a source are the
place and size of its last frame. The bounds of the compressor (a block produces no more than a
window and no more than `BlockMax`, a match reaches no farther than the window) are in
`FrameOfBlocks`.

None of the properties is inductive. `IInv` of `DStreamProofs` has three parts.

* `Position`: in each stage of the decoding context, what it expects is one element of the
  frame (a header, the data of a block, the checksum, the end), and it lies exactly where the
  streaming decoder stands in the source, give or take what is already in `headerBuffer` or
  `inBuff` (`HeaderStage`, `LoadStage`) and the byte held hostage. A header that arrives in
  pieces and is then replayed from `headerBuffer` comes out at the same place, which is why
  the decoder cannot lose its place and `CurrentNeverFails` holds. It is also why 0 is the
  truth: it is returned only when the end of the frame is expected and the flush has caught up.
* `History`: what the two segments of the context hold. Nothing yet but the dictionary
  (`NoLap`); the output from the beginning of the buffer, behind the dictionary (`FirstLap`);
  or a lap of the round buffer and the lap before it, which ended at `dictEnd` (`LaterLap`).
  The older lap is whole except for what copies of the current one overrun (`Wildcopy`), and it
  is at least a window and an overrun long. `outBuff` has a window, a block and twice that
  overrun, and a lap ends only when no whole block fits behind it: so an older byte that is
  overwritten, by a block or by what its last copy writes too much, is farther back than the
  window. When the content size is known and the buffer holds all of it, there is one lap only.
* `FlushStage` and the call: output decoded and not yet delivered is the part of `outBuff`
  between `outStart` and `outEnd`, and the position of the output plus that part is what the
  context has decoded. A byte of the source that ends a frame is given back while such a part
  remains (`hostageByte`), so `CurrentEnd` and `CurrentZero` follow.

`CurrentNeverBack` needs besides that a byte of the source is given back only by a call that
took one, so that a call ends where it began or later (`NextForward`), that the caller's
positions stand still inside a call (`CallKeeps`), and that between calls no more is delivered
than the source holds (`SettledBetweenCalls`).

`CurrentHint`: the bound is the end of the frame, `HintEnd`, and a block header more in one
state, while the header of a skippable frame is incomplete. The size suggested there counts a
block header behind it (`zstd_decompress.c:2802`), so with fewer than three bytes of content it
reaches into the next frame, although `zstd.h:342` says it never does. The skippable frame of
the run `decode` holds two bytes, so the case is reached. A caller who follows the suggestion
loses nothing: what is left over is read by a later call. In every other state the bound is the
end of the frame (`OneFrame`, `WithinHeader`).

Legacy frames are outside `CurrentOnly`: a legacy context is a state machine of its own with
its own buffers, four times over, and each would need its own `Position` and `History`. The
run `decode` checks them, and the passage from one format to another.

### Only model-checked

* Every liveness property (`AcceptedJobRuns`, `BlockedAddReturns`, `FreeReturns`,
  `CallReturns`, `JobCompletes`, `FrameCompletes`, `AllDelivered`): fairness and `ENABLED` are
  out of the prover's reach.
* `LegacyStream` for sources with legacy frames: the properties `DStreamProofs` states for
  the current format are checked for v0.4 to v0.7 by `decode` alone.
* `Codec`: what recursive encoders and decoders compute for every input is induction over data.

## 5. Not modelled, and why

* The one-pass multithreaded path posts all its jobs and waits for them in order, with the job
  code `MTStream` models; the buffer, sequence and context pools change the cost of an
  allocation and no result.
* The buffering of `ZSTD1_compressStream_generic`: the blocks it cuts are given to `ZstdC`, its
  round buffer is one more placement of the chunks `MatchState` receives.
* The lazy, binary-tree, optimal and long distance searches use the window `MatchState` models
  and differ in which match they choose; parameter choice is a heuristic.
* The single blocking thread of the multithreaded compressor and the failing allocations of
  `ZSTDMT_initCStream_internal`: after the first the context hands each call to a
  single-threaded one; the second leave a frame that was not begun. That both return before the
  fields of the streaming state are set again is not examined.
* The Go API keeps a slice and an error and passes each call on.
* The dictionary builder selects segments by a heuristic without a specification; the suffix
  sort and the hash are third-party; `mem.h`, `cpu.h` and `compiler.h` have no state.
* Pthread primitives are modelled by their POSIX meaning, not from `threading.c` (the Windows
  emulation).

`PROJECT.json` gives each part a status, and lists the hazards no property covers with the reason.

## 6. What the code does against its own word

Checked by runs of their own:

1. `mt_reuse`: `ZSTDMT_initCStream_internal` and the error path of `ZSTDMT_flushProduced` do
   not reset `jobReady`. A frame abandoned while a prepared job waits makes the next frame
   post a slot that was zeroed.
2. `mt_empty`: a frame ended before any input has one job with an empty source, which every
   test `consumed == src.size` takes for completed while its worker is active.
3. `round_ldm_fail`: a failing job skips the serial turn of earlier ones; their sections are
   missing from the LDM window, which then does not move out of the way, and the application
   thread waits for ever in `ZSTDMT_waitForLdmComplete`.

Seen while modelling, without a run:

* A frame of one job clears `checksumFlag` in the sticky parameters
  (`zstdmt_compress.c:1440`), so a frame started with `ZSTDMT_resetCStream` has no checksum
  although `zstdmt_compress.h:94` says parameters remain the same (`MTStream` with
  `Uses = {"resetSum"}` violates `EncodesInput`).
* `ZSTDMT_serialState_update` counts a turn that was skipped, so later turns are skipped too
  (harmless in that the frame has failed).
* An overlap log of 0 gives a prefix of one byte where `zstdmt_compress.h:87` says no overlap.
* `ZSTD1_decompressMultiFrame` adds what a legacy decoder returns without looking for an error;
  `DecompressTight` leaves out the sources where that shows.
* The size suggested while the header of a skippable frame is incomplete may reach into the
  next frame, against `zstd.h:342`, when the frame holds fewer than three bytes (with the end of
  the frame for `HintEnd`, `decode` violates `HintWithinFrame`).
* A legacy frame is recognised by the bytes of one call only (`zstd_decompress.c:2773`): when up
  to four of its bytes come first it is refused. `ValidNeverFails` excepts this case alone.
* The compressor accepts a dictionary whose repeat offset equals its content's size
  (`zstd_compress.c:2326`), the decoder refuses it.
* v0.2 to v0.4 copy raw literals that end near the end of the block from three bytes too early
  (`EarlyRawLiterals`).
* A dictionary loaded into a kept context at a high index makes `lowLimit -= correction` go
  below zero (`zstd_compress_internal.h:521`): with `DictIndexMax = IndexMax` and `MaxCalls = 5`
  in `MCMatchState.cfg`, `IndicesReduced` is violated.
* A repeat offset found in a dictionary may be larger than the window, and blocks left raw keep
  it. When indices are reduced meanwhile, `current - offset` of a search in two segments falls
  below zero, which the test `repIndex > lowestIndex` of an unsigned number lets through
  (`zstd_fast.c:180`, where line 217 speaks of an "intentional overflow"), and
  the search reads what is not history. With a dictionary as long as 28 bytes, a `CurrentMax`
  of 66 and chunks that find a match at its beginning, `Regenerates` is violated although
  `LowDictionaries` holds.

## 7. What is left to prove

1. The legacy contexts, one by one: `ZbuffV04` has the same two laps with a fixed buffer, and
   `History` should carry over with other sizes; then `LegacyStream` without `CurrentOnly`.
2. `MTStream` with `resetSum`: `EncodesInput` weakened by the checksum alone.
3. The lazy and binary-tree searches: they use the window as the fast ones do, so `Spot` and
   `Encoded` should carry over to a model of their tables.
