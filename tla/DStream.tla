------------------------------ MODULE DStream ------------------------------
(***************************************************************************)
(* zstd_decompress.c, the streaming decoder ZSTD1_decompressStream, and    *)
(* the bufferless decoding loop zstd.h describes.  The caller holds a      *)
(* source and hands it over in pieces of any size, with room for any       *)
(* number of bytes of output; one action is one stage of the state machine *)
(* inside a call.  Frames in a legacy format are handed to the contexts of *)
(* module LegacyStream.                                                    *)
(***************************************************************************)
EXTENDS DContext

CONSTANTS
  Api,            \* "stream": ZSTD1_decompressStream; "bufferless": the loop
  InSizes,        \* how many bytes of source a call may be given
  OutSizes,       \* how much room for output a call may be given
  WindowMin,      \* 1 << ZSTD1_WINDOWLOG_ABSOLUTEMIN
  MaxWindowSize,  \* maxWindowSize of the context
  MaxSources,     \* bound: sources decoded with one context
  MaxAllocFail    \* bound: allocations that fail

ASSUME DStreamAssumption ==
  /\ Api \subseteq {"stream", "bufferless"}
  /\ InSizes \subseteq Nat /\ OutSizes \subseteq Nat
  /\ {WindowMin, MaxWindowSize, MaxSources, MaxAllocFail} \subseteq Nat /\ MaxSources > 0

VARIABLES
  api, src, sources,        \* the caller's side; sources counts those begun
  ipos, opos,               \* input->pos, output->pos over the whole source
  call,                     \* the call in progress
  ret,                      \* what the last call returned
  dctx, mem,                \* the context; the content of outBuff
  streamStage, frame,       \* frame: the one whose header is in headerBuffer
  lhSize, inPos, outStart, outEnd, hostageByte,
  inBuffSize, outBuffSize, fParams,
  legacyVersion, previousLegacyVersion, zb,   \* zb: legacyContext
  failures

userVars   == <<api, src, sources, ipos, opos>>
buffVars   == <<inBuffSize, outBuffSize, fParams>>
legacyVars == <<legacyVersion, previousLegacyVersion, zb>>
zdsVars    == <<streamStage, frame, lhSize, inPos, outStart, outEnd, hostageByte>>
vars == <<userVars, call, ret, dctx, mem, zdsVars, buffVars, legacyVars, failures>>

\* ip, op: how far the call has read and written; istart, iend, oend: its limits.
Idle == [on |-> FALSE, istart |-> 0, ip |-> 0, iend |-> 0, op |-> 0, oend |-> 0,
         more |-> FALSE]
NoReturn == 1000

InitWith(s, a, n) ==
  /\ src = s /\ api = a /\ sources = n
  /\ ipos = 0 /\ opos = 0 /\ call = Idle /\ ret = NoReturn
  /\ streamStage = "init" /\ hostageByte = 0

Init ==
  /\ \E s \in Sources, a \in Api : InitWith(s, a, 1)
  /\ dctx = DecompressBegin /\ mem = [a \in {} |-> 0]
  /\ frame = 0 /\ lhSize = 0 /\ inPos = 0 /\ outStart = 0 /\ outEnd = 0
  /\ inBuffSize = 0 /\ outBuffSize = 0 /\ fParams = FrameParams(0, 0, 0, FALSE)
  /\ legacyVersion = 0 /\ previousLegacyVersion = 0 /\ zb = <<>>
  /\ failures = 0

-----------------------------------------------------------------------------
\* The caller.

\* Hand over n bytes from input->pos on, and room for k bytes.
CallStream(n, k) ==
  /\ ~call.on /\ api = "stream" /\ ~IsError(ret)
  /\ ipos < SourceSize(src) \/ ret # 0
  /\ call' = [on |-> TRUE, istart |-> ipos, ip |-> ipos,
              iend |-> Smaller(ipos + n, SourceSize(src)),
              op |-> opos, oend |-> opos + k, more |-> TRUE]
  /\ UNCHANGED <<userVars, ret, dctx, mem, zdsVars, buffVars, legacyVars, failures>>

\* ZSTD1_initDStream, at any moment between two calls: another source.
InitDStream(s) ==
  /\ ~call.on /\ sources < MaxSources
  /\ src' = s /\ sources' = sources + 1 /\ ipos' = 0 /\ opos' = 0
  /\ ret' = NoReturn
  /\ streamStage' = "init" /\ frame' = 0
  /\ dctx' = IF api = "bufferless" THEN DecompressBeginUsingDict ELSE dctx
  /\ UNCHANGED <<api, call, mem, lhSize, inPos, outStart, outEnd, hostageByte,
                 buffVars, legacyVars, failures>>

-----------------------------------------------------------------------------
\* Inside a call.

In(st) == call.on /\ call.more /\ streamStage = st

\* Leave the call with an error: input->pos and output->pos do not move.
Fail(code) ==
  /\ ret' = code /\ call' = Idle
  /\ UNCHANGED <<userVars>>

\* Mutant: outStart and outEnd of the frame before stay.
ResetDStreamKeepsOut ==
  /\ streamStage' = "loadHeader"
  /\ lhSize' = 0 /\ inPos' = 0 /\ outEnd' = outEnd /\ outStart' = outStart
  /\ legacyVersion' = 0 /\ hostageByte' = 0

ResetDStream ==
  /\ streamStage' = "loadHeader"
  /\ lhSize' = 0 /\ inPos' = 0 /\ outStart' = 0 /\ outEnd' = 0
  /\ legacyVersion' = 0 /\ hostageByte' = 0

StartFrame ==
  /\ In("init")
  /\ ResetDStream
  /\ frame' = IF Layout[src][call.ip].el = "header" THEN Layout[src][call.ip].frame ELSE 0
  /\ UNCHANGED <<userVars, call, ret, dctx, mem, buffVars, previousLegacyVersion, zb,
                 failures>>

\* What the bytes in headerBuffer say.
Header == IF lhSize >= HeaderPrefix /\ frame = 0
          THEN [ret |-> Error.prefix_unknown, params |-> fParams]
          ELSE GetFrameHeader(src, frame, lhSize)
InHeader == In("loadHeader") /\ legacyVersion = 0

\* More of the header is wanted; without it the call ends.
LoadHeader ==
  LET wanted == Header.ret
      left == call.iend - call.ip
  IN
  /\ InHeader /\ wanted > 0
  /\ IF wanted - lhSize > left
     THEN /\ lhSize' = lhSize + left
          /\ ipos' = call.iend
          /\ ret' = Larger(HeaderPrefix + 1, wanted) - lhSize' + BlockHeader
          /\ call' = Idle
     ELSE /\ lhSize' = wanted
          /\ call' = [call EXCEPT !.ip = @ + wanted - lhSize]
          /\ UNCHANGED <<ipos, ret>>
  /\ UNCHANGED <<api, src, sources, opos, dctx, mem, streamStage, frame, inPos, outStart,
                 outEnd, hostageByte, buffVars, legacyVars, failures>>

\* The frame fits the room given and all of it is there: one pass, into the
\* caller's buffer.
SinglePassSize ==
  IF /\ Header.params.frameContentSize # 0 /\ Header.params.windowSize # 0
     /\ Header.params.frameContentSize # Unknown
     /\ call.oend - call.op >= Header.params.frameContentSize
  THEN FindFrameCompressedSize(src, call.istart, call.iend)
  ELSE Error.GENERIC

SinglePass ==
  /\ InHeader /\ Header.ret = 0 /\ ~IsError(SinglePassSize)
  /\ LET d == DecompressFrame(src[Layout[src][call.istart].frame], call.oend - call.op) IN
     IF IsError(d)
     THEN Fail(d) /\ dctx' = DecompressBeginUsingDDict /\ UNCHANGED streamStage
     ELSE /\ call' = [call EXCEPT !.ip = call.istart + SinglePassSize, !.op = @ + d,
                                  !.more = FALSE]
          /\ dctx' = [DecompressBeginUsingDDict EXCEPT !.expected = 0]
          /\ streamStage' = "init"
          /\ UNCHANGED <<userVars, ret>>
  /\ fParams' = Header.params
  /\ UNCHANGED <<mem, frame, lhSize, inPos, outStart, outEnd, hostageByte, inBuffSize,
                 outBuffSize, legacyVars, failures>>

\* Mutant: no room for the bytes a copy overruns its end by.
DecodingBufferSizeTight(window, fcs) ==
  LET needed == window + Smaller(window, BlockMax)
  IN IF fcs = Unknown THEN needed ELSE Smaller(fcs, needed)

DecodingBufferSizeMin(window, fcs) ==
  LET needed == window + Smaller(window, BlockMax) + 2 * Wildcopy
  IN IF fcs = Unknown THEN needed ELSE Smaller(fcs, needed)

FreshBuffer(size) == [a \in 0 .. size - 1 |-> 0]

\* The header is complete: set the context up and make room for the window.
ConsumeHeader ==
  LET params == [Header.params EXCEPT !.windowSize = Larger(@, WindowMin)]
      neededIn == Larger(params.blockSizeMax, Checksum)
      neededOut == DecodingBufferSizeMin(params.windowSize, params.frameContentSize)
  IN
  /\ InHeader /\ Header.ret = 0 /\ IsError(SinglePassSize)
  /\ dctx' = LET d == DecompressBeginUsingDDict IN
             IF src[frame].kind = Skippable
             THEN [d EXCEPT !.expected = src[frame].skip, !.stage = "skipFrame"]
             ELSE ToBlockHeader(DecodeFrameHeader(src, d, frame))
  /\ fParams' = params
  /\ CASE params.windowSize > MaxWindowSize ->
            Fail(Error.windowTooLarge)
            /\ UNCHANGED <<streamStage, mem, inBuffSize, outBuffSize, failures>>
       [] params.windowSize <= MaxWindowSize
          /\ (inBuffSize < neededIn \/ outBuffSize < neededOut) ->
            \/ /\ inBuffSize' = neededIn /\ outBuffSize' = neededOut
               /\ mem' = FreshBuffer(neededOut)
               /\ streamStage' = "read"
               /\ UNCHANGED <<userVars, call, ret, failures>>
            \/ /\ failures < MaxAllocFail /\ failures' = failures + 1
               /\ inBuffSize' = 0 /\ outBuffSize' = 0 /\ mem' = FreshBuffer(0)
               /\ Fail(Error.memory_allocation)
               /\ UNCHANGED streamStage
       [] OTHER ->
            /\ streamStage' = "read"
            /\ UNCHANGED <<userVars, call, ret, mem, inBuffSize, outBuffSize, failures>>
  /\ UNCHANGED <<frame, lhSize, inPos, outStart, outEnd, hostageByte, legacyVars>>

\* Use the result r of ZSTD1_decompressContinue: a block to flush, or go on reading.
Took(r, skipped) ==
  /\ dctx' = r.d /\ mem' = r.m
  /\ IF r.ret = 0 /\ ~skipped
     THEN streamStage' = "read" /\ UNCHANGED outEnd
     ELSE streamStage' = "flush" /\ outEnd' = outStart + r.ret

ReadDirect ==
  LET skipped == IsSkipFrame(dctx)
      r == DecompressContinue(src, dctx, mem, outStart,
                              IF skipped THEN 0 ELSE outBuffSize - outStart,
                              call.ip, dctx.expected)
  IN
  /\ In("read") /\ dctx.expected > 0 /\ call.iend - call.ip >= dctx.expected
  /\ IF IsError(r.ret)
     THEN Fail(r.ret) /\ UNCHANGED <<dctx, mem, streamStage, outEnd>>
     ELSE /\ Took(r, skipped)
          /\ call' = [call EXCEPT !.ip = @ + dctx.expected]
          /\ UNCHANGED <<userVars, ret>>
  /\ UNCHANGED <<frame, lhSize, inPos, outStart, hostageByte, buffVars, legacyVars, failures>>

\* Nothing is expected: the frame is over.  Or nothing is left: the call is.
ReadStops ==
  /\ In("read") /\ (dctx.expected = 0 \/ call.ip = call.iend)
  /\ call' = [call EXCEPT !.more = FALSE]
  /\ streamStage' = IF dctx.expected = 0 THEN "init" ELSE "read"
  /\ UNCHANGED <<userVars, ret, dctx, mem, frame, lhSize, inPos, outStart, outEnd,
                 hostageByte, buffVars, legacyVars, failures>>

StartLoad ==
  /\ In("read") /\ dctx.expected > call.iend - call.ip /\ call.ip < call.iend
  /\ streamStage' = "load"
  /\ UNCHANGED <<userVars, call, ret, dctx, mem, frame, lhSize, inPos, outStart, outEnd,
                 hostageByte, buffVars, legacyVars, failures>>

\* Gather what is expected in inBuff; a skippable frame is not kept.
Load ==
  LET skipped == IsSkipFrame(dctx)
      toLoad == dctx.expected - inPos
      loaded == Smaller(toLoad, call.iend - call.ip)
      r == DecompressContinue(src, dctx, mem, outStart, outBuffSize - outStart,
                              call.ip + loaded - dctx.expected, dctx.expected)
  IN
  /\ In("load")
  /\ CASE ~skipped /\ toLoad > inBuffSize - inPos ->
            /\ Fail(Error.corruption_detected)
            /\ UNCHANGED <<dctx, mem, streamStage, inPos, outEnd>>
       [] loaded < toLoad /\ (skipped \/ toLoad <= inBuffSize - inPos) ->
            /\ call' = [call EXCEPT !.ip = @ + loaded, !.more = FALSE]
            /\ inPos' = inPos + loaded
            /\ UNCHANGED <<userVars, ret, dctx, mem, streamStage, outEnd>>
       [] loaded = toLoad /\ (skipped \/ toLoad <= inBuffSize - inPos) ->
            IF IsError(r.ret)
            THEN /\ Fail(r.ret)
                 /\ inPos' = inPos + loaded
                 /\ UNCHANGED <<dctx, mem, streamStage, outEnd>>
            ELSE /\ Took(r, skipped)
                 /\ inPos' = 0
                 /\ call' = [call EXCEPT !.ip = @ + loaded]
                 /\ UNCHANGED <<userVars, ret>>
  /\ UNCHANGED <<frame, lhSize, outStart, hostageByte, buffVars, legacyVars, failures>>

\* Mutant: outBuff never starts again.
WrapsNever(start) == FALSE /\ start > outBuffSize

\* Start again at the beginning of outBuff when the next block may not fit.
Wraps(start) ==
  /\ fParams.frameContentSize = Unknown \/ outBuffSize < fParams.frameContentSize
  /\ start + fParams.blockSizeMax > outBuffSize

Flush ==
  LET flushed == Smaller(call.oend - call.op, outEnd - outStart)
      full == outStart + flushed
  IN
  /\ In("flush")
  /\ IF full = outEnd
     THEN /\ streamStage' = "read"
          /\ IF Wraps(full) THEN outStart' = 0 /\ outEnd' = 0
             ELSE outStart' = full /\ UNCHANGED outEnd
          /\ call' = [call EXCEPT !.op = @ + flushed]
     ELSE /\ outStart' = full
          /\ call' = [call EXCEPT !.op = @ + flushed, !.more = FALSE]
          /\ UNCHANGED <<streamStage, outEnd>>
  /\ UNCHANGED <<userVars, ret, dctx, mem, frame, lhSize, inPos, hostageByte, buffVars,
                 legacyVars, failures>>

\* Mutant: what is loaded already is asked for again.
HintAgain == dctx.expected + (IF dctx.stage = "decompressBlock" THEN BlockHeader ELSE 0)

\* What the next call should bring; the header of the block after comes with a block.
Hint == dctx.expected + (IF dctx.stage = "decompressBlock" THEN BlockHeader ELSE 0) - inPos

\* Mutants of Return.  The end of the input is not withheld while output is left.
ReturnWithoutHostage ==
  /\ call.on /\ ~call.more
  /\ opos' = call.op /\ call' = Idle
  /\ ipos' = call.ip
  /\ ret' = IF dctx.expected > 0 THEN Hint ELSE IF outEnd = outStart THEN 0 ELSE 1
  /\ UNCHANGED <<api, src, sources, dctx, mem, zdsVars, buffVars, legacyVars, failures>>

\* 0 says that everything is decoded, not that it is delivered.
ReturnBeforeFlush ==
  /\ call.on /\ ~call.more
  /\ opos' = call.op /\ call' = Idle
  /\ ipos' = call.ip
  /\ ret' = IF dctx.expected > 0 THEN Hint ELSE 0
  /\ UNCHANGED <<api, src, sources, dctx, mem, zdsVars, buffVars, legacyVars, failures>>

\* A hostage is taken by every call; or it is never given back.
ReturnOneMore(takes, gives) ==
  /\ call.on /\ ~call.more
  /\ opos' = call.op /\ call' = Idle
  /\ hostageByte' = IF dctx.expected = 0 /\ outEnd # outStart THEN 1 ELSE hostageByte
  /\ ipos' = IF dctx.expected # 0 THEN call.ip
              ELSE IF outEnd # outStart
              THEN IF takes \/ hostageByte = 0 THEN call.ip - 1 ELSE call.ip
              ELSE IF gives /\ hostageByte = 1 /\ call.ip < call.iend THEN call.ip + 1
              ELSE call.ip
  /\ ret' = IF dctx.expected > 0 THEN Hint
             ELSE IF outEnd = outStart /\ ipos' >= call.ip THEN 0 ELSE 1
  /\ UNCHANGED <<api, src, sources, dctx, mem, streamStage, frame, lhSize, inPos, outStart,
                 outEnd, buffVars, legacyVars, failures>>
ReturnTakesHostages == ReturnOneMore(TRUE, TRUE)
ReturnKeepsHostage  == ReturnOneMore(FALSE, FALSE)

\* The last byte of a frame is handed back, as a hostage, until all its output is.
Return ==
  /\ call.on /\ ~call.more
  /\ opos' = call.op /\ call' = Idle
  /\ CASE dctx.expected > 0 ->
            ipos' = call.ip /\ ret' = Hint /\ UNCHANGED <<hostageByte, streamStage>>
       [] dctx.expected = 0 /\ outEnd = outStart /\ hostageByte = 0 ->
            ipos' = call.ip /\ ret' = 0 /\ UNCHANGED <<hostageByte, streamStage>>
       [] dctx.expected = 0 /\ outEnd = outStart /\ hostageByte = 1 ->
            IF call.ip >= call.iend
            THEN /\ ipos' = call.ip /\ ret' = 1 /\ streamStage' = "read"
                 /\ UNCHANGED hostageByte
            ELSE /\ ipos' = call.ip + 1 /\ ret' = 0
                 /\ UNCHANGED <<hostageByte, streamStage>>
       [] dctx.expected = 0 /\ outEnd # outStart ->
            /\ ipos' = IF hostageByte = 0 THEN call.ip - 1 ELSE call.ip
            /\ hostageByte' = 1 /\ ret' = 1 /\ UNCHANGED streamStage
  /\ UNCHANGED <<api, src, sources, dctx, mem, frame, lhSize, inPos, outStart, outEnd,
                 buffVars, legacyVars, failures>>

-----------------------------------------------------------------------------
\* The bufferless loop: the caller brings what nextSrcSizeToDecompress asks for
\* and decodes each block behind the one before, in a round buffer of its own.
\* frame is the one whose size it gave the buffer.
BufferlessStep ==
  LET e == Layout[src][ipos]
      starting == dctx.stage = "getFrameHeaderSize"
      header == GetFrameHeader(src, e.frame, src[e.frame].size)
      params == header.params
      begun == DecompressBeginUsingDict
      size == DecodingBufferSizeMin(params.windowSize, params.frameContentSize)
      d == IF starting THEN begun ELSE dctx
      cap == IF d.stage \in {"decompressBlock", "decompressLastBlock"}
             THEN outBuffSize - outStart ELSE 0
      r == IF starting /\ IsError(header.ret) THEN [ret |-> header.ret, d |-> dctx, m |-> mem]
           ELSE DecompressContinue(src, d, mem, outStart, cap, ipos, d.expected)
  IN
  /\ api = "bufferless" /\ ~IsError(ret) /\ ipos < SourceSize(src)
  /\ IF IsError(r.ret) THEN ret' = r.ret /\ UNCHANGED <<ipos, opos>>
     ELSE ret' = r.d.expected /\ ipos' = ipos + d.expected /\ opos' = opos + r.ret
  /\ dctx' = r.d
  /\ IF starting /\ ~IsError(r.ret)
     THEN /\ mem' = FreshBuffer(size) /\ outBuffSize' = size /\ fParams' = params
          /\ outStart' = 0
     ELSE /\ mem' = r.m
          /\ outStart' = IF IsError(r.ret) THEN outStart
                        ELSE IF Wraps(outStart + r.ret) THEN 0 ELSE outStart + r.ret
          /\ UNCHANGED <<outBuffSize, fParams>>
  /\ UNCHANGED <<api, src, sources, call, streamStage, frame, lhSize, inPos, outEnd,
                 hostageByte, inBuffSize, legacyVars, failures>>

=============================================================================
