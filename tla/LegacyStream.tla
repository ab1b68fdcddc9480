---------------------------- MODULE LegacyStream ----------------------------
(***************************************************************************)
(* The streaming decoder with the legacy formats of zstd_legacy.h: a frame *)
(* of v0.4 to v0.7 is decoded by a buffered context of that version, which *)
(* is kept for the next frame of the same version.  v0.1 to v0.3 have no   *)
(* streaming decoder.                                                      *)
(***************************************************************************)
EXTENDS DStream, LegacyContext

V04 == INSTANCE ZbuffV04
V05 == INSTANCE ZbuffV05
V06 == INSTANCE ZbuffV06
V07 == INSTANCE ZbuffV07

\* ZSTD1_isLegacy: the version the bytes p .. end - 1 begin a frame of, or 0.
IsLegacy(s, p, end) ==
  LET e == Layout[s][p] IN
  IF end - p < 4 \/ e.el # "header" THEN 0
  ELSE IF s[e.frame].kind \in {Zstd, Skippable} THEN 0 ELSE s[e.frame].kind

\* ZSTD1_initLegacyStream: a context of the same version is used again.
InitLegacyStream(prev, new) ==
  LET z == IF prev = new /\ new >= 4 THEN zb ELSE NewZbuff
  IN CASE new = 4 -> V04!DecompressInit(z)
       [] new = 5 -> V05!DecompressInit(z)
       [] new = 6 -> V06!DecompressInit(z)
       [] new = 7 -> V07!DecompressInit(z)
       [] OTHER -> z

-----------------------------------------------------------------------------
\* The header is not one of this format: a legacy frame, if the bytes of this
\* very call begin one.
LegacyDetect ==
  LET version == IsLegacy(src, call.istart, call.iend) IN
  /\ InHeader /\ IsError(Header.ret)
  /\ IF version = 0
     THEN Fail(Header.ret) /\ UNCHANGED legacyVars
     ELSE /\ zb' = InitLegacyStream(previousLegacyVersion, version)
          /\ legacyVersion' = version /\ previousLegacyVersion' = version
          /\ call' = [call EXCEPT !.ip = call.istart]
          /\ UNCHANGED <<userVars, ret>>
  /\ UNCHANGED <<dctx, mem, zdsVars, buffVars, failures>>

InLegacy == In("loadHeader") /\ legacyVersion > 0

\* One turn of the loop of ZBUFF...decompressContinue.
LegacyLoop ==
  CASE legacyVersion = 4 -> V04!LoopStep(src, frame, zb, call)
    [] legacyVersion = 5 -> V05!LoopStep(src, frame, zb, call)
    [] legacyVersion = 6 -> V06!LoopStep(src, frame, zb, call)
    [] legacyVersion = 7 -> V07!LoopStep(src, frame, zb, call)
    [] OTHER -> Step(zb, call, Error.version_unsupported)

\* A return from inside the loop: all the source is taken as read, and unless
\* it is an error nothing was written.  ZSTD1_decompressLegacyStream moves the
\* caller's positions even then: by all it was given.
LegacyStep ==
  /\ InLegacy
  /\ \E r \in {LegacyLoop} :
       /\ zb' = r.z
       /\ IF r.ret = Running
          THEN call' = r.c /\ UNCHANGED <<ipos, opos, ret>>
          ELSE /\ call' = Idle /\ ret' = r.ret
               /\ ipos' = IF legacyVersion < 4 THEN ipos ELSE call.iend
               /\ opos' = IF legacyVersion < 4 \/ ~IsError(r.ret) THEN opos ELSE call.oend
  /\ UNCHANGED <<api, src, sources, dctx, mem, zdsVars, buffVars, legacyVersion,
                 previousLegacyVersion, failures>>

\* The loop ends: the positions move, and a hint of 0 ends the frame.
LegacyReturn ==
  LET hint == CASE legacyVersion = 4 -> V04!Hint(zb)
                [] legacyVersion = 5 -> V05!Hint(zb)
                [] legacyVersion = 6 -> V06!Hint(zb)
                [] legacyVersion = 7 -> V07!Hint(zb)
  IN
  /\ call.on /\ ~call.more /\ streamStage = "loadHeader"
  /\ ipos' = call.ip /\ opos' = call.op /\ ret' = hint /\ call' = Idle
  /\ streamStage' = IF hint = 0 THEN "init" ELSE streamStage
  /\ UNCHANGED <<api, src, sources, dctx, mem, frame, lhSize, inPos, outStart, outEnd,
                 hostageByte, buffVars, legacyVars, failures>>

-----------------------------------------------------------------------------

DecompressStream ==
  \/ StartFrame \/ LoadHeader \/ SinglePass \/ ConsumeHeader
  \/ ReadDirect \/ ReadStops \/ StartLoad \/ Load \/ Flush
  \/ Return /\ streamStage # "loadHeader"
  \/ LegacyDetect \/ LegacyStep \/ LegacyReturn

Next ==
  \/ \E n \in InSizes, k \in OutSizes : CallStream(n, k)
  \/ \E s \in Sources : InitDStream(s)
  \/ DecompressStream
  \/ BufferlessStep

\* A call runs to its end.  The caller keeps calling, and keeps bringing some
\* input and some room.
CallWithBoth == \E n \in InSizes \ {0}, k \in OutSizes \ {0} : CallStream(n, k)

Spec == Init /\ [][Next]_vars
FairSpec == Spec /\ WF_vars(DecompressStream) /\ SF_vars(CallWithBoth)
                 /\ WF_vars(BufferlessStep)

-----------------------------------------------------------------------------
\* Properties.

Stages == {"init", "loadHeader", "read", "load", "flush"}

\* The state is of the shape zstd_decompress.c gives ZSTD1_DStream, and the
\* buffers hold what their sizes say.
TypeOK ==
  /\ api \in Api /\ src \in Sources /\ sources \in 1 .. MaxSources
  /\ ipos \in 0 .. SourceSize(src) /\ opos \in Nat /\ ret \in Int
  /\ streamStage \in Stages /\ frame \in 0 .. Len(src)
  /\ hostageByte \in {0, 1} /\ failures \in 0 .. MaxAllocFail
  /\ lhSize \in 0 .. 18 /\ inPos \in Nat
  /\ api = "stream" => inPos <= Larger(inBuffSize, fParams.frameContentSize)
  /\ outStart <= outBuffSize /\ outEnd <= outBuffSize
  /\ DOMAIN mem = 0 .. outBuffSize - 1
  /\ legacyVersion \in 0 .. 7 /\ previousLegacyVersion \in 0 .. 7

\* Whatever way source and room are cut, what is waiting to be flushed is the
\* output that follows the bytes already delivered: every block found its
\* history (zstd_decompress.c 2850-2941, 1984-1992).
FlushHoldsNext ==
  LET done == IF call.on THEN call.op ELSE opos
      Holds(m, from, to) == \A a \in from .. to - 1 : m[a] = done + 1 + a - from
  IN /\ streamStage = "flush" => Holds(mem, outStart, outEnd)
     /\ /\ streamStage = "loadHeader" /\ legacyVersion >= 4 /\ zb.stage = "flush"
        => Holds(zb.m, zb.outStart, zb.outEnd)

\* The frame being decoded, its end in the source and in the output.
Whole(i) == ipos = FramesSize(src, i) /\ opos = FramesContent(src, i)

\* ZSTD1_decompressStream returns 0 only when a frame is completely decoded
\* and flushed (zstd.h 337): everything read, everything delivered.
ZeroMeansFrameDone ==
  ret = 0 => \E i \in 1 .. Len(src) : Whole(i)

\* And the end of a frame is never passed silently: input is not consumed to
\* the end of a frame while output of it is withheld (the hostage byte, 2955).
EndNeedsFlush ==
  api = "stream" /\ ~call.on /\ ~IsError(ret) =>
    \A i \in 1 .. Len(src) : ipos >= FramesSize(src, i) /\ src[i].kind = Zstd =>
                               opos >= FramesContent(src, i)

\* A suggested size never reaches beyond the current frame (zstd.h 342), but for one case:
\* while a header is incomplete it counts the block header to come (2802), and behind the
\* header of a skippable frame none comes.
HintEnd(i) ==
  IF streamStage = "loadHeader" /\ src[i].kind = Skippable
  THEN Larger(FramesSize(src, i), src[i].at + SkipHeader + BlockHeader)
  ELSE FramesSize(src, i)
HintWithinFrame ==
  api = "stream" /\ ~call.on /\ ret > 0 /\ ret # NoReturn =>
    \A i \in 1 .. Len(src) :
      ipos \in FramesSize(src, i - 1) .. FramesSize(src, i) - 1 => ipos + ret <= HintEnd(i)

\* A valid source is refused only for its window, for want of memory, because
\* it has no streaming decoder, or because it is a legacy frame: one whose
\* first five bytes came with more than one call (2773: a version is looked for
\* in what this call brings), or any for the bufferless calls.
ValidNeverFails ==
  IsError(ret) =>
    \/ ret = Error.windowTooLarge /\ \E i \in DOMAIN src : Larger(src[i].window, WindowMin) > MaxWindowSize
    \/ ret = Error.memory_allocation /\ failures > 0
    \/ ret = Error.version_unsupported /\ \E i \in DOMAIN src : src[i].kind \in {1, 2, 3}
    \/ ret = Error.prefix_unknown /\ \E i \in DOMAIN src :
         /\ src[i].kind \in 1 .. 7
         /\ ipos - FramesSize(src, i - 1)
              \in (IF api = "stream" THEN 1 .. HeaderPrefix - 1 ELSE {0})

\* Positions only grow while a source is decoded, and delivered output is never
\* more than the source holds.
NeverBack ==
  [][sources' = sources => /\ ipos' >= ipos /\ opos' >= opos
                           /\ IsError(ret') \/ opos' <= OutputSize(src)]_vars

\* A caller who keeps bringing at least a byte and room for a byte gets all of
\* it, however the pieces are cut (2728: the decoder resumes in any stage).
AllDelivered ==
  []<>(\/ IsError(ret)
       \/ ipos = SourceSize(src) /\ opos = OutputSize(src) /\ ret = 0)

=============================================================================
