------------------------------ MODULE ZstdV02 -------------------------------
(***************************************************************************)
(* zstd_v02.c, the decoder of format 0.2.                                   *)
(***************************************************************************)
EXTENDS OldFormats

RECURSIVE HUFv02_fillDTableX6LevelN(_, _, _, _, _, _, _, _, _)

MAGICNUMBER02 == <<34, 181, 47, 253>>
frameHeaderSize02 == 4

-----------------------------------------------------------------------------
\* Entropy coding.

BITv02_initDStream(src) == OldInitDStream(src)
BITv02_reloadDStream(d) == BIT_reloadDStream(d)
BITv02_endOfDStream(d) == BIT_endOfDStream(d)

FSEv02_readNCount(src, max) == ReadNCount(src, max, TRUE)
FSEv02_buildDTable(norm, log) == FSE_buildDTable(norm, log)
FSEv02_decompress_usingDTable_generic(src, cap, dt) ==
  LET Rest(m) == TailUntilEnd(m, cap, dt, BITv02_reloadDStream, BITv02_endOfDStream)
  IN UsingDTable(src, cap, dt, BITv02_initDStream, BITv02_reloadDStream, Rest)
FSEv02_decompress(src, cap) ==
  OldDecompress(src, cap, FSEv02_readNCount, FSEv02_buildDTable,
                FSEv02_decompress_usingDTable_generic)

HUFv02_readStats(src) == OldReadStats(src, FSEv02_decompress)
HUFv02_readDTableX2(src) == ReadDTableX2(src, HufLog, HUFv02_readStats)
HUFv02_fillDTableX4Level2(sizeLog, consumed, first, minWeight, sorted, weights, rank, base) ==
  FillDTableX4Level2(sizeLog, consumed, first, minWeight, sorted, weights, rank, base)
HUFv02_fillDTableX4(targetLog, sorted, weights, maxW, base) ==
  FillDTableX4(targetLog, sorted, weights, maxW, base, HUFv02_fillDTableX4Level2)
HUFv02_readDTableX4(src) ==
  ReadDTableX4(src, HufLog, HUF_ABSOLUTEMAX_TABLELOG, HUFv02_readStats, HUFv02_fillDTableX4)

HUFv02_decodeStreamX2(st, size, dt) == StreamX2(st, size, dt, BITv02_reloadDStream, TRUE)
HUFv02_decodeStreamX4(st, size, dt) == StreamX4(st, size, dt, BITv02_reloadDStream, 7)
HUFv02_decompress4X2_usingDTable(src, size, dt) ==
  FourStreams(src, size, dt, 7, TRUE, BITv02_initDStream, BITv02_reloadDStream,
              BITv02_endOfDStream, HUFv02_decodeStreamX2)
HUFv02_decompress4X4_usingDTable(src, size, dt) ==
  FourStreams(src, size, dt, 7, TRUE, BITv02_initDStream, BITv02_reloadDStream,
              BITv02_endOfDStream, HUFv02_decodeStreamX4)

HUFv02_decompress4X2(src, size) ==
  TableThen(src, size, HUFv02_readDTableX2, HUFv02_decompress4X2_usingDTable)
HUFv02_decompress4X4(src, size) ==
  TableThen(src, size, HUFv02_readDTableX4, HUFv02_decompress4X4_usingDTable)

\* Tables of up to four symbols per cell.
HUFv02_readDTableX6(src) ==
  LET MaxWeight(weights) == CHOOSE w \in 0 .. HUF_ABSOLUTEMAX_TABLELOG :
        CountOf(weights, w) > 0 /\ \A v \in w + 1 .. HUF_ABSOLUTEMAX_TABLELOG : CountOf(weights, v) = 0
      Build(stats) ==
        LET rank == [c \in 0 .. HufLog |-> [w \in 1 .. MaxWeight(stats.weights) |->
                       RankVal(stats.weights, w, HufLog, stats.tableLog) \div 2 ^ c]]
        IN IF stats.tableLog > HufLog THEN Fail(Error.tableLog_tooLarge)
           ELSE [ret |-> stats.ret, tableLog |-> HufLog, double |-> TRUE,
                 cell |-> HUFv02_fillDTableX6LevelN(HufLog, 0, 1, MaxWeight(stats.weights),
                            Sorted(stats.weights), stats.weights, rank, stats.tableLog + 1, <<>>)]
  IN Then(HUFv02_readStats(src), Build)

HUFv02_decodeStreamX6(st, size, dt) ==
  LET Single(x) == DecodeSymbol(x, dt)
      Several(x) == Turn(x, dt)
      Last(x) == DecodeLastSymbols(x, dt, size - Len(x.out))
      Sixteen(n) == n <= size - 16
      Four(n) == n <= size - 4
      One(n) == n < size
  IN WhileRoom(WhileRoom(WhileFilled(WhileFilled(st, Sixteen, Several, BITv02_reloadDStream),
                                     Four, Single, BITv02_reloadDStream),
                         Four, Single),
               One, Last)

\* A cell is copied as four bytes, zeros behind its symbols: at the end of a segment
\* they are written over the start of the next.
HUFv02_decodeSymbolX6(s, i, segment, dt) ==
  LET over == Len(s[i].out) + 4 - segment
      Spilt(out) == [j \in DOMAIN out |-> IF j <= over THEN 0 ELSE out[j]]
      decoded == [s EXCEPT ![i] = DecodeSymbol(@, dt)]
  IN IF i = 4 THEN decoded ELSE [decoded EXCEPT ![i + 1].out = Spilt(@)]

HUFv02_decompress4X6_usingDTable(src, size, dt) ==
  LET Goes(s, quota) == Len(s[3].out) <= quota[3] /\ Len(s[4].out) <= quota[4] - 16
      Each(s, segment) ==
        LET One(t, i) == HUFv02_decodeSymbolX6(t, i, segment, dt)
        IN One(One(One(One(s, 1), 2), 3), 4)
      Step(s, segment) ==
        LET two == Each(Each(s, segment), segment)
        IN IF PerTurn = 2 THEN two ELSE Each(Each(two, segment), segment)
      Stream(st, n) == HUFv02_decodeStreamX6(st, n, dt)
  IN FourStreamsBy(src, size, TRUE, Goes, Step, BITv02_initDStream, BITv02_reloadDStream,
                   BITv02_endOfDStream, Stream)

HUFv02_decompress4X6(src, size) ==
  TableThen(src, size, HUFv02_readDTableX6, HUFv02_decompress4X6_usingDTable)

HUFv02_decompress(src, size) ==
  LET Algo(s, n) ==
        LET single == Time(AlgoTime, n, Len(s), 0, 0)
            double == Time(AlgoTime, n, Len(s), 1, 4)
        IN IF Time(AlgoTime, n, Len(s), 2, 3) < Smaller(single, double)
           THEN HUFv02_decompress4X6(s, n)
           ELSE IF double < single THEN HUFv02_decompress4X4(s, n) ELSE HUFv02_decompress4X2(s, n)
  IN OldHufDecompress(src, size, TRUE, Algo)

-----------------------------------------------------------------------------
\* Blocks.

ZSTDv02_decompressLiterals(ctx, src) == EarlyCodedLiterals(ctx, src, HUFv02_decompress)

ZSTDv02_decodeLiteralsBlock(ctx, src) ==
  LET type == Byte(src, 0) % 4
  IN IF Len(src) < MIN_CBLOCK_SIZE4 THEN Fail(Error.corruption_detected)
     ELSE CASE type = IS_RAW -> EarlyRawLiterals(ctx, src)
            [] type = IS_RLE -> EarlyRleLiterals(ctx, src)
            [] OTHER         -> ZSTDv02_decompressLiterals(ctx, src)

ZSTDv02_decodeSeqHeaders(ctx, src) ==
  EarlySeqHeaders(ctx, src, MaxOff + 1, FSEv02_readNCount, FSEv02_buildDTable)

ZSTDv02_decodeSequence(st, src) ==
  LET Length(s, code, max) == DumpLength(s, code, max, src, FALSE, ThreeBytes)
  IN DumpSequence(st, DumpMax, MINMATCH4, TRUE, DumpPrefix, Length, BITv02_reloadDStream)

ZSTDv02_execSequence(m, seq) == OldExecSequence(m, seq, MINMATCH4)

ZSTDv02_decompressSequences(ctx, src, cap) ==
  LET First(st) == [st EXCEPT !.prevOffset = 1]
      Decode(st) == ZSTDv02_decodeSequence(st, src)
      Ended(r) == BITv02_endOfDStream(r.st.d)
      Body(c) == WithSequences(c, From(src, c.ret), cap, BITv02_initDStream, BITv02_reloadDStream,
                               First, Decode, ZSTDv02_execSequence, Ended, KeepNone)
  IN Then(ZSTDv02_decodeSeqHeaders(ctx, src), Body)

ZSTDv02_decompressBlock(ctx, src, cap) ==
  LET Sequences(c) == ZSTDv02_decompressSequences(c, From(src, c.ret), cap)
  IN Then(ZSTDv02_decodeLiteralsBlock(ctx, src), Sequences)

ZSTDv02_decodeBlock(ctx, h, body, cap) ==
  CASE h.type = old_compressed -> ZSTDv02_decompressBlock(ctx, body, cap)
    [] h.type = old_raw        -> CopyRawBlock(ctx, body, cap)
    [] h.type = old_rle        -> Fail(Error.GENERIC)

ZSTDv02_getcBlockSize(src) == OldBlockSize(src)

-----------------------------------------------------------------------------
\* Frames.  What lies before a destination that does not follow is forgotten.

ZSTDv02_decompressDCtx(src, cap) ==
  LET Decode(c, h, body) == ZSTDv02_decodeBlock(c, h, body, cap)
  IN IF Len(src) < frameHeaderSize02 + blockHeaderSize THEN Fail(Error.srcSize_wrong)
     ELSE IF Slice(src, 0, 4) # MAGICNUMBER02 THEN Fail(Error.prefix_unknown)
     ELSE FrameUpToEmpty(NewContext, src, frameHeaderSize02, Decode)

ZSTDv02_findFrameCompressedSize(src) ==
  IF Len(src) < frameHeaderSize02 + blockHeaderSize THEN Fail(Error.srcSize_wrong)
  ELSE IF Slice(src, 0, 4) # MAGICNUMBER02 THEN Fail(Error.prefix_unknown)
  ELSE SizeUpToEmpty(src, frameHeaderSize02)

NewDecoder02 == OldDecoder(NewContext, "getFrameHeader", frameHeaderSize02)

ZSTDv02_decompressContinue(dec, src, room, follows) ==
  LET d == [dec EXCEPT !.ctx = [CheckContinuity(@, follows) EXCEPT !.ext = <<>>]]
      bp == ZSTDv02_getcBlockSize(src)
  IN IF Len(src) # dec.expected THEN Fail(Error.srcSize_wrong)
     ELSE CASE dec.stage = "getFrameHeader" ->
                 IF Slice(src, 0, 4) # MAGICNUMBER02 THEN Fail(Error.prefix_unknown)
                 ELSE Stage(d, "decodeBlockHeader", blockHeaderSize)
            [] dec.stage = "decodeBlockHeader" ->
                 IF bp.ends THEN Stage(d, "getFrameHeader", 0)
                 ELSE [Stage(d, "decompressBlock", bp.ret) EXCEPT !.block = bp]
            [] dec.stage = "decompressBlock" ->
                 OldDecompressBlock(d, src, d.ctx.op + room, ZSTDv02_decodeBlock)

-----------------------------------------------------------------------------

\* The 2 ^ sizeLog cells that begin with the symbols of seq, whose codes take consumed
\* bits: they end there if the next symbol weighs less than minWeight.
HUFv02_fillDTableX6LevelN(sizeLog, consumed, minWeight, maxW, sorted, weights, rank, base, seq) ==
  LET Nb(s) == base - weights[s]
      Length(s) == 2 ^ (sizeLog - Nb(s))
      follow == {r \in DOMAIN sorted : weights[sorted[r]] >= minWeight}
      start == [r \in follow |-> StartOf(weights, sorted[r], rank[consumed][weights[sorted[r]]],
                                         Length(sorted[r]))]
      At(u) == CHOOSE r \in follow : start[r] <= u /\ u < start[r] + Length(sorted[r])
      Further(s) ==
        LET total == consumed + Nb(s)
            longer == Append(seq, s - 1)
        IN IF Len(seq) < 3 /\ sizeLog - total >= base - maxW
           THEN HUFv02_fillDTableX6LevelN(sizeLog - Nb(s), total,
                  Larger(total + base - sizeLog, 1), maxW, sorted, weights, rank, base, longer)
           ELSE [u \in 0 .. Length(s) - 1 |-> [seq |-> longer, nbBits |-> total]]
      cells == [r \in follow |-> Further(sorted[r])]
      skipped == IF minWeight > 1 THEN rank[consumed][minWeight] ELSE 0
  IN [u \in 0 .. 2 ^ sizeLog - 1 |->
        IF u < skipped THEN [seq |-> seq, nbBits |-> consumed]
        ELSE LET r == At(u) IN cells[r][u - start[r]]]

=============================================================================
