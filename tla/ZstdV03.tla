------------------------------ MODULE ZstdV03 -------------------------------
(***************************************************************************)
(* zstd_v03.c, the decoder of format 0.3.                                   *)
(***************************************************************************)
EXTENDS OldFormats

MAGICNUMBER03 == <<35, 181, 47, 253>>
frameHeaderSize03 == 4

-----------------------------------------------------------------------------
\* Entropy coding.

BITv03_initDStream(src) == OldInitDStream(src)
BITv03_reloadDStream(d) == BIT_reloadDStream(d)
BITv03_endOfDStream(d) == BIT_endOfDStream(d)

FSEv03_readNCount(src, max) == ReadNCount(src, max, TRUE)
FSEv03_buildDTable(norm, log) == FSE_buildDTable(norm, log)
FSEv03_decompress_usingDTable_generic(src, cap, dt) ==
  LET Rest(m) == TailUntilEnd(m, cap, dt, BITv03_reloadDStream, BITv03_endOfDStream)
  IN UsingDTable(src, cap, dt, BITv03_initDStream, BITv03_reloadDStream, Rest)
FSEv03_decompress(src, cap) ==
  OldDecompress(src, cap, FSEv03_readNCount, FSEv03_buildDTable,
                FSEv03_decompress_usingDTable_generic)

HUFv03_readStats(src) == OldReadStats(src, FSEv03_decompress)
HUFv03_readDTableX2(src) == ReadDTableX2(src, HufLog, HUFv03_readStats)
HUFv03_fillDTableX4Level2(sizeLog, consumed, first, minWeight, sorted, weights, rank, base) ==
  FillDTableX4Level2(sizeLog, consumed, first, minWeight, sorted, weights, rank, base)
HUFv03_fillDTableX4(targetLog, sorted, weights, maxW, base) ==
  FillDTableX4(targetLog, sorted, weights, maxW, base, HUFv03_fillDTableX4Level2)
HUFv03_readDTableX4(src) ==
  ReadDTableX4(src, HufLog, HUF_ABSOLUTEMAX_TABLELOG, HUFv03_readStats, HUFv03_fillDTableX4)

HUFv03_decodeStreamX2(st, size, dt) == StreamX2(st, size, dt, BITv03_reloadDStream, TRUE)
HUFv03_decodeStreamX4(st, size, dt) == StreamX4(st, size, dt, BITv03_reloadDStream, 7)
HUFv03_decompress4X2_usingDTable(src, size, dt) ==
  FourStreams(src, size, dt, 7, TRUE, BITv03_initDStream, BITv03_reloadDStream,
              BITv03_endOfDStream, HUFv03_decodeStreamX2)
HUFv03_decompress4X4_usingDTable(src, size, dt) ==
  FourStreams(src, size, dt, 7, TRUE, BITv03_initDStream, BITv03_reloadDStream,
              BITv03_endOfDStream, HUFv03_decodeStreamX4)

HUFv03_decompress4X2(src, size) ==
  TableThen(src, size, HUFv03_readDTableX2, HUFv03_decompress4X2_usingDTable)
HUFv03_decompress4X4(src, size) ==
  TableThen(src, size, HUFv03_readDTableX4, HUFv03_decompress4X4_usingDTable)

HUFv03_decompress(src, size) ==
  LET Algo(s, n) ==
        IF Time(AlgoTime, n, Len(s), 1, 4) < Time(AlgoTime, n, Len(s), 0, 0)
        THEN HUFv03_decompress4X4(s, n) ELSE HUFv03_decompress4X2(s, n)
  IN OldHufDecompress(src, size, TRUE, Algo)

-----------------------------------------------------------------------------
\* Blocks.

ZSTDv03_decompressLiterals(ctx, src) == EarlyCodedLiterals(ctx, src, HUFv03_decompress)

ZSTDv03_decodeLiteralsBlock(ctx, src) ==
  LET type == Byte(src, 0) % 4
  IN IF Len(src) < MIN_CBLOCK_SIZE4 THEN Fail(Error.corruption_detected)
     ELSE CASE type = IS_RAW -> EarlyRawLiterals(ctx, src)
            [] type = IS_RLE -> EarlyRleLiterals(ctx, src)
            [] OTHER         -> ZSTDv03_decompressLiterals(ctx, src)

ZSTDv03_decodeSeqHeaders(ctx, src) ==
  EarlySeqHeaders(ctx, src, MaxOff + 1, FSEv03_readNCount, FSEv03_buildDTable)

ZSTDv03_decodeSequence(st, src) ==
  LET Length(s, code, max) == DumpLength(s, code, max, src, FALSE, ThreeBytes)
  IN DumpSequence(st, DumpMax, MINMATCH4, TRUE, DumpPrefix, Length, BITv03_reloadDStream)

ZSTDv03_execSequence(m, seq) == OldExecSequence(m, seq, MINMATCH4)

ZSTDv03_decompressSequences(ctx, src, cap) ==
  LET First(st) == [st EXCEPT !.offset = 4, !.prevOffset = 4]
      Decode(st) == ZSTDv03_decodeSequence(st, src)
      Ended(r) == BITv03_endOfDStream(r.st.d)
      Body(c) == WithSequences(c, From(src, c.ret), cap, BITv03_initDStream, BITv03_reloadDStream,
                               First, Decode, ZSTDv03_execSequence, Ended, KeepNone)
  IN Then(ZSTDv03_decodeSeqHeaders(ctx, src), Body)

ZSTDv03_decompressBlock(ctx, src, cap) ==
  LET Sequences(c) == ZSTDv03_decompressSequences(c, From(src, c.ret), cap)
  IN Then(ZSTDv03_decodeLiteralsBlock(ctx, src), Sequences)

ZSTDv03_decodeBlock(ctx, h, body, cap) ==
  CASE h.type = old_compressed -> ZSTDv03_decompressBlock(ctx, body, cap)
    [] h.type = old_raw        -> CopyRawBlock(ctx, body, cap)
    [] h.type = old_rle        -> Fail(Error.GENERIC)

ZSTDv03_getcBlockSize(src) == OldBlockSize(src)

-----------------------------------------------------------------------------
\* Frames.  What lies before a destination that does not follow is forgotten.

ZSTDv03_decompressDCtx(src, cap) ==
  LET Decode(c, h, body) == ZSTDv03_decodeBlock(c, h, body, cap)
  IN IF Len(src) < frameHeaderSize03 + blockHeaderSize THEN Fail(Error.srcSize_wrong)
     ELSE IF Slice(src, 0, 4) # MAGICNUMBER03 THEN Fail(Error.prefix_unknown)
     ELSE FrameUpToEmpty(NewContext, src, frameHeaderSize03, Decode)

ZSTDv03_findFrameCompressedSize(src) ==
  IF Len(src) < frameHeaderSize03 + blockHeaderSize THEN Fail(Error.srcSize_wrong)
  ELSE IF Slice(src, 0, 4) # MAGICNUMBER03 THEN Fail(Error.prefix_unknown)
  ELSE SizeUpToEmpty(src, frameHeaderSize03)

NewDecoder03 == OldDecoder(NewContext, "getFrameHeader", frameHeaderSize03)

ZSTDv03_decompressContinue(dec, src, room, follows) ==
  LET d == [dec EXCEPT !.ctx = [CheckContinuity(@, follows) EXCEPT !.ext = <<>>]]
      bp == ZSTDv03_getcBlockSize(src)
  IN IF Len(src) # dec.expected THEN Fail(Error.srcSize_wrong)
     ELSE CASE dec.stage = "getFrameHeader" ->
                 IF Slice(src, 0, 4) # MAGICNUMBER03 THEN Fail(Error.prefix_unknown)
                 ELSE Stage(d, "decodeBlockHeader", blockHeaderSize)
            [] dec.stage = "decodeBlockHeader" ->
                 IF bp.ends THEN Stage(d, "getFrameHeader", 0)
                 ELSE [Stage(d, "decompressBlock", bp.ret) EXCEPT !.block = bp]
            [] dec.stage = "decompressBlock" ->
                 OldDecompressBlock(d, src, d.ctx.op + room, ZSTDv03_decodeBlock)

=============================================================================
