------------------------------ MODULE ZstdV04 -------------------------------
(***************************************************************************)
(* zstd_v04.c, the decoder of format 0.4, but for its buffered interface.  *)
(***************************************************************************)
EXTENDS OldFormats

MAGICNUMBER04 == <<36, 181, 47, 253>>
frameHeaderSize_min04 == 5
WINDOWLOG_ABSOLUTEMIN04 == 11

-----------------------------------------------------------------------------
\* Entropy coding.

BITv04_initDStream(src) == OldInitDStream(src)
BITv04_reloadDStream(d) == BIT_reloadDStream(d)
BITv04_endOfDStream(d) == BIT_endOfDStream(d)

FSEv04_readNCount(src, max) == ReadNCount(src, max, TRUE)
FSEv04_buildDTable(norm, log) == FSE_buildDTable(norm, log)
FSEv04_decompress_usingDTable_generic(src, cap, dt) ==
  LET Rest(m) == TailUntilEnd(m, cap, dt, BITv04_reloadDStream, BITv04_endOfDStream)
  IN UsingDTable(src, cap, dt, BITv04_initDStream, BITv04_reloadDStream, Rest)
FSEv04_decompress(src, cap) ==
  OldDecompress(src, cap, FSEv04_readNCount, FSEv04_buildDTable,
                FSEv04_decompress_usingDTable_generic)

HUFv04_readStats(src) == OldReadStats(src, FSEv04_decompress)
HUFv04_readDTableX2(src) == ReadDTableX2(src, HufLog, HUFv04_readStats)
HUFv04_fillDTableX4Level2(sizeLog, consumed, first, minWeight, sorted, weights, rank, base) ==
  FillDTableX4Level2(sizeLog, consumed, first, minWeight, sorted, weights, rank, base)
HUFv04_fillDTableX4(targetLog, sorted, weights, maxW, base) ==
  FillDTableX4(targetLog, sorted, weights, maxW, base, HUFv04_fillDTableX4Level2)
HUFv04_readDTableX4(src) ==
  ReadDTableX4(src, HufLog, HUF_ABSOLUTEMAX_TABLELOG, HUFv04_readStats, HUFv04_fillDTableX4)

HUFv04_decodeStreamX2(st, size, dt) == StreamX2(st, size, dt, BITv04_reloadDStream, TRUE)
HUFv04_decodeStreamX4(st, size, dt) == StreamX4(st, size, dt, BITv04_reloadDStream, 7)
HUFv04_decompress4X2_usingDTable(src, size, dt) ==
  FourStreams(src, size, dt, 7, TRUE, BITv04_initDStream, BITv04_reloadDStream,
              BITv04_endOfDStream, HUFv04_decodeStreamX2)
HUFv04_decompress4X4_usingDTable(src, size, dt) ==
  FourStreams(src, size, dt, 7, TRUE, BITv04_initDStream, BITv04_reloadDStream,
              BITv04_endOfDStream, HUFv04_decodeStreamX4)

HUFv04_decompress4X2(src, size) ==
  TableThen(src, size, HUFv04_readDTableX2, HUFv04_decompress4X2_usingDTable)
HUFv04_decompress4X4(src, size) ==
  TableThen(src, size, HUFv04_readDTableX4, HUFv04_decompress4X4_usingDTable)

HUFv04_decompress(src, size) ==
  LET Algo(s, n) ==
        IF Time(AlgoTime, n, Len(s), 1, 4) < Time(AlgoTime, n, Len(s), 0, 0)
        THEN HUFv04_decompress4X4(s, n) ELSE HUFv04_decompress4X2(s, n)
  IN OldHufDecompress(src, size, TRUE, Algo)

-----------------------------------------------------------------------------
\* Blocks.

ZSTDv04_decompressLiterals(ctx, src) == EarlyCodedLiterals(ctx, src, HUFv04_decompress)

ZSTDv04_decodeLiteralsBlock(ctx, src) ==
  LET type == Byte(src, 0) % 4
  IN IF Len(src) < MIN_CBLOCK_SIZE4 THEN Fail(Error.corruption_detected)
     ELSE CASE type = old_compressed -> ZSTDv04_decompressLiterals(ctx, src)
            [] type = IS_RAW         -> EarlyRawLiterals(ctx, src)
            [] type = IS_RLE         -> EarlyRleLiterals(ctx, src)
            [] OTHER                 -> Fail(Error.corruption_detected)

ZSTDv04_decodeSeqHeaders(ctx, src) ==
  EarlySeqHeaders(ctx, src, MaxOff + 1, FSEv04_readNCount, FSEv04_buildDTable)

\* A length of more than the dumps hold is a large one.
ZSTDv04_decodeSequence(st, src) ==
  LET Length(s, code, max) == DumpLength(s, code, max, src, TRUE, ThreeBytes)
  IN DumpSequence(st, DumpMax, MINMATCH4, FALSE, DumpPrefix, Length, BITv04_reloadDStream)

ZSTDv04_execSequence(m, seq) == OldExecSequence(m, seq, MINMATCH4)

REPCODE_STARTVALUE04 == 4
ZSTDv04_decompressSequences(ctx, src, cap) ==
  LET First(st) == [st EXCEPT !.offset = REPCODE_STARTVALUE04, !.prevOffset = REPCODE_STARTVALUE04]
      Decode(st) == ZSTDv04_decodeSequence(st, src)
      Ended(r) == BITv04_endOfDStream(r.st.d)
      Body(c) == WithSequences(c, From(src, c.ret), cap, BITv04_initDStream, BITv04_reloadDStream,
                               First, Decode, ZSTDv04_execSequence, Ended, KeepNone)
  IN Then(ZSTDv04_decodeSeqHeaders(ctx, src), Body)

ZSTDv04_decompressBlock_internal(ctx, src, cap) ==
  LET Sequences(c) == ZSTDv04_decompressSequences(c, From(src, c.ret), cap)
  IN Then(ZSTDv04_decodeLiteralsBlock(ctx, src), Sequences)

ZSTDv04_decodeBlock(ctx, h, body, cap) ==
  CASE h.type = old_compressed -> ZSTDv04_decompressBlock_internal(ctx, body, cap)
    [] h.type = old_raw        -> CopyRawBlock(ctx, body, cap)
    [] h.type = old_rle        -> Fail(Error.GENERIC)

ZSTDv04_getcBlockSize(src) == OldBlockSize(src)

-----------------------------------------------------------------------------
\* Frames.

ZSTDv04_decodeFrameHeader_Part1(src) ==
  IF Slice(src, 0, 4) # MAGICNUMBER04 THEN Error.prefix_unknown ELSE frameHeaderSize_min04

ZSTDv04_getFrameParams(src) ==
  IF Slice(src, 0, 4) # MAGICNUMBER04 THEN Fail(Error.prefix_unknown)
  ELSE IF Byte(src, 4) \div 16 # 0 THEN Fail(Error.frameParameter_unsupported)
  ELSE [ret |-> 0, params |-> [NoParams EXCEPT
          !.window = 2 ^ ((Byte(src, 4) % 16) + WINDOWLOG_ABSOLUTEMIN04)]]

ZSTDv04_decodeFrameHeader_Part2(ctx, src) ==
  LET Fits(h) == IF Word = 4 /\ h.params.window > 2 ^ 25
                 THEN Fail(Error.frameParameter_unsupported)
                 ELSE [ctx EXCEPT !.ret = 0, !.params = h.params]
  IN Then(ZSTDv04_getFrameParams(src), Fits)

ZSTDv04_decompress_insertDictionary(ctx, dict) == ZSTD_refDictContent(ctx, dict)

ZSTDv04_decompress_usingDict(src, cap, dict) ==
  LET size == ZSTDv04_decodeFrameHeader_Part1(src)
      begun == IF dict = <<>> THEN NewContext
               ELSE CheckContinuity(ZSTDv04_decompress_insertDictionary(NewContext, dict), FALSE)
      Decode(c, h, body) == ZSTDv04_decodeBlock(c, h, body, cap)
      AllBlocks(c) == FrameUpToEmpty(c, src, size, Decode)
  IN IF Len(src) < frameHeaderSize_min04 + blockHeaderSize THEN Fail(Error.srcSize_wrong)
     ELSE IF IsError(size) THEN Fail(size)
     ELSE Then(ZSTDv04_decodeFrameHeader_Part2(begun, Slice(src, 0, size)), AllBlocks)

ZSTDv04_findFrameCompressedSize(src) ==
  IF Len(src) < frameHeaderSize_min04 THEN Fail(Error.srcSize_wrong)
  ELSE IF Slice(src, 0, 4) # MAGICNUMBER04 THEN Fail(Error.prefix_unknown)
  ELSE SizeUpToEmpty(src, frameHeaderSize_min04)

-----------------------------------------------------------------------------
\* Piece by piece.

NewDecoder04(ctx) == OldDecoder(ctx, "getFrameHeaderSize", frameHeaderSize_min04)

ZSTDv04_decompressContinue(dec, src, room, follows) ==
  LET d == [dec EXCEPT !.ctx = CheckContinuity(@, follows)]
      size == ZSTDv04_decodeFrameHeader_Part1(src)
      bp == ZSTDv04_getcBlockSize(src)
      Kept(c) == [Stage(d, "decodeBlockHeader", blockHeaderSize) EXCEPT !.ctx = c]
  IN IF Len(src) # dec.expected THEN Fail(Error.srcSize_wrong)
     ELSE CASE dec.stage = "getFrameHeaderSize" ->
                 IF IsError(size) THEN Fail(size)
                 ELSE Then(ZSTDv04_decodeFrameHeader_Part2(d.ctx, src), Kept)
            [] dec.stage = "decodeBlockHeader" ->
                 IF bp.ends THEN Stage(d, "getFrameHeaderSize", 0)
                 ELSE [Stage(d, "decompressBlock", bp.ret) EXCEPT !.block = bp]
            [] dec.stage = "decompressBlock" ->
                 OldDecompressBlock(d, src, d.ctx.op + room, ZSTDv04_decodeBlock)

=============================================================================
