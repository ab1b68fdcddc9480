------------------------------ MODULE ZstdV05 -------------------------------
(***************************************************************************)
(* zstd_v05.c, the decoder of format 0.5, but for its buffered interface.  *)
(***************************************************************************)
EXTENDS OldFormats

MAGICNUMBER05 == <<37, 181, 47, 253>>
DICT_MAGIC05 == <<53, 164, 48, 236>>
frameHeaderSize_min05 == 5
WINDOWLOG_ABSOLUTEMIN05 == 11

-----------------------------------------------------------------------------
\* Entropy coding.

BITv05_initDStream(src) == OldInitDStream(src)
BITv05_reloadDStream(d) == BIT_reloadDStream(d)
BITv05_endOfDStream(d) == BIT_endOfDStream(d)

FSEv05_readNCount(src, max) == ReadNCount(src, max, TRUE)
FSEv05_buildDTable(norm, log) == FSE_buildDTable(norm, log)
FSEv05_decompress_usingDTable_generic(src, cap, dt) ==
  LET Rest(m) == TailUntilEnd(m, cap, dt, BITv05_reloadDStream, BITv05_endOfDStream)
  IN UsingDTable(src, cap, dt, BITv05_initDStream, BITv05_reloadDStream, Rest)
FSEv05_decompress(src, cap) ==
  OldDecompress(src, cap, FSEv05_readNCount, FSEv05_buildDTable,
                FSEv05_decompress_usingDTable_generic)

HUFv05_readStats(src) == OldReadStats(src, FSEv05_decompress)
HUFv05_readDTableX2(src) == ReadDTableX2(src, HufLog, HUFv05_readStats)
HUFv05_fillDTableX4Level2(sizeLog, consumed, first, minWeight, sorted, weights, rank, base) ==
  FillDTableX4Level2(sizeLog, consumed, first, minWeight, sorted, weights, rank, base)
HUFv05_fillDTableX4(targetLog, sorted, weights, maxW, base) ==
  FillDTableX4(targetLog, sorted, weights, maxW, base, HUFv05_fillDTableX4Level2)
HUFv05_readDTableX4(src) ==
  ReadDTableX4(src, HufLog, HUF_ABSOLUTEMAX_TABLELOG, HUFv05_readStats, HUFv05_fillDTableX4)

HUFv05_decodeStreamX2(st, size, dt) == StreamX2(st, size, dt, BITv05_reloadDStream, TRUE)
HUFv05_decodeStreamX4(st, size, dt) == StreamX4(st, size, dt, BITv05_reloadDStream, 7)
\* Literals are not expected to have grown.
HUFv05_decompress1X2_usingDTable(src, size, dt) ==
  IF size <= Len(src) THEN Fail(Error.dstSize_tooSmall)
  ELSE OneStream(src, size, dt, BITv05_initDStream, BITv05_endOfDStream, HUFv05_decodeStreamX2)
HUFv05_decompress1X4_usingDTable(src, size, dt) ==
  OneStream(src, size, dt, BITv05_initDStream, BITv05_endOfDStream, HUFv05_decodeStreamX4)
HUFv05_decompress4X2_usingDTable(src, size, dt) ==
  FourStreams(src, size, dt, 7, TRUE, BITv05_initDStream, BITv05_reloadDStream,
              BITv05_endOfDStream, HUFv05_decodeStreamX2)
HUFv05_decompress4X4_usingDTable(src, size, dt) ==
  FourStreams(src, size, dt, 7, TRUE, BITv05_initDStream, BITv05_reloadDStream,
              BITv05_endOfDStream, HUFv05_decodeStreamX4)

HUFv05_decompress1X2(src, size) ==
  TableThen(src, size, HUFv05_readDTableX2, HUFv05_decompress1X2_usingDTable)
HUFv05_decompress4X2(src, size) ==
  TableThen(src, size, HUFv05_readDTableX2, HUFv05_decompress4X2_usingDTable)
HUFv05_decompress4X4(src, size) ==
  TableThen(src, size, HUFv05_readDTableX4, HUFv05_decompress4X4_usingDTable)

HUFv05_decompress(src, size) ==
  LET Algo(s, n) ==
        IF Time(AlgoTime, n, Len(s), 1, 4) < Time(AlgoTime, n, Len(s), 0, 0)
        THEN HUFv05_decompress4X4(s, n) ELSE HUFv05_decompress4X2(s, n)
  IN OldHufDecompress(src, size, FALSE, Algo)

-----------------------------------------------------------------------------
\* Blocks.

ZSTDv05_decodeLiteralsBlock(ctx, src) ==
  LET type == Byte(src, 0) \div 64
      Decode(single, body, size) ==
        IF single THEN HUFv05_decompress1X2(body, size) ELSE HUFv05_decompress(body, size)
      Keep(c, r) == c
      Again(body, size) == HUFv05_decompress1X4_usingDTable(body, size, ctx.huf)
  IN IF Len(src) < MIN_CBLOCK_SIZE THEN Fail(Error.corruption_detected)
     ELSE CASE type = lbt_huffman -> OldCodedLiterals(ctx, src, Decode, Keep)
            [] type = lbt_repeat  -> OldRepeatLiterals(ctx, src, ctx.fseEntropy, Again)
            [] type = lbt_raw     -> OldRawLiterals(ctx, src)
            [] type = lbt_rle     -> OldRleLiterals(ctx, src)

\* The number of sequences, and its size.
NbSeq05(src) ==
  LET b == Byte(src, 0)
  IN IF src = <<>> THEN Fail(Error.srcSize_wrong)
     ELSE IF b < 128 THEN [ret |-> 1, nbSeq |-> b]
     ELSE IF Len(src) < 2 THEN Fail(Error.srcSize_wrong)
     ELSE [ret |-> 2, nbSeq |-> (b - 128) * 256 + Byte(src, 1)]

ZSTDv05_decodeSeqHeaders(ctx, src) ==
  LET LL(type, s) == DumpTable(type, OldKinds, s, LLmax, LLDumpLog, 256, 0, LLbits,
                       ctx.ll, ctx.fseEntropy, FSEv05_readNCount, FSEv05_buildDTable)
      OF(type, s) == DumpTable(type, OldKinds, s, MaxOff, OffDumpLog, MaxOff + 1, 2,
                       Offbits, ctx.of, ctx.fseEntropy, FSEv05_readNCount, FSEv05_buildDTable)
      ML(type, s) == DumpTable(type, OldKinds, s, MLmax, MLDumpLog, 256, 2, MLbits,
                       ctx.ml, ctx.fseEntropy, FSEv05_readNCount, FSEv05_buildDTable)
      n == NbSeq05(src)
  IN IF IsError(n.ret) THEN n
     ELSE IF n.nbSeq = 0 THEN [ctx EXCEPT !.ret = 1, !.nbSeq = 0]
     ELSE IF Len(src) < n.ret + (IF (Byte(src, n.ret) \div 2) % 2 = 1 THEN 3 ELSE 2)
     THEN Fail(Error.srcSize_wrong)
     ELSE DumpSeqHeaders(ctx, src, n, LL, OF, ML)

\* A long length is of two bytes, or of three if the first is odd.
OddOrEven(src, at) ==
  IF Byte(src, at) % 2 = 1 THEN [value |-> LE24(src, at) \div 2, size |-> 3]
  ELSE [value |-> LE16(src, at) \div 2, size |-> 2]

\* The offset is read first, and each state left as soon as its length is known.
ZSTDv05_decodeSequence(st, src) ==
  LET llCode == st.ll.cell[st.x].symbol
      ll == DumpLength(st, llCode, LLmax, src, TRUE, OddOrEven)
      code == st.of.cell[st.y].symbol
      offset == DumpOffset(st, code, llCode, DumpPrefix)
      s1 == Refilled(Skip([st EXCEPT !.dumps = ll.dumps], Larger(code - 1, 0)), Word = 4,
                     BITv05_reloadDStream)
      s2 == Refilled(NextLL(NextOF(s1)), Word = 4, BITv05_reloadDStream)
      ml == DumpLength(s2, st.ml.cell[st.z].symbol, MLmax, src, TRUE, OddOrEven)
  IN [st |-> [NextML(s2) EXCEPT !.dumps = ml.dumps, !.offset = offset,
                                !.prevOffset = IF code # 0 \/ ll.value = 0 THEN st.offset ELSE @],
      seq |-> [offset |-> offset, litLength |-> ll.value, matchLength |-> ml.value + MINMATCH4]]

ZSTDv05_execSequence(m, seq) == OldExecSequence(m, seq, MINMATCH4)

REPCODE_STARTVALUE05 == 1
ZSTDv05_decompressSequences(ctx, src, cap) ==
  LET First(st) == [st EXCEPT !.offset = REPCODE_STARTVALUE05, !.prevOffset = REPCODE_STARTVALUE05]
      Decode(st) == ZSTDv05_decodeSequence(st, src)
      Keep(c, st) == c
      Body(c) ==
        IF c.nbSeq = 0 THEN NoSequences(c, cap)
        ELSE WithSequences(c, From(src, c.ret), cap, BITv05_initDStream, BITv05_reloadDStream,
                           First, Decode, ZSTDv05_execSequence, AtEnd, Keep)
  IN Then(ZSTDv05_decodeSeqHeaders(ctx, src), Body)

ZSTDv05_decompressBlock_internal(ctx, src, cap) ==
  LET Sequences(c) == ZSTDv05_decompressSequences(c, From(src, c.ret), cap)
  IN IF Len(src) >= BLOCKSIZE_MAX THEN Fail(Error.srcSize_wrong)
     ELSE Then(ZSTDv05_decodeLiteralsBlock(ctx, src), Sequences)

ZSTDv05_decodeBlock(ctx, h, body, cap) ==
  CASE h.type = old_compressed -> ZSTDv05_decompressBlock_internal(ctx, body, cap)
    [] h.type = old_raw        -> CopyRawBlock(ctx, body, cap)
    [] h.type = old_rle        -> Fail(Error.GENERIC)

ZSTDv05_getcBlockSize(src) == OldBlockSize(src)

-----------------------------------------------------------------------------
\* Frames.

ZSTDv05_decodeFrameHeader_Part1(src) ==
  IF Slice(src, 0, 4) # MAGICNUMBER05 THEN Error.prefix_unknown ELSE frameHeaderSize_min05

ZSTDv05_getFrameParams(src) ==
  IF Slice(src, 0, 4) # MAGICNUMBER05 THEN Fail(Error.prefix_unknown)
  ELSE IF Byte(src, 4) \div 16 # 0 THEN Fail(Error.frameParameter_unsupported)
  ELSE [ret |-> 0, params |-> [NoParams EXCEPT
          !.window = 2 ^ ((Byte(src, 4) % 16) + WINDOWLOG_ABSOLUTEMIN05)]]

ZSTDv05_decodeFrameHeader_Part2(ctx, src) ==
  LET Fits(h) == IF Word = 4 /\ h.params.window > 2 ^ 25
                 THEN Fail(Error.frameParameter_unsupported)
                 ELSE [ctx EXCEPT !.ret = 0, !.params = h.params]
  IN Then(ZSTDv05_getFrameParams(src), Fits)

ZSTDv05_decompress_continueDCtx(ctx, src, cap) ==
  LET size == ZSTDv05_decodeFrameHeader_Part1(src)
      Decode(c, h, body) == ZSTDv05_decodeBlock(c, h, body, cap)
      AllBlocks(c) == FrameUpToEmpty(c, src, size, Decode)
  IN IF Len(src) < frameHeaderSize_min05 + blockHeaderSize THEN Fail(Error.srcSize_wrong)
     ELSE IF IsError(size) THEN Fail(size)
     ELSE Then(ZSTDv05_decodeFrameHeader_Part2(ctx, Slice(src, 0, size)), AllBlocks)

ZSTDv05_findFrameCompressedSize(src) ==
  IF Len(src) < frameHeaderSize_min05 THEN Fail(Error.srcSize_wrong)
  ELSE IF Slice(src, 0, 4) # MAGICNUMBER05 THEN Fail(Error.prefix_unknown)
  ELSE SizeUpToEmpty(src, frameHeaderSize_min05)

-----------------------------------------------------------------------------
\* Dictionaries.

ZSTDv05_loadEntropy(ctx, dict) ==
  LET huf == HUFv05_readDTableX4(dict)
      Table(at, max, maxLog) ==
        LET n == FSEv05_readNCount(From(dict, at), max)
        IN IF IsError(n.ret) \/ n.tableLog > maxLog THEN Fail(Error.dictionary_corrupted)
           ELSE [ret |-> at + n.ret, table |-> FSEv05_buildDTable(n.norm, n.tableLog)]
  IN IF IsError(huf.ret) THEN Fail(Error.dictionary_corrupted)
     ELSE Then(Table(huf.ret, MaxOff, OffDumpLog), LAMBDA of :
          Then(Table(of.ret, MLmax, MLDumpLog), LAMBDA ml :
          Then(Table(ml.ret, LLmax, LLDumpLog), LAMBDA ll :
            [ctx EXCEPT !.ret = ll.ret, !.huf = huf, !.of = of.table, !.ml = ml.table,
                        !.ll = ll.table, !.fseEntropy = TRUE])))

ZSTDv05_refDictContent(ctx, dict) == ZSTD_refDictContent(ctx, dict)
ZSTDv05_decompress_insertDictionary(ctx, dict) ==
  LET Content(c) == ZSTDv05_refDictContent(c, From(dict, 4 + c.ret))
  IN IF Slice(dict, 0, 4) # DICT_MAGIC05 THEN ZSTDv05_refDictContent(ctx, dict)
     ELSE Then(ZSTDv05_loadEntropy(ctx, From(dict, 4)), Content)

ZSTDv05_decompressBegin == NewContext
ZSTDv05_decompressBegin_usingDict(dict) ==
  IF dict = <<>> THEN ZSTDv05_decompressBegin
  ELSE ZSTDv05_decompress_insertDictionary(ZSTDv05_decompressBegin, dict)

\* A dictionary that could not be loaded is left out.
ZSTDv05_decompress_usingDict(src, cap, dict) ==
  LET begun == ZSTDv05_decompressBegin_usingDict(dict)
      ctx == IF IsError(begun.ret) THEN ZSTDv05_decompressBegin ELSE begun
  IN ZSTDv05_decompress_continueDCtx(CheckContinuity(ctx, FALSE), src, cap)

-----------------------------------------------------------------------------
\* Piece by piece.

NewDecoder05(ctx) == OldDecoder(ctx, "getFrameHeaderSize", frameHeaderSize_min05)

ZSTDv05_decompressContinue(dec, src, room, follows) ==
  LET d == [dec EXCEPT !.ctx = CheckContinuity(@, follows)]
      size == ZSTDv05_decodeFrameHeader_Part1(src)
      bp == ZSTDv05_getcBlockSize(src)
      Kept(c) == [Stage(d, "decodeBlockHeader", blockHeaderSize) EXCEPT !.ctx = c]
  IN IF Len(src) # dec.expected THEN Fail(Error.srcSize_wrong)
     ELSE CASE dec.stage = "getFrameHeaderSize" ->
                 IF IsError(size) THEN Fail(size)
                 ELSE Then(ZSTDv05_decodeFrameHeader_Part2(d.ctx, src), Kept)
            [] dec.stage = "decodeBlockHeader" ->
                 IF bp.ends THEN Stage(d, "getFrameHeaderSize", 0)
                 ELSE [Stage(d, "decompressBlock", bp.ret) EXCEPT !.block = bp]
            [] dec.stage = "decompressBlock" ->
                 OldDecompressBlock(d, src, d.ctx.op + room, ZSTDv05_decodeBlock)

=============================================================================
