------------------------------ MODULE ZstdV06 -------------------------------
(***************************************************************************)
(* zstd_v06.c, the decoder of format 0.6, but for its buffered interface.  *)
(***************************************************************************)
EXTENDS OldFormats

MAGICNUMBER06 == <<38, 181, 47, 253>>
DICT_MAGIC06 == <<54, 164, 48, 236>>
frameHeaderSize_min06 == 5
WINDOWLOG_ABSOLUTEMIN06 == 12

-----------------------------------------------------------------------------
\* Entropy coding.

BITv06_initDStream(src) == OldInitDStream(src)
BITv06_reloadDStream(d) == BIT_reloadDStream(d)
BITv06_endOfDStream(d) == BIT_endOfDStream(d)

FSEv06_readNCount(src, max) == ReadNCount(src, max, TRUE)
FSEv06_buildDTable(norm, log) == FSE_buildDTable(norm, log)
FSEv06_decompress_usingDTable_generic(src, cap, dt) ==
  LET Rest(m) == TailUntilOverflow(m, cap, dt, BITv06_reloadDStream)
  IN UsingDTable(src, cap, dt, BITv06_initDStream, BITv06_reloadDStream, Rest)
FSEv06_decompress(src, cap) ==
  OldDecompress(src, cap, FSEv06_readNCount, FSEv06_buildDTable,
                FSEv06_decompress_usingDTable_generic)

HUFv06_readStats(src) == OldReadStats(src, FSEv06_decompress)
HUFv06_readDTableX2(src) == ReadDTableX2(src, HufLog, HUFv06_readStats)
HUFv06_fillDTableX4Level2(sizeLog, consumed, first, minWeight, sorted, weights, rank, base) ==
  FillDTableX4Level2(sizeLog, consumed, first, minWeight, sorted, weights, rank, base)
HUFv06_fillDTableX4(targetLog, sorted, weights, maxW, base) ==
  FillDTableX4(targetLog, sorted, weights, maxW, base, HUFv06_fillDTableX4Level2)
HUFv06_readDTableX4(src) ==
  ReadDTableX4(src, HufLog, HUF_ABSOLUTEMAX_TABLELOG, HUFv06_readStats, HUFv06_fillDTableX4)

HUFv06_decodeStreamX2(st, size, dt) == StreamX2(st, size, dt, BITv06_reloadDStream, TRUE)
HUFv06_decodeStreamX4(st, size, dt) == StreamX4(st, size, dt, BITv06_reloadDStream, 7)
HUFv06_decompress1X2_usingDTable(src, size, dt) ==
  OneStream(src, size, dt, BITv06_initDStream, BITv06_endOfDStream, HUFv06_decodeStreamX2)
HUFv06_decompress1X4_usingDTable(src, size, dt) ==
  OneStream(src, size, dt, BITv06_initDStream, BITv06_endOfDStream, HUFv06_decodeStreamX4)
HUFv06_decompress4X2_usingDTable(src, size, dt) ==
  FourStreams(src, size, dt, 7, TRUE, BITv06_initDStream, BITv06_reloadDStream,
              BITv06_endOfDStream, HUFv06_decodeStreamX2)
HUFv06_decompress4X4_usingDTable(src, size, dt) ==
  FourStreams(src, size, dt, 7, TRUE, BITv06_initDStream, BITv06_reloadDStream,
              BITv06_endOfDStream, HUFv06_decodeStreamX4)

HUFv06_decompress1X2(src, size) ==
  TableThen(src, size, HUFv06_readDTableX2, HUFv06_decompress1X2_usingDTable)
HUFv06_decompress4X2(src, size) ==
  TableThen(src, size, HUFv06_readDTableX2, HUFv06_decompress4X2_usingDTable)
HUFv06_decompress4X4(src, size) ==
  TableThen(src, size, HUFv06_readDTableX4, HUFv06_decompress4X4_usingDTable)

HUFv06_decompress(src, size) ==
  LET Algo(s, n) ==
        IF Time(AlgoTime, n, Len(s), 1, 4) < Time(AlgoTime, n, Len(s), 0, 0)
        THEN HUFv06_decompress4X4(s, n) ELSE HUFv06_decompress4X2(s, n)
  IN OldHufDecompress(src, size, TRUE, Algo)

-----------------------------------------------------------------------------
\* Blocks.

ZSTDv06_decodeLiteralsBlock(ctx, src) ==
  LET type == Byte(src, 0) \div 64
      Decode(single, body, size) ==
        IF single THEN HUFv06_decompress1X2(body, size) ELSE HUFv06_decompress(body, size)
      Keep(c, r) == c
      Again(body, size) == HUFv06_decompress1X4_usingDTable(body, size, ctx.huf)
  IN IF Len(src) < MIN_CBLOCK_SIZE THEN Fail(Error.corruption_detected)
     ELSE CASE type = lbt_huffman -> OldCodedLiterals(ctx, src, Decode, Keep)
            [] type = lbt_repeat  -> OldRepeatLiterals(ctx, src, ctx.fseEntropy, Again)
            [] type = lbt_raw     -> OldRawLiterals(ctx, src)
            [] type = lbt_rle     -> OldRleLiterals(ctx, src)

ZSTDv06_buildSeqTable(type, src, max, maxLog, norm, log, previous, repeats) ==
  SeqTable(type, OldKinds, src, max, maxLog, max, FSEv06_buildDTable(norm, log), previous,
           repeats, FSE_buildDTable_rle, FSEv06_readNCount, FSEv06_buildDTable)

MaxOff06 == 28
ZSTDv06_decodeSeqHeaders(ctx, src) ==
  LET LL(type, s) == ZSTDv06_buildSeqTable(type, s, MaxLL, LLFSELog, LL_defaultNorm,
                       LL_defaultNormLog, ctx.ll, ctx.fseEntropy)
      OF(type, s) == ZSTDv06_buildSeqTable(type, s, MaxOff06, OffFSELog, OF_defaultNorm,
                       OF_defaultNormLog, ctx.of, ctx.fseEntropy)
      ML(type, s) == ZSTDv06_buildSeqTable(type, s, MaxML, MLFSELog, ML_defaultNorm,
                       ML_defaultNormLog, ctx.ml, ctx.fseEntropy)
  IN SeqHeaders(ctx, src, LL, OF, ML)

\* The base of the last two codes is not meant to be used.
OF_base06 == [i \in 1 .. MaxOff06 + 1 |-> IF i <= 27 THEN 2 ^ (i - 1) - 1 ELSE 1]
REPCODE_STARTVALUE == 1

\* The first three values recall a recent offset, the first two of them exchanged
\* behind no literals.
ChooseOffset06(rep, value, noLiterals) ==
  LET n == IF noLiterals /\ value <= 1 THEN 1 - value ELSE value
  IN IF value >= 3 THEN Pushed(rep, value - 2) ELSE Recalled(rep, n, rep[n + 1])

ZSTDv06_decodeSequence(st) ==
  LET llCode == st.ll.cell[st.x].symbol
      ReadOffset(s, of) == PlainOffset(s, of, BITv06_reloadDStream)
      Offset(rep, value, bits) == ChooseOffset06(rep, value, llCode = 0)
  IN CodedSequence(st, Coded(LL_base, LL_bits, llCode),
                   Coded(OF_base06, OF_bits, st.of.cell[st.y].symbol),
                   Coded(ML_base, ML_bits, st.ml.cell[st.z].symbol), 25, FALSE,
                   ReadOffset, Offset, BITv06_reloadDStream)

ZSTDv06_execSequence(m, seq) == OldExecSequence(m, seq, MINMATCH)

\* The tables of a dictionary serve the first block behind it only, and no block
\* knows the offsets of the one before.
ZSTDv06_decompressSequences(ctx, src, cap) ==
  LET First(st) == [st EXCEPT !.rep = [i \in 1 .. 3 |-> REPCODE_STARTVALUE]]
      Keep(c, st) == c
      Body(h) ==
        LET c == [h EXCEPT !.fseEntropy = FALSE]
        IN IF c.nbSeq = 0 THEN NoSequences(c, cap)
           ELSE WithSequences(c, From(src, c.ret), cap, BITv06_initDStream,
                              BITv06_reloadDStream, First, ZSTDv06_decodeSequence,
                              ZSTDv06_execSequence, AtEnd, Keep)
  IN Then(ZSTDv06_decodeSeqHeaders(ctx, src), Body)

ZSTDv06_decompressBlock_internal(ctx, src, cap) ==
  LET Sequences(c) == ZSTDv06_decompressSequences(c, From(src, c.ret), cap)
  IN IF Len(src) >= BLOCKSIZE_MAX THEN Fail(Error.srcSize_wrong)
     ELSE Then(ZSTDv06_decodeLiteralsBlock(ctx, src), Sequences)

ZSTDv06_decodeBlock(ctx, h, body, cap) ==
  CASE h.type = old_compressed -> ZSTDv06_decompressBlock_internal(ctx, body, cap)
    [] h.type = old_raw        -> CopyRawBlock(ctx, body, cap)
    [] h.type = old_rle        -> Fail(Error.GENERIC)

ZSTDv06_getcBlockSize(src) == OldBlockSize(src)

-----------------------------------------------------------------------------
\* Frames.

fcs_fieldSize06 == <<0, 1, 2, 8>>
ZSTDv06_frameHeaderSize(src) ==
  IF Len(src) < frameHeaderSize_min06 THEN Error.srcSize_wrong
  ELSE frameHeaderSize_min06 + fcs_fieldSize06[(Byte(src, 4) \div 64) + 1]

\* A content size that is not known reads as 0.
ZSTDv06_getFrameParams(src) ==
  LET desc == Byte(src, 4)
      size == ZSTDv06_frameHeaderSize(src)
      fcs == <<0, Byte(src, 5), LE16(src, 5) + 256, LE32(src, 5)>>
  IN IF Len(src) < frameHeaderSize_min06 THEN [ret |-> frameHeaderSize_min06]
     ELSE IF Slice(src, 0, 4) # MAGICNUMBER06 THEN Fail(Error.prefix_unknown)
     ELSE IF Len(src) < size THEN [ret |-> size]
     ELSE IF (desc \div 32) % 2 = 1 THEN Fail(Error.frameParameter_unsupported)
     ELSE [ret |-> 0, params |-> [NoParams EXCEPT
             !.window = 2 ^ ((desc % 16) + WINDOWLOG_ABSOLUTEMIN06),
             !.fcs = fcs[(desc \div 64) + 1]]]

ZSTDv06_decodeFrameHeader(ctx, src) ==
  LET h == ZSTDv06_getFrameParams(src)
  IN IF h.ret # 0 THEN h
     ELSE IF Word = 4 /\ h.params.window > 2 ^ 25 THEN Fail(Error.frameParameter_unsupported)
     ELSE [ctx EXCEPT !.ret = 0, !.params = h.params]

ZSTDv06_decompressFrame(ctx, src, cap) ==
  LET size == ZSTDv06_frameHeaderSize(Slice(src, 0, frameHeaderSize_min06))
      c == ZSTDv06_decodeFrameHeader(ctx, Slice(src, 0, size))
      Decode(b, h, body) == ZSTDv06_decodeBlock(b, h, body, cap)
  IN IF Len(src) < frameHeaderSize_min06 + blockHeaderSize \/ Len(src) < size + blockHeaderSize
     THEN Fail(Error.srcSize_wrong)
     ELSE IF c.ret # 0 THEN Fail(Error.corruption_detected)
     ELSE FrameUpToEmpty(c, src, size, Decode)

ZSTDv06_findFrameCompressedSize(src) ==
  LET size == ZSTDv06_frameHeaderSize(src)
  IN IF Slice(src, 0, 4) # MAGICNUMBER06 THEN Fail(Error.prefix_unknown)
     ELSE IF IsError(size) \/ Len(src) < size + blockHeaderSize THEN Fail(Error.srcSize_wrong)
     ELSE SizeUpToEmpty(src, size)

-----------------------------------------------------------------------------
\* Dictionaries.

ZSTDv06_loadEntropy(ctx, dict) ==
  LET huf == HUFv06_readDTableX4(dict)
      Table(at, max, maxLog) ==
        LET n == FSEv06_readNCount(From(dict, at), max)
        IN IF IsError(n.ret) \/ n.tableLog > maxLog THEN Fail(Error.dictionary_corrupted)
           ELSE [ret |-> at + n.ret, table |-> FSEv06_buildDTable(n.norm, n.tableLog)]
  IN IF IsError(huf.ret) THEN Fail(Error.dictionary_corrupted)
     ELSE Then(Table(huf.ret, MaxOff06, OffFSELog), LAMBDA of :
          Then(Table(of.ret, MaxML, MLFSELog), LAMBDA ml :
          Then(Table(ml.ret, MaxLL, LLFSELog), LAMBDA ll :
            [ctx EXCEPT !.ret = ll.ret, !.huf = huf, !.of = of.table, !.ml = ml.table,
                        !.ll = ll.table, !.fseEntropy = TRUE])))

ZSTDv06_refDictContent(ctx, dict) == ZSTD_refDictContent(ctx, dict)
ZSTDv06_decompress_insertDictionary(ctx, dict) ==
  LET Content(c) == ZSTDv06_refDictContent(c, From(dict, 4 + c.ret))
  IN IF Slice(dict, 0, 4) # DICT_MAGIC06 THEN ZSTDv06_refDictContent(ctx, dict)
     ELSE Then(ZSTDv06_loadEntropy(ctx, From(dict, 4)), Content)

ZSTDv06_decompressBegin == NewContext
ZSTDv06_decompressBegin_usingDict(dict) ==
  IF dict = <<>> THEN ZSTDv06_decompressBegin
  ELSE ZSTDv06_decompress_insertDictionary(ZSTDv06_decompressBegin, dict)

\* A dictionary that could not be loaded is left out.
ZSTDv06_decompress_usingDict(src, cap, dict) ==
  LET begun == ZSTDv06_decompressBegin_usingDict(dict)
      ctx == IF IsError(begun.ret) THEN ZSTDv06_decompressBegin ELSE begun
  IN ZSTDv06_decompressFrame(CheckContinuity(ctx, FALSE), src, cap)

-----------------------------------------------------------------------------
\* Piece by piece.

NewDecoder06(ctx) == OldDecoder(ctx, "getFrameHeaderSize", frameHeaderSize_min06)

ZSTDv06_decompressContinue(dec, src, room, follows) ==
  LET d == IF room = 0 THEN dec ELSE [dec EXCEPT !.ctx = CheckContinuity(@, follows)]
      size == ZSTDv06_frameHeaderSize(src)
      bp == ZSTDv06_getcBlockSize(src)
      Kept(c) == [Stage(d, "decodeBlockHeader", blockHeaderSize) EXCEPT !.ctx = c]
  IN IF Len(src) # dec.expected THEN Fail(Error.srcSize_wrong)
     ELSE CASE dec.stage = "getFrameHeaderSize" ->
                 IF size > Len(src)
                 THEN [Stage(d, "decodeFrameHeader", size - Len(src)) EXCEPT !.header = src]
                 ELSE Then(ZSTDv06_decodeFrameHeader(d.ctx, src), Kept)
            [] dec.stage = "decodeFrameHeader" ->
                 Then(ZSTDv06_decodeFrameHeader(d.ctx, dec.header \o src), Kept)
            [] dec.stage = "decodeBlockHeader" ->
                 IF bp.ends THEN Stage(d, "getFrameHeaderSize", 0)
                 ELSE [Stage(d, "decompressBlock", bp.ret) EXCEPT !.block = bp]
            [] dec.stage = "decompressBlock" ->
                 OldDecompressBlock(d, src, d.ctx.op + room, ZSTDv06_decodeBlock)

=============================================================================
