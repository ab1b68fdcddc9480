------------------------------ MODULE ZstdV07 -------------------------------
(***************************************************************************)
(* zstd_v07.c, the decoder of format 0.7, but for its buffered interface.  *)
(***************************************************************************)
EXTENDS OldFormats

MAGICNUMBER07 == <<39, 181, 47, 253>>
DICT_MAGIC07 == <<55, 164, 48, 236>>
frameHeaderSize_min07 == 5
WINDOWLOG_MAX07 == IF Word = 4 THEN 25 ELSE 27

-----------------------------------------------------------------------------
\* Entropy coding.

BITv07_initDStream(src) == OldInitDStream(src)
BITv07_reloadDStream(d) == BIT_reloadDStream(d)
BITv07_endOfDStream(d) == BIT_endOfDStream(d)

FSEv07_readNCount(src, max) == ReadNCount(src, max, TRUE)
FSEv07_buildDTable(norm, log) == FSE_buildDTable(norm, log)
FSEv07_decompress_usingDTable_generic(src, cap, dt) ==
  LET Rest(m) == TailUntilOverflow(m, cap, dt, BITv07_reloadDStream)
  IN UsingDTable(src, cap, dt, BITv07_initDStream, BITv07_reloadDStream, Rest)
FSEv07_decompress(src, cap) ==
  OldDecompress(src, cap, FSEv07_readNCount, FSEv07_buildDTable,
                FSEv07_decompress_usingDTable_generic)

HUFv07_readStats(src) == OldReadStats(src, FSEv07_decompress)
HUFv07_readDTableX2(src) == ReadDTableX2(src, HufLog + 1, HUFv07_readStats)
HUFv07_fillDTableX4Level2(sizeLog, consumed, first, minWeight, sorted, weights, rank, base) ==
  FillDTableX4Level2(sizeLog, consumed, first, minWeight, sorted, weights, rank, base)
HUFv07_fillDTableX4(targetLog, sorted, weights, maxW, base) ==
  FillDTableX4(targetLog, sorted, weights, maxW, base, HUFv07_fillDTableX4Level2)
HUFv07_readDTableX4(src) ==
  ReadDTableX4(src, HufLog, HUF_ABSOLUTEMAX_TABLELOG, HUFv07_readStats, HUFv07_fillDTableX4)

HUFv07_decodeStreamX2(st, size, dt) == StreamX2(st, size, dt, BITv07_reloadDStream, TRUE)
HUFv07_decodeStreamX4(st, size, dt) == StreamX4(st, size, dt, BITv07_reloadDStream, 7)
HUFv07_decompress1X2_usingDTable_internal(src, size, dt) ==
  OneStream(src, size, dt, BITv07_initDStream, BITv07_endOfDStream, HUFv07_decodeStreamX2)
HUFv07_decompress1X4_usingDTable_internal(src, size, dt) ==
  OneStream(src, size, dt, BITv07_initDStream, BITv07_endOfDStream, HUFv07_decodeStreamX4)
HUFv07_decompress4X2_usingDTable_internal(src, size, dt) ==
  FourStreams(src, size, dt, 7, TRUE, BITv07_initDStream, BITv07_reloadDStream,
              BITv07_endOfDStream, HUFv07_decodeStreamX2)
HUFv07_decompress4X4_usingDTable_internal(src, size, dt) ==
  FourStreams(src, size, dt, 7, TRUE, BITv07_initDStream, BITv07_reloadDStream,
              BITv07_endOfDStream, HUFv07_decodeStreamX4)

HUFv07_decompress1X2_DCtx(src, size) ==
  TableThen(src, size, HUFv07_readDTableX2, HUFv07_decompress1X2_usingDTable_internal)
HUFv07_decompress4X2_DCtx(src, size) ==
  TableThen(src, size, HUFv07_readDTableX2, HUFv07_decompress4X2_usingDTable_internal)
HUFv07_decompress4X4_DCtx(src, size) ==
  TableThen(src, size, HUFv07_readDTableX4, HUFv07_decompress4X4_usingDTable_internal)
HUFv07_decompress1X4_usingDTable(src, size, dt) ==
  IF ~dt.double THEN Fail(Error.GENERIC)
  ELSE HUFv07_decompress1X4_usingDTable_internal(src, size, dt)

HUFv07_selectDecoder(size, csize) ==
  IF Time(AlgoTime, size, csize, 1, 3) < Time(AlgoTime, size, csize, 0, 0) THEN 1 ELSE 0
HUFv07_decompress4X_hufOnly(src, size) ==
  IF size = 0 THEN Fail(Error.dstSize_tooSmall)
  ELSE IF Len(src) >= size \/ Len(src) <= 1 THEN Fail(Error.corruption_detected)
  ELSE IF HUFv07_selectDecoder(size, Len(src)) = 1 THEN HUFv07_decompress4X4_DCtx(src, size)
  ELSE HUFv07_decompress4X2_DCtx(src, size)

-----------------------------------------------------------------------------
\* Blocks.

ZSTDv07_decodeLiteralsBlock(ctx, src) ==
  LET type == Byte(src, 0) \div 64
      Decode(single, body, size) ==
        IF single THEN HUFv07_decompress1X2_DCtx(body, size)
        ELSE HUFv07_decompress4X_hufOnly(body, size)
      Keep(c, r) == [c EXCEPT !.litEntropy = TRUE, !.huf = r.table]
      Again(body, size) == HUFv07_decompress1X4_usingDTable(body, size, ctx.huf)
  IN IF Len(src) < MIN_CBLOCK_SIZE THEN Fail(Error.corruption_detected)
     ELSE CASE type = lbt_huffman -> OldCodedLiterals(ctx, src, Decode, Keep)
            [] type = lbt_repeat  -> OldRepeatLiterals(ctx, src, ctx.litEntropy, Again)
            [] type = lbt_raw     -> OldRawLiterals(ctx, src)
            [] type = lbt_rle     -> OldRleLiterals(ctx, src)

ZSTDv07_buildSeqTable(type, src, max, maxLog, norm, log, previous, repeats) ==
  SeqTable(type, OldKinds, src, max, maxLog, max, FSEv07_buildDTable(norm, log), previous,
           repeats, FSE_buildDTable_rle, FSEv07_readNCount, FSEv07_buildDTable)

MaxOff07 == 28
ZSTDv07_decodeSeqHeaders(ctx, src) ==
  LET LL(type, s) == ZSTDv07_buildSeqTable(type, s, MaxLL, LLFSELog, LL_defaultNorm,
                       LL_defaultNormLog, ctx.ll, ctx.fseEntropy)
      OF(type, s) == ZSTDv07_buildSeqTable(type, s, MaxOff07, OffFSELog, OF_defaultNorm,
                       OF_defaultNormLog, ctx.of, ctx.fseEntropy)
      ML(type, s) == ZSTDv07_buildSeqTable(type, s, MaxML, MLFSELog, ML_defaultNorm,
                       ML_defaultNormLog, ctx.ml, ctx.fseEntropy)
  IN SeqHeaders(ctx, src, LL, OF, ML)

\* Offsets 0 and 1 change places behind no literals.
ChooseOffset07(rep, value, bits, noLiterals) ==
  LET n == IF noLiterals /\ value <= 1 THEN 1 - value ELSE value
  IN IF bits > 1 THEN Pushed(rep, value) ELSE Recalled(rep, n, rep[n + 1])

ZSTDv07_decodeSequence(st) ==
  LET llCode == st.ll.cell[st.x].symbol
      ReadOffset(s, of) == PlainOffset(s, of, BITv07_reloadDStream)
      Offset(rep, value, bits) == ChooseOffset07(rep, value, bits, llCode = 0)
  IN CodedSequence(st, Coded(LL_base, LL_bits, llCode),
                   Coded(OF_base, OF_bits, st.of.cell[st.y].symbol),
                   Coded(ML_base, ML_bits, st.ml.cell[st.z].symbol), 25, FALSE,
                   ReadOffset, Offset, BITv07_reloadDStream)

ZSTDv07_execSequence(m, seq) == OldExecSequence(m, seq, MINMATCH)

ZSTDv07_decompressSequences(ctx, src, cap) ==
  LET Body(c) ==
        IF c.nbSeq = 0 THEN NoSequences(c, cap)
        ELSE WithSequences(c, From(src, c.ret), cap, BITv07_initDStream, BITv07_reloadDStream,
                           SameStates, ZSTDv07_decodeSequence, ZSTDv07_execSequence, AtEnd,
                           KeepRecent)
  IN Then(ZSTDv07_decodeSeqHeaders(ctx, src), Body)

ZSTDv07_decompressBlock_internal(ctx, src, cap) ==
  LET Sequences(c) == ZSTDv07_decompressSequences(c, From(src, c.ret), cap)
  IN IF Len(src) >= BLOCKSIZE_MAX THEN Fail(Error.srcSize_wrong)
     ELSE Then(ZSTDv07_decodeLiteralsBlock(ctx, src), Sequences)

ZSTDv07_getcBlockSize(src) == OldBlockSize(src)

-----------------------------------------------------------------------------
\* Frames.

\* The header has the fields of the current format; one byte less is its minimum.
ZSTDv07_frameHeaderSize(src) == ZSTD_frameHeaderSize_internal(src)

\* A content size that is not known reads as 0.
ZSTDv07_FullHeader(src) ==
  LET h == FullHeader(src)
      fcs == Larger(h.params.fcs, 0)
      window == IF h.params.window = 0 THEN fcs ELSE h.params.window
  IN IF h.ret > 0 THEN h
     ELSE IF IsError(h.ret) \/ window > 2 ^ WINDOWLOG_MAX07
     THEN Fail(Error.frameParameter_unsupported)
     ELSE [h EXCEPT !.params.fcs = fcs, !.params.window = window]

ZSTDv07_getFrameParams(src) ==
  IF Len(src) < frameHeaderSize_min07 THEN [ret |-> frameHeaderSize_min07]
  ELSE IF Slice(src, 0, 4) = MAGICNUMBER07 THEN ZSTDv07_FullHeader(src)
  ELSE IF IsSkippableMagic(src) THEN SkippableHeader(src)
  ELSE Fail(Error.prefix_unknown)

ZSTDv07_decodeFrameHeader(ctx, src) ==
  LET h == ZSTDv07_getFrameParams(src)
  IN IF h.ret # 0 THEN h
     ELSE IF h.params.dictID # 0 /\ ctx.dictID # h.params.dictID
     THEN Fail(Error.dictionary_wrong)
     ELSE [ctx EXCEPT !.ret = 0, !.params = h.params]

\* The checksum of the end block is not looked at.
ZSTDv07_decompressFrame(ctx, src, cap) ==
  LET size == ZSTDv07_frameHeaderSize(Slice(src, 0, frameHeaderSize_min07))
      c == ZSTDv07_decodeFrameHeader(ctx, Slice(src, 0, size))
      Decode(b, h, body) ==
        CASE h.type = old_compressed -> ZSTDv07_decompressBlock_internal(b, body, cap)
          [] h.type = old_raw        -> CopyRawBlock(b, body, cap)
          [] h.type = old_rle        -> Repeated(b, Byte(body, 0), h.origSize, cap)
  IN IF Len(src) < frameHeaderSize_min07 + blockHeaderSize \/ Len(src) < size + blockHeaderSize
     THEN Fail(Error.srcSize_wrong)
     ELSE IF c.ret # 0 THEN Fail(Error.corruption_detected)
     ELSE OldFrame(c, src, size, Decode)

ZSTDv07_findFrameCompressedSize(src) ==
  LET size == ZSTDv07_frameHeaderSize(src)
  IN IF Len(src) < frameHeaderSize_min07 + blockHeaderSize THEN Fail(Error.srcSize_wrong)
     ELSE IF Slice(src, 0, 4) # MAGICNUMBER07 THEN Fail(Error.prefix_unknown)
     ELSE IF Len(src) < size + blockHeaderSize THEN Fail(Error.srcSize_wrong)
     ELSE OldFrameSize(src, size)

-----------------------------------------------------------------------------
\* Dictionaries.

\* The recent offsets are compared with the size of all behind the identifier.
ZSTDv07_loadEntropy(ctx, dict) ==
  LET huf == HUFv07_readDTableX4(dict)
      Table(at, max, maxLog) ==
        LET n == FSEv07_readNCount(From(dict, at), max)
        IN IF IsError(n.ret) \/ n.tableLog > maxLog THEN Fail(Error.dictionary_corrupted)
           ELSE [ret |-> at + n.ret, table |-> FSEv07_buildDTable(n.norm, n.tableLog)]
  IN IF IsError(huf.ret) THEN Fail(Error.dictionary_corrupted)
     ELSE Then(Table(huf.ret, MaxOff07, OffFSELog), LAMBDA of :
          Then(Table(of.ret, MaxML, MLFSELog), LAMBDA ml :
          Then(Table(ml.ret, MaxLL, LLFSELog), LAMBDA ll :
            LET rep == [i \in 1 .. 3 |-> LE32(dict, ll.ret + 4 * (i - 1))]
            IN IF ll.ret + 12 > Len(dict) \/ \E i \in 1 .. 3 : rep[i] = 0 \/ rep[i] >= Len(dict)
               THEN Fail(Error.dictionary_corrupted)
               ELSE [ctx EXCEPT !.ret = ll.ret + 12, !.huf = huf, !.of = of.table,
                                !.ml = ml.table, !.ll = ll.table, !.rep = rep,
                                !.litEntropy = TRUE, !.fseEntropy = TRUE])))

ZSTDv07_refDictContent(ctx, dict) == ZSTD_refDictContent(ctx, dict)
ZSTDv07_decompress_insertDictionary(ctx, dict) ==
  LET Content(c) == ZSTDv07_refDictContent(c, From(dict, 8 + c.ret))
  IN IF Len(dict) < 8 \/ Slice(dict, 0, 4) # DICT_MAGIC07 THEN ZSTDv07_refDictContent(ctx, dict)
     ELSE Then(ZSTDv07_loadEntropy([ctx EXCEPT !.dictID = LE32(dict, 4)], From(dict, 8)), Content)

ZSTDv07_decompressBegin == NewContext
ZSTDv07_decompressBegin_usingDict(dict) ==
  IF dict = <<>> THEN ZSTDv07_decompressBegin
  ELSE ZSTDv07_decompress_insertDictionary(ZSTDv07_decompressBegin, dict)

\* Whether the dictionary could be loaded is not looked at: of one that could not,
\* the identifier is kept.
ZSTDv07_decompress_usingDict(src, cap, dict) ==
  LET begun == ZSTDv07_decompressBegin_usingDict(dict)
      ctx == IF IsError(begun.ret)
             THEN [ZSTDv07_decompressBegin EXCEPT !.dictID = LE32(dict, 4)] ELSE begun
  IN ZSTDv07_decompressFrame(CheckContinuity(ctx, FALSE), src, cap)

-----------------------------------------------------------------------------
\* Piece by piece.

NewDecoder07(ctx) == OldDecoder(ctx, "getFrameHeaderSize", frameHeaderSize_min07)

\* Twenty-two bits of the digest are kept in the header of the end block.
Digest07(bytes) == LET d == Digest(bytes) IN <<d[3] % 64, d[2], d[1]>>

ZSTDv07_decompressContinue(dec, src, room, follows) ==
  LET d == IF room = 0 THEN dec ELSE [dec EXCEPT !.ctx = CheckContinuity(@, follows)]
      size == ZSTDv07_frameHeaderSize(src)
      header == dec.header \o src
      bp == ZSTDv07_getcBlockSize(src)
      Kept(c) == [Stage(d, "decodeBlockHeader", blockHeaderSize) EXCEPT !.ctx = c]
      Decode(c, b, body, cap) ==
        CASE b.type = old_compressed -> ZSTDv07_decompressBlock_internal(c, body, cap)
          [] b.type = old_raw        -> CopyRawBlock(c, body, cap)
          [] b.type = old_rle        -> Fail(Error.GENERIC)
      sum == <<Byte(src, 0) % 64, Byte(src, 1), Byte(src, 2)>>
  IN IF Len(src) # dec.expected THEN Fail(Error.srcSize_wrong)
     ELSE CASE dec.stage = "getFrameHeaderSize" ->
                 IF IsSkippableMagic(src)
                 THEN [Stage(d, "decodeSkippableHeader", skippableHeaderSize - Len(src))
                         EXCEPT !.header = src]
                 ELSE IF IsError(size) THEN Fail(size)
                 ELSE [Stage(d, "decodeFrameHeader", size - Len(src)) EXCEPT !.header = src]
            [] dec.stage = "decodeFrameHeader" ->
                 Then(ZSTDv07_decodeFrameHeader(d.ctx, header), Kept)
            [] dec.stage = "decodeBlockHeader" ->
                 IF IsError(bp.ret) THEN bp
                 ELSE IF ~bp.ends
                 THEN [Stage(d, "decompressBlock", bp.ret) EXCEPT !.block = bp]
                 ELSE IF d.ctx.params.cksum /\ sum # Digest07(d.decoded)
                 THEN Fail(Error.checksum_wrong)
                 ELSE Stage(d, "getFrameHeaderSize", 0)
            [] dec.stage = "decompressBlock" ->
                 OldDecompressBlock(d, src, d.ctx.op + room, Decode)
            [] dec.stage = "decodeSkippableHeader" ->
                 Stage(d, "skipFrame", LE32(header, frameIdSize))
            [] dec.stage = "skipFrame" -> Stage(d, "getFrameHeaderSize", 0)

=============================================================================
