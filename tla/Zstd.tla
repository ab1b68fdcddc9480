-------------------------------- MODULE Zstd --------------------------------
(***************************************************************************)
(* zstd_decompress.c, the decoder of the current format: blocks, frames,   *)
(* dictionaries, and the stages a frame is decoded in piece by piece.      *)
(***************************************************************************)
EXTENDS Blocks, Codes

BLOCKSIZE_MAX == 2 ^ 17

-----------------------------------------------------------------------------
\* Literals.

MIN_CBLOCK_SIZE == 3

Literals(ctx, lit, ret) == [ctx EXCEPT !.ret = ret, !.lit = lit]

\* Huffman coded, by a table of their own or by the one before.
CodedLiterals(ctx, src, repeats) ==
  LET code == (Byte(src, 0) \div 4) % 4
      lhSize == IF code < 2 THEN 3 ELSE code + 2
      bits == <<10, 10, 14, 18>>[code + 1]
      litSize == Field(src, 4, bits)
      litCSize == Field(src, 4 + bits, bits)
      body == Slice(src, lhSize, litCSize)
      r == IF repeats
           THEN IF code = 0 THEN HUF_decompress1X_usingDTable(body, litSize, ctx.huf)
                ELSE HUF_decompress4X_usingDTable(body, litSize, ctx.huf)
           ELSE IF code = 0 THEN HUF_decompress1X2_DCtx(body, litSize)
                ELSE HUF_decompress4X_hufOnly(body, litSize)
  IN IF Len(src) < 5 \/ litSize > BLOCKSIZE_MAX \/ litCSize + lhSize > Len(src)
     THEN Fail(Error.corruption_detected)
     ELSE IF IsError(r.ret) THEN Fail(Error.corruption_detected)
     ELSE [Literals(ctx, r.out, litCSize + lhSize) EXCEPT
             !.litEntropy = TRUE, !.huf = IF repeats THEN @ ELSE r.table]

\* The size of literals that are raw or all the same, and of what says so.
PlainSize(src) ==
  LET code == (Byte(src, 0) \div 4) % 4
  IN CASE code = 1 -> [lhSize |-> 2, litSize |-> LE16(src, 0) \div 16]
       [] code = 3 -> [lhSize |-> 3, litSize |-> LE24(src, 0) \div 16]
       [] OTHER    -> [lhSize |-> 1, litSize |-> Byte(src, 0) \div 8]

RawLiterals(ctx, src) ==
  LET p == PlainSize(src)
  IN IF p.litSize + p.lhSize > Len(src) THEN Fail(Error.corruption_detected)
     ELSE Literals(ctx, Slice(src, p.lhSize, p.litSize), p.lhSize + p.litSize)

RleLiterals(ctx, src) ==
  LET p == PlainSize(src)
  IN IF (p.lhSize = 3 /\ Len(src) < 4) \/ p.litSize > BLOCKSIZE_MAX
     THEN Fail(Error.corruption_detected)
     ELSE Literals(ctx, [i \in 1 .. p.litSize |-> Byte(src, p.lhSize)], p.lhSize + 1)

\* symbolEncodingType_e
set_basic == 0
set_rle == 1
set_compressed == 2
set_repeat == 3

ZSTD_decodeLiteralsBlock(ctx, src) ==
  LET type == Byte(src, 0) % 4
  IN IF Len(src) < MIN_CBLOCK_SIZE THEN Fail(Error.corruption_detected)
     ELSE IF type = set_repeat /\ ~ctx.litEntropy THEN Fail(Error.dictionary_corrupted)
     ELSE CASE type = set_basic -> RawLiterals(ctx, src)
            [] type = set_rle   -> RleLiterals(ctx, src)
            [] OTHER            -> CodedLiterals(ctx, src, type = set_repeat)

-----------------------------------------------------------------------------
\* Tables of sequences: a cell has the base of its code and the bits to add.

ZSTD_buildSeqTable_rle(base, bits) ==
  [tableLog |-> 0,
   cell |-> [u \in {0} |-> [newState |-> 0, bits |-> bits, nbBits |-> 0, base |-> base]]]

ZSTD_buildFSETable(norm, log, bases, bits) ==
  LET cell == FSE_buildDTable(norm, log).cell
  IN [tableLog |-> log,
      cell |-> [u \in 0 .. 2 ^ log - 1 |->
                 [newState |-> cell[u].newState, bits |-> bits[cell[u].symbol + 1],
                  nbBits |-> cell[u].nbBits, base |-> bases[cell[u].symbol + 1]]]]

Default(table, log) ==
  [tableLog |-> log,
   cell |-> [u \in 0 .. 2 ^ log - 1 |->
              [newState |-> table[u + 1][1], bits |-> table[u + 1][2],
               nbBits |-> table[u + 1][3], base |-> table[u + 1][4]]]]

OF_bits == [i \in 1 .. MaxOff + 1 |-> i - 1]
SetTypes == [rle |-> set_rle, basic |-> set_basic, repeat |-> set_repeat]

ZSTD_buildSeqTable(type, src, max, maxLog, bases, bits, default, previous, repeats) ==
  LET Rle(symbol) == ZSTD_buildSeqTable_rle(bases[symbol + 1], bits[symbol + 1])
      Build(norm, log) == ZSTD_buildFSETable(norm, log, bases, bits)
  IN SeqTable(type, SetTypes, src, max, maxLog, max, default, previous, repeats,
              Rle, FSE_readNCount, Build)

ZSTD_decodeSeqHeaders(ctx, src) ==
  LET LL(type, s) == ZSTD_buildSeqTable(type, s, MaxLL, LLFSELog, LL_base, LL_bits,
                       Default(LL_defaultDTable, LL_defaultNormLog), ctx.ll, ctx.fseEntropy)
      OF(type, s) == ZSTD_buildSeqTable(type, s, MaxOff, OffFSELog, OF_base, OF_bits,
                       Default(OF_defaultDTable, OF_defaultNormLog), ctx.of, ctx.fseEntropy)
      ML(type, s) == ZSTD_buildSeqTable(type, s, MaxML, MLFSELog, ML_base, ML_bits,
                       Default(ML_defaultDTable, ML_defaultNormLog), ctx.ml, ctx.fseEntropy)
  IN SeqHeaders(ctx, src, LL, OF, ML)

-----------------------------------------------------------------------------
\* Executing a sequence.

\* The literals end in the last bytes of the destination: no wild copy may pass it.
ZSTD_execSequenceLast7(m, seq) ==
  LET oLitEnd == m.op + seq.litLength
      roomy == m.cap - WILDCOPY_OVERLENGTH
      wild == IF m.op < roomy THEN WildCopy(m.out, m.op, m.lit, m.litPtr, roomy - m.op)
              ELSE m.out
  IN ExecMatch([m EXCEPT !.out = Write(wild, m.op, Bytes(m.lit, m.litPtr, seq.litLength))],
               seq, oLitEnd, CopyBack)

\* The checks of a sequence, then Roomy when its literals leave room.
Checked(m, seq, Roomy(_, _)) ==
  LET oLitEnd == m.op + seq.litLength
  IN IF oLitEnd + seq.matchLength > m.cap THEN Fail(Error.dstSize_tooSmall)
     ELSE IF m.litPtr + seq.litLength > Len(m.lit) THEN Fail(Error.corruption_detected)
     ELSE IF oLitEnd > m.cap - WILDCOPY_OVERLENGTH THEN ZSTD_execSequenceLast7(m, seq)
     ELSE Roomy(m, seq)

ZSTD_execSequence(m, seq) ==
  LET Roomy(d, s) == ExecRoomy(d, s, MINMATCH)
  IN Checked(m, seq, Roomy)

\* The same from the place of the match that decodeSequenceLong foretold.
ZSTD_execSequenceLong(m, seq) ==
  LET Roomy(d, s) ==
        IF s.offset > d.op + s.litLength + Len(d.ext) THEN Fail(Error.corruption_detected)
        ELSE ExecRoomy(d, [s EXCEPT !.offset = d.op + s.litLength - s.match], MINMATCH)
  IN Checked(m, seq, Roomy)

-----------------------------------------------------------------------------
\* Decoding sequences.

\* An offset of one bit or none recalls a recent one, the next one when no literals
\* come before; 3 is the most recent one less 1.
ChooseOffset(rep, value, bits, noLiterals) ==
  LET n == value + (IF noLiterals THEN 1 ELSE 0)
      kept == IF n = 3 THEN rep[1] - 1 ELSE rep[n + 1]
  IN IF bits > 1 THEN Pushed(rep, value) ELSE Recalled(rep, n, Larger(kept, 1))

\* The bits of an offset of which only some fit the container: first of them high,
\* the others behind a reload.
SplitOffset(st, of, first) ==
  LET rest == of.bits - first
      high == Look(st, first)
      s == Refilled(Skip(st, first), TRUE, BIT_reloadDStream)
  IN [value |-> of.base + high * 2 ^ rest + Look(s, rest), st |-> Skip(s, rest)]

STREAM_ACCUMULATOR_MIN_32 == 25

ZSTD_decodeSequence(st, long) ==
  LET ll == st.ll.cell[st.x]
      ReadOffset(s, of) ==
        IF Word = 4 /\ long /\ of.bits >= STREAM_ACCUMULATOR_MIN_32
        THEN SplitOffset(s, of, Smaller(of.bits, 32 - s.d.consumed))
        ELSE PlainOffset(s, of, BIT_reloadDStream)
      Offset(rep, value, bits) == ChooseOffset(rep, value, bits, ll.base = 0)
  IN CodedSequence(st, ll, st.of.cell[st.y], st.ml.cell[st.z], 20, TRUE, ReadOffset, Offset,
                   BIT_reloadDStream)

\* match is the place of the match from the base on, below 0 in the segment before.
ZSTD_decodeSequenceLong(st, long) ==
  LET ll == st.ll.cell[st.x]
      ReadOffset(s, of) ==
        IF Word = 4 /\ long /\ of.bits > 0
        THEN SplitOffset(s, of, Smaller(of.bits, STREAM_ACCUMULATOR_MIN_32 - 1))
        ELSE PlainOffset(s, of, BIT_reloadDStream)
      Offset(rep, value, bits) == ChooseOffset(rep, value, bits, ll.base = 0)
      r == CodedSequence(st, ll, st.of.cell[st.y], st.ml.cell[st.z], 20, TRUE, ReadOffset,
                         Offset, BIT_reloadDStream)
      pos == st.pos + r.seq.litLength
  IN [st |-> [r.st EXCEPT !.pos = pos + r.seq.matchLength],
      seq |-> [offset |-> r.seq.offset, litLength |-> r.seq.litLength,
               matchLength |-> r.seq.matchLength, match |-> pos - r.seq.offset]]

\* Behind the last sequence nothing is asked of the stream.
AllSequences(r) == r.left = 0
KeepRecent(ctx, st) == [ctx EXCEPT !.rep = st.rep, !.fseEntropy = TRUE]
SameStates(st) == st

ZSTD_decompressSequences(ctx, src, cap, long) ==
  LET Decode(st) == ZSTD_decodeSequence(st, long)
  IN IF ctx.nbSeq = 0 THEN NoSequences(ctx, cap)
     ELSE WithSequences(ctx, src, cap, BIT_initDStream, BIT_reloadDStream, SameStates, Decode,
                        ZSTD_execSequence, AllSequences, KeepRecent)

\* Four sequences are decoded ahead of the one that is executed.
ADVANCED_SEQS == 4

RegenerateAhead(m, st, n, Decode(_)) ==
  LET RECURSIVE Ahead(_, _, _, _), Drain(_, _)
      Drain(dst, queue) ==
        LET e == ZSTD_execSequenceLong(dst, Head(queue))
        IN IF queue = <<>> THEN dst
           ELSE IF IsError(e.ret) THEN e ELSE Drain(e, Tail(queue))
      Ahead(dst, states, queue, k) ==
        LET r == Refilled(states, TRUE, BIT_reloadDStream)
            s == Decode(r)
            e == ZSTD_execSequenceLong(dst, Head(queue))
            done == Drain(dst, queue)
        IN IF k = 0
           THEN IF IsError(done.ret) THEN done ELSE [ret |-> 0, m |-> done, st |-> r, left |-> 0]
           ELSE IF r.d.status > Completed THEN Fail(Error.corruption_detected)
           ELSE IF Len(queue) < ADVANCED_SEQS THEN Ahead(dst, s.st, Append(queue, s.seq), k - 1)
           ELSE IF IsError(e.ret) THEN e
           ELSE Ahead(e, s.st, Append(Tail(queue), s.seq), k - 1)
  IN Ahead(m, st, <<>>, n)

ZSTD_decompressSequencesLong(ctx, src, cap, long) ==
  LET Decode(st) == ZSTD_decodeSequenceLong(st, long)
      d == BIT_initDStream(src)
      r == RegenerateAhead(Destination(ctx, cap), InitStates(ctx, d, BIT_reloadDStream),
                           ctx.nbSeq, Decode)
  IN IF IsError(d.ret) THEN Fail(Error.corruption_detected)
     ELSE IF IsError(r.ret) THEN r
     ELSE LastLiterals(KeepRecent(ctx, r.st), r.m)

\* Of 2 ^ OffFSELog, the share of offsets of more than 22 bits.
ZSTD_getLongOffsetsShare(of) ==
  Cardinality({u \in DOMAIN of.cell : of.cell[u].bits > 22}) * 2 ^ (OffFSELog - of.tableLog)

\* Behind the headers: ahead when the window is large and far matches are many.
DecodeBody(ctx, src, cap, frame) ==
  LET long == Word = 4 /\ (~frame \/ ctx.params.window > 2 ^ STREAM_ACCUMULATOR_MIN_32)
  IN IF /\ ~frame \/ ctx.params.window > 2 ^ 24
        /\ ctx.nbSeq > 0
        /\ ZSTD_getLongOffsetsShare(ctx.of) >= (IF Word = 8 THEN 7 ELSE 20)
     THEN ZSTD_decompressSequencesLong(ctx, src, cap, long)
     ELSE ZSTD_decompressSequences(ctx, src, cap, long)

ZSTD_decompressBlock_internal(ctx, src, cap, frame) ==
  LET Body(litSize, c) == DecodeBody(c, From(src, litSize + c.ret), cap, frame)
      Headers(c) == LET AfterHeaders(h) == Body(c.ret, h)
                    IN Then(ZSTD_decodeSeqHeaders(c, From(src, c.ret)), AfterHeaders)
  IN IF Len(src) >= BLOCKSIZE_MAX THEN Fail(Error.srcSize_wrong)
     ELSE Then(ZSTD_decodeLiteralsBlock(ctx, src), Headers)

\* A block of its own, into a destination of room bytes that may follow the last.
ZSTD_decompressBlock(ctx, src, room, follows) ==
  LET c == CheckContinuity(ctx, follows)
  IN ZSTD_decompressBlock_internal(c, src, c.op + room, FALSE)
ZSTD_insertBlockForgets(ctx, block, follows) ==
  Returns(CheckContinuity(ctx, follows), Len(block))
ZSTD_insertBlock(ctx, block, follows) ==
  LET c == CheckContinuity(ctx, follows)
  IN [c EXCEPT !.ret = Len(block), !.op = @ + Len(block), !.out = Write(@, c.op, block)]

=============================================================================
