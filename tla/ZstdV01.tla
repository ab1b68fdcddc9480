------------------------------ MODULE ZstdV01 -------------------------------
(***************************************************************************)
(* zstd_v01.c, the decoder of format 0.1.  The literals of a block are     *)
(* decoded into the end of the destination itself, and its sequences move  *)
(* towards them: m.litPtr is then a place in m.out.                        *)
(***************************************************************************)
EXTENDS OldFormats

MAGICNUMBER01 == <<253, 47, 181, 30>>
frameHeaderSize01 == 4

-----------------------------------------------------------------------------
\* Entropy coding.

FSE1_initDStream(src) == OldInitDStream(src)
FSE1_reloadDStream(d) == BIT_reloadDStream(d)
FSE1_endOfDStream(d) == BIT_endOfDStream(d)

FSE1_readNCount(src, max) == ReadNCount(src, max, TRUE)
FSE1_buildDTable(norm, log) == FSE_buildDTable(norm, log)
FSE1_decompress_usingDTable_generic(src, cap, dt) ==
  LET Rest(m) == TailUntilEnd(m, cap, dt, FSE1_reloadDStream, FSE1_endOfDStream)
  IN UsingDTable(src, cap, dt, FSE1_initDStream, FSE1_reloadDStream, Rest)
FSE1_decompress(src, cap) ==
  OldDecompress(src, cap, FSE1_readNCount, FSE1_buildDTable, FSE1_decompress_usingDTable_generic)

HUF1_readDTable(src) ==
  LET Stats(s) == OldReadStats(s, FSE1_decompress) IN ReadDTableX2(src, HufLog, Stats)

HUF1_decodeSymbol(d, out, dt) == DecodeSymbol([d |-> d, out |-> out], dt)

\* The bitwise or of three states of a stream.
Or(statuses) ==
  (IF \E s \in statuses : s % 2 = 1 THEN 1 ELSE 0) + (IF \E s \in statuses : s >= 2 THEN 2 ELSE 0)

\* The streams take turns, a symbol each; the last symbols are those of the first.
HUF1_decompress_usingDTable(src, size, dt) ==
  LET length == [i \in 1 .. 3 |-> LE16(src, 2 * (i - 1))]
      second == 6 + length[1]
      third == second + length[2]
      fourth == third + length[3]
      d == <<FSE1_initDStream(Slice(src, 6, length[1])),
             FSE1_initDStream(Slice(src, second, length[2])),
             FSE1_initDStream(Slice(src, third, length[3])),
             FSE1_initDStream(From(src, fourth))>>
      Symbol(st) == HUF1_decodeSymbol(st.d, st.out, dt)
      Half(st) == LET two == Symbol(Symbol(st))
                  IN IF Word = 4 THEN [two EXCEPT !.d = FSE1_reloadDStream(@)] ELSE two
      \* four symbols of each stream
      Sixteen(s) == [i \in 1 .. 4 |-> Symbol(Symbol(Half([d |-> s[i], out |-> <<>>])))]
      Woven(s) == [n \in 1 .. 16 |-> s[((n - 1) % 4) + 1].out[((n - 1) \div 4) + 1]]
      RECURSIVE Loop(_, _, _), Tail1(_, _)
      Tail1(x, out) ==
        LET r == FSE1_reloadDStream(x)
            next == HUF1_decodeSymbol(r, out, dt)
        IN IF r.status < Completed /\ Len(out) < size THEN Tail1(next.d, next.out)
           ELSE IF FSE1_endOfDStream(r) THEN [ret |-> Len(out), out |-> out]
           ELSE Fail(IF Len(out) = size THEN Error.dstSize_tooSmall ELSE Error.corruption_detected)
      Loop(s, status, out) ==
        LET t == Sixteen(s)
            r == [i \in 1 .. 4 |-> FSE1_reloadDStream(t[i].d)]
        IN IF status < Completed /\ Len(out) < size - 15
           THEN Loop(r, Or({r[i].status : i \in 2 .. 4}), out \o Woven(t))
           ELSE IF status # Completed THEN Fail(Error.corruption_detected)
           ELSE Tail1(s[1], out)
      Start(s) == Loop(s, s[2].status, <<>>)
  IN IF fourth >= Len(src) THEN Fail(Error.srcSize_wrong)
     ELSE IF \E i \in 1 .. 4 : IsError(d[i].ret) THEN Fail(Error.srcSize_wrong)
     ELSE Start([d EXCEPT ![2] = FSE1_reloadDStream(@)])

HUF1_decompress(src, size) == TableThen(src, size, HUF1_readDTable, HUF1_decompress_usingDTable)

-----------------------------------------------------------------------------
\* Blocks.

ZSTDv01_getcBlockSize(src) == OldBlockSize(src)

\* The destination up to its end, where literals are put.
AtTheEnd(ctx, cap, lit) ==
  LET whole == [i \in 1 .. cap |-> IF i <= Len(ctx.out) THEN ctx.out[i] ELSE 0]
  IN [out |-> Write(whole, cap - Len(lit), lit), lit |-> <<>>, inside |-> TRUE,
      litPtr |-> cap - Len(lit), litEnd |-> cap]

\* src is what follows the header h of the literals, three bits of whose size it keeps.
ZSTD1_decompressLiterals(ctx, first, src, cap) ==
  LET litSize == BE16(src, 0) + 2 ^ 16 * ((first \div 8) % 8)
      r == HUF1_decompress(From(src, 2), litSize)
      whole == [i \in 1 .. litSize |-> IF i <= Len(r.out) THEN r.out[i] ELSE 0]
  IN IF Len(src) <= 3 THEN Fail(Error.corruption_detected)
     ELSE IF litSize > cap - ctx.op THEN Fail(Error.dstSize_tooSmall)
     ELSE IF IsError(r.ret) THEN Fail(Error.GENERIC)
     ELSE [ret |-> blockHeaderSize + Len(src), at |-> AtTheEnd(ctx, cap, whole)]

\* Where the literals are, [ret, at].
ZSTDv01_decodeLiteralsBlock(ctx, src, cap) ==
  LET h == ZSTDv01_getcBlockSize(src)
      body == From(src, blockHeaderSize)
  IN IF IsError(h.ret) THEN h
     ELSE IF h.ret > Len(body) THEN Fail(Error.srcSize_wrong)
     ELSE CASE h.type = old_raw ->
                 [ret |-> blockHeaderSize + h.ret,
                  at |-> [out |-> ctx.out, lit |-> body, inside |-> FALSE, litPtr |-> 0,
                          litEnd |-> h.ret]]
            [] h.type = old_rle ->
                 IF h.origSize > cap - ctx.op THEN Fail(Error.dstSize_tooSmall)
                 ELSE [ret |-> blockHeaderSize + 1,
                       at |-> AtTheEnd(ctx, cap, [i \in 1 .. h.origSize |-> body[1]])]
            [] h.type = old_compressed ->
                 ZSTD1_decompressLiterals(ctx, Byte(src, 0), Slice(body, 0, h.ret), cap)
            [] h.type = old_end -> Fail(Error.GENERIC)

ZSTDv01_decodeSeqHeaders(ctx, src) ==
  EarlySeqHeaders(ctx, src, 256, FSE1_readNCount, FSE1_buildDTable)

\* A length code at its maximum goes on in the dumps as far as there are any.
DumpLength1(st, code, max, src) ==
  LET left == st.dumpsEnd - st.dumps
      add == IF left > 0 THEN Byte(src, st.dumps) ELSE 0
      at == st.dumps + Smaller(left, 1)
  IN IF code # max THEN [value |-> code, dumps |-> st.dumps]
     ELSE IF add < 255 THEN [value |-> max + add, dumps |-> at]
     ELSE IF at <= st.dumpsEnd - 3 THEN [value |-> LE24(src, at), dumps |-> at + 3]
     ELSE [value |-> max, dumps |-> at]

ZSTD1_decodeSequence(st, src) ==
  LET Length(s, code, max) == DumpLength1(s, code, max, src)
      Prefix(code) == 2 ^ (code - 1)
  IN DumpSequence(st, DumpMax, MINMATCH4, TRUE, Prefix, Length, FSE1_reloadDStream)

\* wildcopy writes nothing when nothing is to be copied.
ZSTD1_copyMatch(out, at, dist, length, cap) ==
  IF length <= 8 /\ at + length <= cap - (16 - MINMATCH4) THEN EightBytes(out, at, dist).out
  ELSE CopyMatch(out, at, dist, length, cap, MINMATCH4)

\* Literals yet to be used that the copy of a match may write over are saved.
ZSTD1_execSequence(m, seq) ==
  LET oLitEnd == m.op + seq.litLength
      end == oLitEnd + seq.matchLength
      litEnd == m.litPtr + seq.litLength
      gap == m.litPtr - m.op
      bounded == (m.inside /\ (gap < 8 \/ m.cap - litEnd < 8)) \/ oLitEnd > m.cap - 8
      n == IF bounded THEN seq.litLength ELSE 8 * ((seq.litLength + 7) \div 8)
      lit == Bytes(IF m.inside THEN m.out ELSE m.lit, m.litPtr, n)
      out == Write(m.out, m.op, lit)
      overlapRisk == m.inside /\ litEnd - end \in 0 .. 11
      saved == Slice(out, end, Smaller(12, m.cap - end))
      copied == ZSTD1_copyMatch(out, oLitEnd, seq.offset, seq.matchLength, m.cap)
  IN IF end > m.cap THEN Fail(Error.dstSize_tooSmall)
     ELSE IF litEnd > m.litEnd THEN Fail(Error.corruption_detected)
     ELSE IF m.inside /\ seq.matchLength > gap THEN Fail(Error.dstSize_tooSmall)
     ELSE IF m.cap - oLitEnd < 8 THEN Fail(Error.dstSize_tooSmall)
     ELSE IF seq.offset > oLitEnd THEN Fail(Error.corruption_detected)
     ELSE [m EXCEPT !.ret = end - m.op, !.op = end, !.litPtr = litEnd,
                    !.out = IF overlapRisk THEN Write(copied, end, saved) ELSE copied]

ZSTD1_decompressSequences(ctx, src, cap, at) ==
  LET Decode(st) == ZSTD1_decodeSequence(st, src)
      m == [ret |-> 0, op |-> ctx.op, out |-> at.out, cap |-> cap, lit |-> at.lit,
            litPtr |-> at.litPtr, litEnd |-> at.litEnd, inside |-> at.inside]
      Finish(r) ==
        LET left == r.m.litEnd - r.m.litPtr
            lit == Slice(IF at.inside THEN r.m.out ELSE at.lit, r.m.litPtr, left)
        IN IF ~FSE1_endOfDStream(r.st.d) THEN Fail(Error.corruption_detected)
           ELSE IF r.m.op + left > cap THEN Fail(Error.dstSize_tooSmall)
           ELSE [ctx EXCEPT !.ret = r.m.op + left - ctx.op, !.op = r.m.op + left,
                            !.out = Write(r.m.out, r.m.op, lit)]
      Body(c) ==
        LET d == FSE1_initDStream(From(src, c.ret))
            First(s) == [s EXCEPT !.offset = 0, !.prevOffset = 1]
        IN IF IsError(d.ret) THEN Fail(Error.corruption_detected)
           ELSE Then(Regenerate(m, First(InitStates(c, d, FSE1_reloadDStream)), c.nbSeq,
                                FSE1_reloadDStream, Decode, ZSTD1_execSequence), Finish)
  IN Then(ZSTDv01_decodeSeqHeaders(ctx, src), Body)

ZSTD1_decompressBlock(ctx, src, cap) ==
  LET Sequences(l) == ZSTD1_decompressSequences(ctx, From(src, l.ret), cap, l.at)
  IN Then(ZSTDv01_decodeLiteralsBlock(ctx, src, cap), Sequences)

ZSTD1_decodeBlock(ctx, h, body, cap) ==
  CASE h.type = old_compressed -> ZSTD1_decompressBlock(ctx, body, cap)
    [] h.type = old_raw        -> CopyRawBlock(ctx, body, cap)
    [] h.type = old_rle        -> Fail(Error.GENERIC)

-----------------------------------------------------------------------------
\* Frames.

ZSTDv01_decompressDCtx(src, cap) ==
  LET Decode(c, h, body) == ZSTD1_decodeBlock(c, h, body, cap)
  IN IF Len(src) < frameHeaderSize01 + blockHeaderSize THEN Fail(Error.srcSize_wrong)
     ELSE IF Slice(src, 0, 4) # MAGICNUMBER01 THEN Fail(Error.prefix_unknown)
     ELSE FrameUpToEmpty(NewContext, src, frameHeaderSize01, Decode)

ZSTDv01_findFrameCompressedSize(src) ==
  IF Len(src) < frameHeaderSize01 + blockHeaderSize THEN Fail(Error.srcSize_wrong)
  ELSE IF Slice(src, 0, 4) # MAGICNUMBER01 THEN Fail(Error.prefix_unknown)
  ELSE SizeUpToEmpty(src, frameHeaderSize01)

NewDecoder01 == OldDecoder(NewContext, "getFrameHeader", frameHeaderSize01)

ZSTDv01_decompressContinue(dec, src, room, follows) ==
  LET d == [dec EXCEPT !.ctx = [CheckContinuity(@, follows) EXCEPT !.ext = <<>>]]
      bp == ZSTDv01_getcBlockSize(src)
  IN IF Len(src) # dec.expected THEN Fail(Error.srcSize_wrong)
     ELSE CASE dec.stage = "getFrameHeader" ->
                 IF Slice(src, 0, 4) # MAGICNUMBER01 THEN Fail(Error.prefix_unknown)
                 ELSE Stage(d, "decodeBlockHeader", blockHeaderSize)
            [] dec.stage = "decodeBlockHeader" ->
                 IF bp.type = old_end THEN Stage(d, "getFrameHeader", 0)
                 ELSE [Stage(d, "decompressBlock", bp.ret) EXCEPT !.block = bp]
            [] dec.stage = "decompressBlock" ->
                 OldDecompressBlock(d, src, d.ctx.op + room, ZSTD1_decodeBlock)

=============================================================================
