----------------------------- MODULE OldFormats ------------------------------
(***************************************************************************)
(* What the decoders of formats 0.1 to 0.7 share: each has a copy of its   *)
(* own, which its module names.  Sizes are written the most significant    *)
(* bits first, and a frame ends with a block that says so.                 *)
(***************************************************************************)
EXTENDS ZstdFrame

OldInitDStream(src) ==
  IF src # <<>> /\ Byte(src, Len(src) - 1) = 0 THEN Fail(Error.GENERIC)
  ELSE BIT_initDStream(src)

\* The most significant byte first.
BE16(src, at) == Byte(src, at) * 256 + Byte(src, at + 1)
BE24(src, at) == Byte(src, at) * 65536 + BE16(src, at + 1)

-----------------------------------------------------------------------------
\* Literals of formats 0.5 to 0.7.

lbt_huffman == 0
lbt_repeat == 1
lbt_raw == 2
lbt_rle == 3

\* Two sizes of ten, fourteen or eighteen bits.
OldCodedSizes(src) ==
  LET code == (Byte(src, 0) \div 16) % 4
      first == Byte(src, 0) % 16
  IN CASE code = 2 -> [lhSize |-> 4, single |-> FALSE,
                       litSize |-> first * 1024 + (BE16(src, 1) \div 64),
                       litCSize |-> BE16(src, 2) % 2 ^ 14]
       [] code = 3 -> [lhSize |-> 5, single |-> FALSE,
                       litSize |-> first * 2 ^ 14 + (BE16(src, 1) \div 4),
                       litCSize |-> BE24(src, 2) % 2 ^ 18]
       [] OTHER    -> [lhSize |-> 3, single |-> code = 1,
                       litSize |-> first * 64 + (Byte(src, 1) \div 4),
                       litCSize |-> BE16(src, 1) % 1024]

\* Decode(single, body, size) decodes them; Keep is what is kept of its table.
OldCodedLiterals(ctx, src, Decode(_, _, _), Keep(_, _)) ==
  LET s == OldCodedSizes(src)
      r == Decode(s.single, Slice(src, s.lhSize, s.litCSize), s.litSize)
  IN IF Len(src) < 5 \/ s.litSize > BLOCKSIZE_MAX \/ s.litCSize + s.lhSize > Len(src)
     THEN Fail(Error.corruption_detected)
     ELSE IF IsError(r.ret) THEN Fail(Error.corruption_detected)
     ELSE Keep(Literals(ctx, r.out, s.litCSize + s.lhSize), r)

\* By a table known already: one stream only.
OldRepeatLiterals(ctx, src, known, Decode(_, _)) ==
  LET s == OldCodedSizes(src)
      r == Decode(Slice(src, s.lhSize, s.litCSize), s.litSize)
  IN IF ~s.single THEN Fail(Error.corruption_detected)
     ELSE IF ~known THEN Fail(Error.dictionary_corrupted)
     ELSE IF s.litCSize + s.lhSize > Len(src) THEN Fail(Error.corruption_detected)
     ELSE IF IsError(r.ret) THEN Fail(Error.corruption_detected)
     ELSE Literals(ctx, r.out, s.litCSize + s.lhSize)

OldPlainSize(src) ==
  LET code == (Byte(src, 0) \div 16) % 4
  IN CASE code = 2 -> [lhSize |-> 2, litSize |-> BE16(src, 0) % 4096]
       [] code = 3 -> [lhSize |-> 3, litSize |-> BE24(src, 0) % 2 ^ 20]
       [] OTHER    -> [lhSize |-> 1, litSize |-> Byte(src, 0) % 32]

OldRawLiterals(ctx, src) ==
  LET p == OldPlainSize(src)
  IN IF p.litSize + p.lhSize > Len(src) THEN Fail(Error.corruption_detected)
     ELSE Literals(ctx, Slice(src, p.lhSize, p.litSize), p.lhSize + p.litSize)

OldRleLiterals(ctx, src) ==
  LET p == OldPlainSize(src)
  IN IF (p.lhSize = 3 /\ Len(src) < 4) \/ p.litSize > BLOCKSIZE_MAX
     THEN Fail(Error.corruption_detected)
     ELSE Literals(ctx, [i \in 1 .. p.litSize |-> Byte(src, p.lhSize)], p.lhSize + 1)

-----------------------------------------------------------------------------
\* Sequences of formats 0.1 to 0.5: a length beyond the largest code is in the dumps.

LLmax == 63
MLmax == 127
DumpMax == [ll |-> LLmax, ml |-> MLmax]
LLbits == 6
MLbits == 7
Offbits == 5
LLDumpLog == 10
MLDumpLog == 10
OffDumpLog == 9
MINMATCH4 == 4

\* Before 0.5 a table has the type of a block, and none is repeated.
EarlyKinds == [basic |-> 1, rle |-> 2, repeat |-> 4]

\* decodeSeqHeaders of formats 0.1 to 0.4; an offset of one symbol is taken modulo offMask.
EarlySeqHeaders(ctx, src, offMask, ReadCount(_, _), Build(_, _)) ==
  LET LL(type, s) == DumpTable(type, EarlyKinds, s, LLmax, LLDumpLog, 256, 0, LLbits,
                       NoTable, FALSE, ReadCount, Build)
      OF(type, s) == DumpTable(type, EarlyKinds, s, MaxOff, OffDumpLog, offMask, 2, Offbits,
                       NoTable, FALSE, ReadCount, Build)
      ML(type, s) == DumpTable(type, EarlyKinds, s, MLmax, MLDumpLog, 256, 2, MLbits,
                       NoTable, FALSE, ReadCount, Build)
  IN IF Len(src) < 5 THEN Fail(Error.srcSize_wrong)
     ELSE DumpSeqHeaders(ctx, src, [ret |-> 2, nbSeq |-> LE16(src, 0)], LL, OF, ML)

KeepNone(ctx, st) == ctx

-----------------------------------------------------------------------------
\* Literals of formats 0.2 to 0.4.

MIN_CBLOCK_SIZE4 == 11
IS_RAW == 1
IS_RLE == 2

\* ZSTD_decompressLiterals
EarlyCodedLiterals(ctx, src, Decompress(_, _)) ==
  LET litSize == Field(src, 2, 19)
      litCSize == Field(src, 21, 19)
      r == Decompress(Slice(src, 5, litCSize), litSize)
  IN IF litSize > BLOCKSIZE_MAX \/ litCSize + 5 > Len(src) THEN Fail(Error.corruption_detected)
     ELSE IF IsError(r.ret) THEN Fail(Error.corruption_detected)
     ELSE Literals(ctx, r.out, litCSize + 5)

\* Where a wild copy could pass the end of the source they are copied first, from
\* three bytes too early.
EarlyRawLiterals(ctx, src) ==
  LET litSize == Field(src, 2, 22)
  IN IF litSize > Len(src) - 3 THEN Fail(Error.corruption_detected)
     ELSE Literals(ctx, Slice(src, IF litSize > Len(src) - 11 THEN 0 ELSE 3, litSize), litSize + 3)

EarlyRleLiterals(ctx, src) ==
  LET litSize == Field(src, 2, 22)
  IN IF litSize > BLOCKSIZE_MAX THEN Fail(Error.corruption_detected)
     ELSE Literals(ctx, [i \in 1 .. litSize |-> Byte(src, 3)], 4)

-----------------------------------------------------------------------------
\* Sequences of formats 0.6 and 0.7: the bits to add are a code's own.

\* FSE_ENCODING of formats 0.5 to 0.7.
OldKinds == [basic |-> 0, rle |-> 1, repeat |-> 2]

Coded(bases, bits, code) == [base |-> bases[code + 1], bits |-> bits[code + 1]]

\* The end of a block of format 0.6 and 0.7.
AtEnd(r) == r.left = 0

-----------------------------------------------------------------------------
\* Blocks and frames.

old_compressed == 0
old_raw == 1
old_rle == 2
old_end == 3

OldBlockSize(src) ==
  LET type == Byte(src, 0) \div 64
      size == BE24(src, 0) % 2 ^ 19
  IN IF Len(src) < blockHeaderSize THEN Fail(Error.srcSize_wrong)
     ELSE [ret |-> CASE type = old_end -> 0 [] type = old_rle -> 1 [] OTHER -> size,
           type |-> type, origSize |-> size, ends |-> type = old_end, last |-> FALSE]

\* Blocks from at on, up to the end of src; what they produce is [ret, out].
OldFrame(ctx, src, at, Decode(_, _, _)) ==
  LET Ended(r) == IF r.ret # Len(src) THEN Fail(Error.srcSize_wrong)
                  ELSE [ret |-> r.ctx.op, out |-> r.ctx.out]
  IN Then(BlocksFrom(ctx, src, at, blockHeaderSize, OldBlockSize, Decode), Ended)

\* The size of a frame whose header is at bytes; what ends it needs no more.
OldFrameSize(src, at) ==
  LET Size(r) == [ret |-> r.ret]
  IN Then(BlocksFrom(NewContext, src, at, blockHeaderSize, OldBlockSize, PassBlock), Size)

\* Formats before 0.7: a block of no bytes ends the frame, whatever its type, and only
\* behind one of the type that ends it must nothing follow.
EmptyEnds(src) ==
  LET h == OldBlockSize(src)
  IN IF IsError(h.ret) THEN h ELSE [h EXCEPT !.ends = h.ret = 0]

FrameUpToEmpty(ctx, src, at, Decode(_, _, _)) ==
  LET Ended(r) == IF Byte(src, r.ret - blockHeaderSize) \div 64 = old_end /\ r.ret # Len(src)
                  THEN Fail(Error.srcSize_wrong)
                  ELSE [ret |-> r.ctx.op, out |-> r.ctx.out]
  IN Then(BlocksFrom(ctx, src, at, blockHeaderSize, EmptyEnds, Decode), Ended)
SizeUpToEmpty(src, at) ==
  LET Size(r) == [ret |-> r.ret]
  IN Then(BlocksFrom(NewContext, src, at, blockHeaderSize, EmptyEnds, PassBlock), Size)

\* A decoder of a frame piece by piece, before its first call.
OldDecoder(ctx, stage, expected) ==
  [ret |-> 0, ctx |-> ctx, stage |-> stage, expected |-> expected, header |-> <<>>,
   block |-> [type |-> old_raw], decoded |-> <<>>]

\* The end of a block is where the next destination may follow.
OldDecompressBlock(dec, src, cap, Decode(_, _, _, _)) ==
  LET Done(c) == [Stage(dec, "decodeBlockHeader", blockHeaderSize) EXCEPT
                    !.ctx = c, !.ret = c.ret,
                    !.decoded = @ \o Slice(c.out, c.op - c.ret, c.ret)]
  IN Then(Decode(dec.ctx, dec.block, src, cap), Done)

=============================================================================
