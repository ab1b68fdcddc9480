------------------------------ MODULE ZstdFrame ------------------------------
(***************************************************************************)
(* zstd_decompress.c, from blocks to frames: frame headers, a frame in one *)
(* call (ZSTD1_decompressFrame), piece by piece (ZSTD1_decompressContinue) *)
(* and dictionaries.                                                       *)
(***************************************************************************)
EXTENDS Zstd

MAGICNUMBER == <<40, 181, 47, 253>>
MAGIC_DICTIONARY == <<55, 164, 48, 236>>
IsSkippableMagic(src) ==
  Byte(src, 0) \div 16 = 5 /\ Byte(src, 1) = 42 /\ Byte(src, 2) = 77 /\ Byte(src, 3) = 24
frameHeaderSize_prefix == 5
frameHeaderSize_min == 6
blockHeaderSize == 3
skippableHeaderSize == 8
frameIdSize == 4
WINDOWLOG_ABSOLUTEMIN == 10
WINDOWLOG_MAX == IF Word = 4 THEN 30 ELSE 31
LE32(src, at) == Field(src, 8 * at, 32)
\* MEM_readLE64; TLC's integers hold sizes below 2^31.
LE64(src, at) ==
  LET high == LE32(src, at + 4)
  IN LE32(src, at) + (IF high = 0 THEN 0 ELSE high * 2^16 * 2^16)

\* XXH64_digest, the four bytes of it that are kept: some function of the content.
Digest(bytes) ==
  LET Hash[i \in 0 .. Len(bytes)] ==
        IF i = 0 THEN 1 ELSE (Hash[i - 1] * 31 + bytes[i]) % 65521
  IN <<Hash[Len(bytes)] % 256, Hash[Len(bytes)] \div 256, Len(bytes) % 256, 0>>

-----------------------------------------------------------------------------
\* Headers.

\* The fields the descriptor byte announces.
Descriptor(src) ==
  LET fhd == Byte(src, frameHeaderSize_prefix - 1)
  IN [dictID |-> fhd % 4, cksum |-> (fhd \div 4) % 2 = 1, reserved |-> (fhd \div 8) % 2 = 1,
      single |-> (fhd \div 32) % 2 = 1, fcs |-> fhd \div 64]
did_fieldSize == <<0, 1, 2, 4>>
fcs_fieldSize == <<0, 2, 4, 8>>

ZSTD_frameHeaderSize_internal(src) ==
  LET f == Descriptor(src)
  IN IF Len(src) < frameHeaderSize_prefix THEN Error.srcSize_wrong
     ELSE frameHeaderSize_prefix + (IF f.single THEN 0 ELSE 1) + did_fieldSize[f.dictID + 1]
          + fcs_fieldSize[f.fcs + 1] + (IF f.single /\ f.fcs = 0 THEN 1 ELSE 0)

\* ret is 0, or the bytes it takes to tell, or an error.
SkippableHeader(src) ==
  IF Len(src) < skippableHeaderSize THEN [ret |-> skippableHeaderSize]
  ELSE [ret |-> 0, params |-> [NoParams EXCEPT !.fcs = LE32(src, frameIdSize)],
        skippable |-> TRUE, size |-> 0]

FullHeader(src) ==
  LET f == Descriptor(src)
      size == ZSTD_frameHeaderSize_internal(src)
      at == frameHeaderSize_prefix + (IF f.single THEN 0 ELSE 1)
      wl == Byte(src, frameHeaderSize_prefix)
      log == (wl \div 8) + WINDOWLOG_ABSOLUTEMIN
      n == did_fieldSize[f.dictID + 1]
      fcs == CASE f.fcs = 0 -> IF f.single THEN Byte(src, at + n) ELSE -1
               [] f.fcs = 1 -> LE16(src, at + n) + 256
               [] f.fcs = 2 -> LE32(src, at + n)
               [] f.fcs = 3 -> LE64(src, at + n)
  IN IF Len(src) < size THEN [ret |-> size]
     ELSE IF f.reserved THEN Fail(Error.frameParameter_unsupported)
     ELSE IF ~f.single /\ log > WINDOWLOG_MAX THEN Fail(Error.windowTooLarge)
     ELSE [ret |-> 0, size |-> size, skippable |-> FALSE,
           params |-> [window |-> IF f.single THEN fcs
                                  ELSE 2 ^ log + 2 ^ (log - 3) * (wl % 8),
                       fcs |-> fcs, cksum |-> f.cksum, dictID |-> Field(src, 8 * at, 8 * n)]]

ZSTD_getFrameHeader_internal(src) ==
  IF Len(src) < frameHeaderSize_prefix THEN [ret |-> frameHeaderSize_prefix]
  ELSE IF Slice(src, 0, 4) = MAGICNUMBER THEN FullHeader(src)
  ELSE IF IsSkippableMagic(src) THEN SkippableHeader(src)
  ELSE Fail(Error.prefix_unknown)

ZSTD_decodeFrameHeader(ctx, src) ==
  LET h == ZSTD_getFrameHeader_internal(src)
  IN IF IsError(h.ret) THEN h
     ELSE IF h.ret > 0 THEN Fail(Error.srcSize_wrong)
     ELSE IF h.params.dictID # 0 /\ ctx.dictID # h.params.dictID
     THEN Fail(Error.dictionary_wrong)
     ELSE [ctx EXCEPT !.ret = 0, !.params = h.params]

\* blockType_e
bt_raw == 0
bt_rle == 1
bt_compressed == 2
bt_reserved == 3

ZSTD_getcBlockSize(src) ==
  LET type == Field(src, 1, 2)
      size == Field(src, 3, 21)
  IN IF Len(src) < blockHeaderSize THEN Fail(Error.srcSize_wrong)
     ELSE IF type = bt_reserved THEN Fail(Error.corruption_detected)
     ELSE [ret |-> IF type = bt_rle THEN 1 ELSE size, type |-> type, origSize |-> size,
           last |-> Field(src, 0, 1) = 1, ends |-> FALSE]

-----------------------------------------------------------------------------
\* A frame in one call.

ZSTD_decodeBlock(ctx, h, body, cap) ==
  CASE h.type = bt_compressed -> ZSTD_decompressBlock_internal(ctx, body, cap, TRUE)
    [] h.type = bt_raw        -> CopyRawBlock(ctx, body, cap)
    [] h.type = bt_rle        -> Repeated(ctx, Byte(body, 0), h.origSize, cap)

\* [ret, out, read]: out is the destination, what is written too much included.
ZSTD_decompressFrame(ctx, src, cap) ==
  LET size == ZSTD_frameHeaderSize_internal(Slice(src, 0, frameHeaderSize_prefix))
      Decode(c, h, body) == ZSTD_decodeBlock(c, h, body, cap)
      Verified(r) ==
        LET params == r.ctx.params
        IN IF params.fcs # -1 /\ params.fcs # r.ctx.op THEN Fail(Error.corruption_detected)
           ELSE IF params.cksum /\ \/ Len(src) - r.ret < 4
                                   \/ Slice(src, r.ret, 4) # Digest(Slice(r.ctx.out, 0, r.ctx.op))
           THEN Fail(Error.checksum_wrong)
           ELSE [ret |-> r.ctx.op, out |-> r.ctx.out,
                 read |-> r.ret + (IF params.cksum THEN 4 ELSE 0)]
      AllBlocks(c) == Then(BlocksFrom(c, src, size, blockHeaderSize, ZSTD_getcBlockSize, Decode), Verified)
  IN IF Len(src) < frameHeaderSize_min + blockHeaderSize \/ Len(src) < size + blockHeaderSize
     THEN Fail(Error.srcSize_wrong)
     ELSE Then(ZSTD_decodeFrameHeader(ctx, Slice(src, 0, size)), AllBlocks)

\* Where blocks end that are passed over, not decoded.
PassBlock(c, h, body) == c
SizeWithoutChecksum(src) ==
  LET h == ZSTD_getFrameHeader_internal(src)
  IN IF Len(src) >= skippableHeaderSize /\ IsSkippableMagic(src)
     THEN [ret |-> skippableHeaderSize + LE32(src, frameIdSize)]
     ELSE IF h.ret > 0 THEN Fail(Error.srcSize_wrong)
     ELSE IF IsError(h.ret) THEN h
     ELSE [ret |-> BlocksFrom(NewContext, src, h.size, blockHeaderSize, ZSTD_getcBlockSize, PassBlock).ret]
ZSTD_findFrameCompressedSize(src) ==
  LET h == ZSTD_getFrameHeader_internal(src)
      Ends(r) == IF ~h.params.cksum THEN [ret |-> r.ret]
                 ELSE IF Len(src) - r.ret < 4 THEN Fail(Error.srcSize_wrong)
                 ELSE [ret |-> r.ret + 4]
  IN IF Len(src) >= skippableHeaderSize /\ IsSkippableMagic(src)
     THEN [ret |-> skippableHeaderSize + LE32(src, frameIdSize)]
     ELSE IF h.ret > 0 THEN Fail(Error.srcSize_wrong)
     ELSE IF IsError(h.ret) THEN h
     ELSE Then(BlocksFrom(NewContext, src, h.size, blockHeaderSize, ZSTD_getcBlockSize, PassBlock), Ends)

-----------------------------------------------------------------------------
\* Dictionaries.

ZSTD_refDictContent(ctx, dict) ==
  [ctx EXCEPT !.ext = Slice(ctx.out, 0, ctx.op), !.out = dict, !.op = Len(dict), !.ret = 0]

\* One table of the entropy tables at r.at.
EntropyTable(dict, at, max, maxLog, bases, bits) ==
  LET n == FSE_readNCount(From(dict, at), max)
  IN IF IsError(n.ret) \/ n.tableLog > maxLog THEN Fail(Error.dictionary_corrupted)
     ELSE [ret |-> at + n.ret, table |-> ZSTD_buildFSETable(n.norm, n.tableLog, bases, bits)]

ZSTD_loadEntropy(ctx, dict) ==
  LET huf == HUF_readDTableX4(From(dict, 8))
      WithHuf(h) ==
        Then(EntropyTable(dict, 8 + h.ret, MaxOff, OffFSELog, OF_base, OF_bits), LAMBDA of :
        Then(EntropyTable(dict, of.ret, MaxML, MLFSELog, ML_base, ML_bits), LAMBDA ml :
        Then(EntropyTable(dict, ml.ret, MaxLL, LLFSELog, LL_base, LL_bits), LAMBDA ll :
          LET content == Len(dict) - (ll.ret + 12)
              rep == [i \in 1 .. 3 |-> LE32(dict, ll.ret + 4 * (i - 1))]
          IN IF content < 0 \/ \E i \in 1 .. 3 : rep[i] = 0 \/ rep[i] >= content
             THEN Fail(Error.dictionary_corrupted)
             ELSE [ctx EXCEPT !.ret = ll.ret + 12, !.huf = huf, !.of = of.table, !.ml = ml.table,
                              !.ll = ll.table, !.rep = rep])))
  IN IF Len(dict) <= 8 \/ IsError(huf.ret) THEN Fail(Error.dictionary_corrupted) ELSE WithHuf(huf)

IsDictionary(dict) == Len(dict) >= 8 /\ Slice(dict, 0, 4) = MAGIC_DICTIONARY

ZSTD_decompress_insertDictionary(ctx, dict) ==
  LET Content(c) == [ZSTD_refDictContent(c, From(dict, c.ret)) EXCEPT
                       !.litEntropy = TRUE, !.fseEntropy = TRUE]
  IN IF ~IsDictionary(dict) THEN ZSTD_refDictContent(ctx, dict)
     ELSE Then(ZSTD_loadEntropy([ctx EXCEPT !.dictID = LE32(dict, frameIdSize)], dict), Content)

ZSTD_decompressBegin == NewContext
ZSTD_decompressBegin_usingDict(dict) ==
  IF dict = <<>> THEN ZSTD_decompressBegin
  ELSE ZSTD_decompress_insertDictionary(ZSTD_decompressBegin, dict)

\* A digested dictionary: its whole content is referred to, tables included.
ZSTD_loadEntropy_inDDict(dict, full) ==
  IF ~IsDictionary(dict)
  THEN IF full THEN Fail(Error.dictionary_corrupted) ELSE [NewContext EXCEPT !.out = dict]
  ELSE LET Present(c) == [c EXCEPT !.out = dict, !.litEntropy = TRUE, !.fseEntropy = TRUE]
       IN Then(ZSTD_loadEntropy([NewContext EXCEPT !.dictID = LE32(dict, frameIdSize)], dict), Present)
ZSTD_decompressBegin_usingDDict(ddict) ==
  [ddict EXCEPT !.op = Len(ddict.out), !.ret = 0]

-----------------------------------------------------------------------------
\* Piece by piece: a decoder is its context, a stage and how many bytes it expects.

NewDecoder(ctx) ==
  [ret |-> 0, ctx |-> ctx, stage |-> "getFrameHeaderSize", expected |-> frameHeaderSize_prefix,
   header |-> <<>>, block |-> [type |-> bt_raw], decoded |-> <<>>]

Stage(dec, stage, expected) ==
  [dec EXCEPT !.ret = 0, !.stage = stage, !.expected = expected]

EndOfBlocks(dec) ==
  IF dec.ctx.params.cksum THEN Stage(dec, "checkChecksum", 4)
  ELSE Stage(dec, "getFrameHeaderSize", 0)

GetFrameHeaderSize(dec, src) ==
  LET size == ZSTD_frameHeaderSize_internal(src)
  IN IF IsSkippableMagic(src)
     THEN [Stage(dec, "decodeSkippableHeader", skippableHeaderSize - Len(src)) EXCEPT !.header = src]
     ELSE IF IsError(size) THEN Fail(size)
     ELSE [Stage(dec, "decodeFrameHeader", size - Len(src)) EXCEPT !.header = src]

DecodeFrameHeader(dec, src) ==
  LET Kept(c) == [Stage(dec, "decodeBlockHeader", blockHeaderSize) EXCEPT !.ctx = c]
  IN Then(ZSTD_decodeFrameHeader(dec.ctx, dec.header \o src), Kept)

DecodeBlockHeader(dec, src) ==
  LET Known(h) ==
        IF h.ret > 0
        THEN [Stage(dec, IF h.last THEN "decompressLastBlock" ELSE "decompressBlock", h.ret)
                EXCEPT !.block = h]
        ELSE IF h.last THEN EndOfBlocks(dec) ELSE Stage(dec, "decodeBlockHeader", blockHeaderSize)
  IN Then(ZSTD_getcBlockSize(src), Known)

\* The end of what is produced is where the next destination may follow, but behind
\* the last block of a frame.
DecompressBlock(dec, src, cap) ==
  LET last == dec.stage = "decompressLastBlock"
      params == dec.ctx.params
      Done(c) ==
        LET made == Slice(c.out, c.op - c.ret, c.ret)
            d == [dec EXCEPT !.ctx = c, !.decoded = @ \o made]
            next == IF last THEN EndOfBlocks(d) ELSE Stage(d, "decodeBlockHeader", blockHeaderSize)
        IN IF last /\ params.fcs # -1 /\ params.fcs # Len(d.decoded)
           THEN Fail(Error.corruption_detected)
           ELSE [next EXCEPT !.ret = c.ret]
  IN Then(ZSTD_decodeBlock(dec.ctx, dec.block, src, cap), Done)

\* room bytes at dst, which may follow what is produced so far.
ZSTD_decompressContinue(dec, src, room, follows) ==
  LET d == IF room = 0 THEN dec ELSE [dec EXCEPT !.ctx = CheckContinuity(@, follows)]
  IN IF Len(src) # dec.expected THEN Fail(Error.srcSize_wrong)
     ELSE CASE dec.stage = "getFrameHeaderSize" -> GetFrameHeaderSize(d, src)
            [] dec.stage = "decodeFrameHeader" -> DecodeFrameHeader(d, src)
            [] dec.stage = "decodeBlockHeader" -> DecodeBlockHeader(d, src)
            [] dec.stage \in {"decompressBlock", "decompressLastBlock"} ->
                 DecompressBlock(d, src, d.ctx.op + room)
            [] dec.stage = "checkChecksum" ->
                 IF src = Digest(dec.decoded) THEN Stage(d, "getFrameHeaderSize", 0)
                 ELSE Fail(Error.checksum_wrong)
            [] dec.stage = "decodeSkippableHeader" ->
                 Stage(d, "skipFrame", LE32(dec.header \o src, frameIdSize))
            [] dec.stage = "skipFrame" -> Stage(d, "getFrameHeaderSize", 0)

=============================================================================
