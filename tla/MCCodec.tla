------------------------------ MODULE MCCodec -------------------------------
(***************************************************************************)
(* Codec for TLC: the formats' encoders and decoders for its operators,    *)
(* and small contents for every way a block can be written.                *)
(***************************************************************************)
EXTENDS Codec, ZstdC, LegacyWriter

MCMeaningOf(blocks, dict) == LET b == blocks IN ContentOf(b, dict)
MCWriteOld(c) == LET x == c IN LegacyFrame(x.version, x.params, x.blocks, x.dict)
MCBegin(c) ==
  LET pledged == Len(ContentOf(c.blocks, c.dict.content)) + c.pledged
  IN [ret |-> 0, overflow |-> FALSE, cctx |-> ZSTD_compressBegin_internal(c.params, c.dict.bytes, pledged)]
Result(r) == IF r.ret < 0 THEN [ret |-> r.ret, out |-> <<>>, overflow |-> FALSE]
             ELSE [ret |-> r.ret, out |-> r.out, overflow |-> r.cctx.overflow, cctx |-> r.cctx]
MCContinue(e, cap, blocks) ==
  LET b == blocks IN Result(ZSTD_compressContinue(e.cctx, cap, b))
MCEnd(e, cap, blocks) == LET b == blocks IN Result(ZSTD_compressEnd(e.cctx, cap, b))
MCOneBlock(e, cap, block) == LET b == block IN ZSTD_compressBlock(e.cctx, cap, b)
MCOnePass(src, room, dict, digested) ==
  LET s == src
  IN IF digested THEN ZSTD_decompress_usingDDict(s, room, dict)
     ELSE ZSTD_decompress_usingDict(s, room, dict)
MCSizeOfFrame(version, src) ==
  LET s == src IN (IF version \in 1 .. 7 THEN FindFrameCompressedSizeLegacy(version, s)
                   ELSE ZSTD_findFrameCompressedSize(s))
MCStartReading(version, dict) ==
  LET d == dict
  IN CASE version = 1 -> NewDecoder01 [] version = 2 -> NewDecoder02 [] version = 3 -> NewDecoder03
       [] version = 4 -> NewDecoder04(NewContext)
       [] version = 5 -> NewDecoder05(ZSTDv05_decompressBegin_usingDict(d))
       [] version = 6 -> NewDecoder06(ZSTDv06_decompressBegin_usingDict(d))
       [] version = 7 -> NewDecoder07(ZSTDv07_decompressBegin_usingDict(d))
       [] OTHER -> NewDecoder(ZSTD_decompressBegin_usingDict(d))
MCRead(version, d, src, room, follows) ==
  LET s == src
  IN CASE version = 1 -> ZSTDv01_decompressContinue(d, s, room, follows)
       [] version = 2 -> ZSTDv02_decompressContinue(d, s, room, follows)
       [] version = 3 -> ZSTDv03_decompressContinue(d, s, room, follows)
       [] version = 4 -> ZSTDv04_decompressContinue(d, s, room, follows)
       [] version = 5 -> ZSTDv05_decompressContinue(d, s, room, follows)
       [] version = 6 -> ZSTDv06_decompressContinue(d, s, room, follows)
       [] version = 7 -> ZSTDv07_decompressContinue(d, s, room, follows)
       [] OTHER -> ZSTD_decompressContinue(d, s, room, follows)
MCReadBlock(d, src, room, follows) ==
  LET s == src
      c == ZSTD_decompressBlock(d.ctx, s, room, follows)
  IN IF c.ret < 0 THEN c ELSE [d EXCEPT !.ret = c.ret, !.ctx = c]
MCSkipBlock(d, block, follows) ==
  LET s == block
      c == ZSTD_insertBlock(d.ctx, s, follows)
  IN [d EXCEPT !.ret = c.ret, !.ctx = c]

-----------------------------------------------------------------------------
\* Contents.

Few == <<0, 1, 0, 2, 0, 3, 1, 0, 0, 4, 0, 1, 2, 0, 0, 1, 0, 5, 0, 0, 1, 0, 0, 2, 0, 1, 0, 3, 0,
         0, 1, 2, 0, 0, 0, 1, 0, 0>>
More == Few \o Few \o Few
Wide(n) == [i \in 1 .. n |-> (i * i) % 40]
Same(n) == [i \in 1 .. n |-> 7]

M(ll, ml, off) == [ll |-> ll, ml |-> ml, off |-> off]
Matches == <<M(4, 5, 1), M(0, 6, 3), M(2, 9, 3), M(7, 20, 12), M(1, 4, 7), M(1, 4, 7), M(0, 4, 12),
             M(0, 4, 11)>>
Far == <<M(4, 5, 15)>> \o Matches
Alike == <<M(8, 5, 6), M(8, 5, 6), M(8, 5, 6)>>
Large == <<M(64, 140, 50), M(90, 60, 50), M(7, 4, 200)>>
Many == [k \in 1 .. 70 |-> M(1 + (k % 2), 3 + ((k * k) % 9),
                             IF k < 9 THEN 1 + (k % 2) ELSE 1 + ((k * k) % 11))]

Block(kind, lit, tables, literals, seqs) ==
  [kind |-> kind, lit |-> lit, tables |-> tables, literals |-> literals, seqs |-> seqs,
   recalls |-> TRUE]
Found(literals, seqs) == Block("new", "", "", literals, seqs)
Plainly(literals, seqs) == [Found(literals, seqs) EXCEPT !.recalls = FALSE]
Raw(literals) == Block("raw", "", "", literals, <<>>)
Old(lit, tables, literals, seqs) == Block("compressed", lit, tables, literals, seqs)

-----------------------------------------------------------------------------
\* Frames.

Fast == [fast |-> TRUE, plainLiterals |-> FALSE, windowLog |-> 20, contentSize |-> TRUE,
         checksum |-> FALSE, noDictID |-> FALSE]
Slow == [fast |-> FALSE, plainLiterals |-> FALSE, windowLog |-> 26, contentSize |-> FALSE,
         checksum |-> FALSE, noDictID |-> FALSE]
Summed == [Fast EXCEPT !.checksum = TRUE]

New(params, dict, pledged, blocks) ==
  [version |-> 8, params |-> params, dict |-> dict, pledged |-> pledged, blocks |-> blocks]
OldCase(version, sized, dict, blocks) ==
  [version |-> version, params |-> sized, dict |-> dict, pledged |-> 0, blocks |-> blocks]
SkippableCase(n) ==
  [version |-> 0, params |-> FALSE, dict |-> NoDict, pledged |-> 0,
   blocks |-> <<83, 42, 77, 24>> \o LE(n, 4) \o Same(n)]

\* A dictionary with tables for all symbols, as ZDICT1_finalizeDictionary writes it.
Sample == Wide(40) \o Few \o Few \o <<255>>
NewDict ==
  LET huf == CodeFor(Sample)
      Table(norm, log) == FSE_writeNCount(1024, norm, log).out
  IN [content |-> Wide(60),
      bytes |-> MAGIC_DICTIONARY \o LE(300, 4) \o HUF_writeCTable(1024, huf.ct, huf.ret).out
                \o Table(OF_defaultNorm, OF_defaultNormLog) \o Table(ML_defaultNorm, ML_defaultNormLog)
                \o Table(LL_defaultNorm, LL_defaultNormLog)
                \o LE(3, 4) \o LE(9, 4) \o LE(20, 4) \o Wide(60)]

NewCases ==
  {New(Slow, NoDict, 0, <<>>), New(Summed, NoDict, 0, <<Raw(<<1, 2, 3>>)>>),
   New(Summed, NoDict, 0, <<Found(Few, Matches), Raw(Wide(9)), Plainly(Few, Matches), Found(More, Matches)>>),
   New(Slow, NoDict, 0, <<Found(Few, Matches), Plainly(Wide(30), <<M(3, 3, 40)>>), Found(Few, Matches)>>),
   New(Fast, NoDict, 0, <<Raw(Same(80)), Found(Same(90), Matches), Found(More, Alike)>>),
   New(Fast, NoDict, 0, <<Found(More, Many), Found(More, Many)>>),
   New(Slow, NoDict, 0, <<Plainly(More, Many), Found(Few, Matches)>>),
   New([Slow EXCEPT !.plainLiterals = TRUE], NoDict, 0, <<Found(Wide(300), Large)>>),
   New(Fast, NoDict, 0, <<Found(Wide(300), Large), Found(Wide(300), Large)>>),
   New(Summed, PlainDict(Wide(60)), 0, <<Found(Few, Far)>>),
   New(Fast, NewDict, 0, <<Found(Few, Far), Found(More, Matches)>>),
   New([Slow EXCEPT !.noDictID = TRUE], NewDict, 0, <<Raw(Wide(9)), Plainly(Few, Far), Raw(Same(80))>>),
   New(Fast, NoDict, 1, <<Found(Few, Matches)>>),
   New(Fast, NoDict, -1, <<Found(Few, Matches), Found(Few, Matches)>>)}

OldCases(v) ==
  {OldCase(v, TRUE, NoDict, <<Raw(Few), Old("raw", "fse", Few, Matches)>>),
   OldCase(v, TRUE, NoDict, <<Old("huf4", "fse", Few, Matches), Old("raw", "basic", Few, Matches)>>),
   OldCase(v, FALSE, NoDict, <<Old("rle", "basic", Same(38), Matches)>>),
   OldCase(v, FALSE, NoDict, <<Old("huf4", "fse", Wide(200), Large)>>)}
  \cup (IF v < 5 THEN {}
        ELSE {OldCase(v, TRUE, PlainDict(Wide(60)), <<Old("huf1", "basic", Few, Far)>>),
              OldCase(v, FALSE, CodedDict(v, Few, Wide(30) \o Few, 5, <<3, 9, 20>>),
                      <<Old("repeat", "repeat", Few, Far)>>)})

MCCases ==
  LET old == UNION {OldCases(v) : v \in 1 .. 7} IN NewCases \cup old \cup {SkippableCase(5)}
MCFollowers ==
  LET old == {OldCase(v, TRUE, NoDict, <<Old("raw", "basic", Few, Matches)>>) : v \in {3, 7}}
  IN {New(Summed, NoDict, 0, <<Found(Few, Matches)>>), SkippableCase(0)} \cup old
MCTails == {<<>>, <<1, 2, 3, 4, 5, 6>>}
=============================================================================
