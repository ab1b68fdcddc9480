------------------------------ MODULE DContext ------------------------------
(***************************************************************************)
(* zstd_decompress.c, the decoding context and its bufferless interface:   *)
(* ZSTD1_decompressContinue consumes exactly the bytes it asked for and    *)
(* writes one block where the caller says.  The context only remembers     *)
(* where the history is: a segment from base on, and before it a segment   *)
(* that ends at dictEnd.  A block comes out right only if every byte its   *)
(* matches may refer to is still where the context looks for it.           *)
(*                                                                         *)
(* The data: a source is a sequence of frames.  Only the place and the     *)
(* size of its elements matter to the control of a decoder, so a frame is: *)
(*   kind      Zstd, Skippable, or the number of a legacy version          *)
(*   hsize     bytes of its header (of a skippable frame: 8)               *)
(*   window, fcs, cksum   what the header says; fcs may be Unknown         *)
(*   reach     the farthest any match of the frame refers back             *)
(*   skip      bytes of a skippable frame's content                        *)
(*   at, size  where it starts in the source, and all its bytes            *)
(*   out, content   where its output starts, and the bytes it produces     *)
(*   blocks    [type, csize, rsize, at, out]: bytes in the source, bytes   *)
(*             produced, and where its header and its output start         *)
(* What a byte of output is, is told by its position in the whole output   *)
(* (1, 2, ...); the bytes of a dictionary are the negative numbers, the    *)
(* last one -1; 0 is any other byte.                                       *)
(***************************************************************************)
EXTENDS Common, Sequences, FiniteSets

CONSTANTS
  Sources,      \* the sequences of frames a decoder is given
  BlockMax,     \* ZSTD1_BLOCKSIZE_MAX
  Wildcopy,     \* WILDCOPY_OVERLENGTH
  DictSize      \* bytes of dictionary content, 0: none

Unknown == -1    \* ZSTD1_CONTENTSIZE_UNKNOWN
Zstd == 8        \* the format from v0.8 on
Skippable == 0
BlockHeader == 3 \* ZSTD1_blockHeaderSize
Checksum == 4
SkipHeader == 8  \* ZSTD1_skippableHeaderSize
HeaderMax == 18  \* ZSTD1_FRAMEHEADERSIZE_MAX
NULL == -1       \* an address; those of buffers are not negative
DictBase == NULL - 1 - DictSize   \* address of the dictionary

Block == [type : {"raw", "rle", "comp", "end"}, csize : Nat, rsize : Nat, at : Nat, out : Nat]
Frame == [kind : 0 .. Zstd, hsize : 0 .. HeaderMax, window : Nat, fcs : Nat \cup {Unknown},
          cksum : BOOLEAN, reach : Nat, skip : Nat, at : Nat, size : Nat, out : Nat,
          content : Nat, blocks : Seq(Block)]

BlockEnd(b) == b.at + BlockHeader + b.csize
FrameEnd(f) == f.at + f.size
FrameOutEnd(f) == f.out + f.content
TrailerSize(f) == IF f.cksum THEN Checksum ELSE 0

SkippableFrame(f) ==
  /\ f.hsize = SkipHeader /\ f.size = f.hsize + f.skip /\ f.window = 0
  /\ f.blocks = <<>> /\ f.content = 0 /\ ~f.cksum

\* Blocks lie one behind the other, and hold no more than a block may.
FrameOfBlocks(f) ==
  LET n == Len(f.blocks) IN
  /\ n > 0 /\ f.skip = 0 /\ f.hsize >= (IF f.kind = Zstd THEN 6 ELSE 5)
  /\ f.blocks[1].at = f.at + f.hsize /\ f.blocks[1].out = f.out
  /\ \A b, c \in 1 .. n : b < c =>
       /\ BlockEnd(f.blocks[b]) <= f.blocks[c].at
       /\ f.blocks[b].out + f.blocks[b].rsize <= f.blocks[c].out
       /\ c = b + 1 => /\ BlockEnd(f.blocks[b]) = f.blocks[c].at
                       /\ f.blocks[b].out + f.blocks[b].rsize = f.blocks[c].out
  /\ FrameEnd(f) = BlockEnd(f.blocks[n]) + TrailerSize(f)
  /\ FrameOutEnd(f) = f.blocks[n].out + f.blocks[n].rsize
  /\ \A b \in 1 .. n :
       /\ f.blocks[b].csize <= Smaller(f.window, BlockMax)
       /\ f.blocks[b].rsize <= Smaller(f.window, BlockMax)
       /\ f.blocks[b].csize = 0 => f.blocks[b].rsize = 0
  /\ f.fcs \in {Unknown, f.content} /\ f.reach <= f.window

\* So do frames: these are valid sources.
ASSUME SourceAssumption ==
  \A s \in Sources :
    /\ s \in Seq(Frame) /\ Len(s) > 0 /\ s[1].at = 0 /\ s[1].out = 0
    /\ \A i \in 1 .. Len(s) :
         IF s[i].kind = Skippable THEN SkippableFrame(s[i]) ELSE FrameOfBlocks(s[i])
    /\ \A i, j \in 1 .. Len(s) : i < j =>
         /\ FrameEnd(s[i]) <= s[j].at /\ FrameOutEnd(s[i]) <= s[j].out
         /\ j = i + 1 => FrameEnd(s[i]) = s[j].at /\ FrameOutEnd(s[i]) = s[j].out
ASSUME SizeAssumption == {BlockMax, Wildcopy, DictSize} \subseteq Nat

\* The bytes, and the output, of the first n frames.
FramesSize(s, n) == IF n = 0 THEN 0 ELSE FrameEnd(s[n])
FramesContent(s, n) == IF n = 0 THEN 0 ELSE FrameOutEnd(s[n])
SourceSize(s) == FramesSize(s, Len(s))
OutputSize(s) == FramesContent(s, Len(s))

Element(el, i, b) == [el |-> el, frame |-> i, block |-> b]
Nothing == Element("none", 0, 0)

\* The elements of a source a decoder takes one by one.
IsElement(s, e) ==
  CASE e.el = "header" -> e.block = 0
    [] e.el = "checksum" -> e.block = 0 /\ s[e.frame].cksum
    [] e.el = "block" -> e.block \in DOMAIN s[e.frame].blocks
    [] e.el = "data" -> /\ e.block \in DOMAIN s[e.frame].blocks
                        /\ s[e.frame].blocks[e.block].csize > 0
ElementSet(s) ==
  {e \in UNION {[el : {"header", "block", "data", "checksum"}, frame : {i},
                block : 0 .. Len(s[i].blocks)] : i \in DOMAIN s} : IsElement(s, e)}
Place(s, e) ==
  CASE e.el = "header" -> s[e.frame].at
    [] e.el = "checksum" -> FrameEnd(s[e.frame]) - Checksum
    [] e.el = "block" -> s[e.frame].blocks[e.block].at
    [] e.el = "data" -> s[e.frame].blocks[e.block].at + BlockHeader

\* What starts at byte p of the source s.
StartsAt(s, p) ==
  IF \E e \in ElementSet(s) : Place(s, e) = p
  THEN CHOOSE e \in ElementSet(s) : Place(s, e) = p
  ELSE Nothing

Layout == [s \in Sources |-> [p \in 0 .. SourceSize(s) |-> StartsAt(s, p)]]

\* Output produced before block b of frame i.
OutputBefore(s, e) == s[e.frame].blocks[e.block].out

-----------------------------------------------------------------------------
\* Frame headers.

HeaderPrefix == 5        \* ZSTD1_frameHeaderSize_prefix

FrameParams(window, fcs, block, sum) ==
  [windowSize |-> window, frameContentSize |-> fcs, blockSizeMax |-> block,
   checksumFlag |-> sum]

\* The header of frame i, of which n bytes are there: 0 and its parameters, the
\* number of bytes wanted, or an error.  A frame of any other format (a legacy
\* one) has an unknown prefix.
GetFrameHeader(s, i, n) ==
  LET f == s[i]
      Result(ret, params) == [ret |-> ret, params |-> params]
      none == FrameParams(0, 0, 0, FALSE)
  IN IF n < HeaderPrefix THEN Result(HeaderPrefix, none)
     ELSE IF f.kind = Skippable
          THEN IF n < SkipHeader THEN Result(SkipHeader, none)
               ELSE Result(0, FrameParams(0, f.skip, 0, FALSE))
     ELSE IF f.kind # Zstd THEN Result(Error.prefix_unknown, none)
     ELSE IF n < f.hsize THEN Result(f.hsize, none)
     ELSE Result(0, FrameParams(f.window, f.fcs, Smaller(f.window, BlockMax), f.cksum))

-----------------------------------------------------------------------------
\* History: memory m holds at each address a byte of output.

ReadAt(m, a) == IF a \in DictBase .. DictBase + DictSize - 1
                THEN a - DictBase - DictSize
                ELSE IF a \in DOMAIN m THEN m[a] ELSE 0

\* The byte of the output of frame i that lies off before its n-th (from 0).
Earlier(s, i, n, off) ==
  IF off <= n THEN FramesContent(s, i - 1) + n - off + 1 ELSE n - off

\* Where ZSTD1_execSequence looks for the byte off before address a.
MatchAddress(d, a, off) ==
  IF off <= a - d.base THEN a - off ELSE d.dictEnd - (off - (a - d.base))

\* Decoding size bytes at dst finds the history it needs.  The copies before a
\* match may have overrun their end by Wildcopy bytes.
HistoryThere(s, d, m, dst, e) ==
  LET f == s[e.frame] IN
  \A k \in 0 .. f.blocks[e.block].rsize - 1 :
    \A off \in 1 .. Smaller(f.reach, d.decodedSize + k + DictSize) :
      LET a == MatchAddress(d, dst + k, off) IN
      \/ off <= k
      \/ /\ off <= dst + k - d.vBase
         /\ a \notin dst .. dst + k + Wildcopy - 1
         /\ ReadAt(m, a) = Earlier(s, e.frame, d.decodedSize + k, off)

\* ZSTD1_decompressBlock_internal, ZSTD1_copyRawBlock and ZSTD1_setRleBlock, as
\* far as memory is concerned: the sequence coding itself is in module Sequences1.
DecodeBlock(s, d, m, dst, cap, e) ==
  LET blk == s[e.frame].blocks[e.block]
      first == OutputBefore(s, e) + 1
      good == blk.type # "comp" \/ HistoryThere(s, d, m, dst, e)
      over == IF blk.type = "comp" THEN Wildcopy ELSE 0
      At(a) == IF a \in dst .. dst + blk.rsize - 1
               THEN IF good THEN first + a - dst ELSE 0
               ELSE IF a \in dst + blk.rsize .. Smaller(dst + blk.rsize + over, dst + cap) - 1
               THEN 0 ELSE m[a]
  IN IF blk.rsize > cap THEN [ret |-> Error.dstSize_tooSmall, m |-> m]
     ELSE [ret |-> blk.rsize, m |-> [a \in DOMAIN m |-> At(a)]]

-----------------------------------------------------------------------------
\* The context.

DecompressBegin ==
  [expected |-> HeaderPrefix, stage |-> "getFrameHeaderSize", decodedSize |-> 0,
   previousDstEnd |-> NULL, base |-> NULL, vBase |-> NULL, dictEnd |-> NULL,
   headerSize |-> 0, params |-> FrameParams(0, 0, 0, FALSE), at |-> Nothing]

DecompressBeginUsingDDict ==
  IF DictSize = 0 THEN DecompressBegin
  ELSE [DecompressBegin EXCEPT !.base = DictBase, !.vBase = DictBase,
          !.dictEnd = DictBase + DictSize, !.previousDstEnd = DictBase + DictSize]

\* ZSTD1_decompress_insertDictionary of raw content: ZSTD1_refDictContent.
DecompressBeginUsingDict ==
  LET d == DecompressBegin IN
  IF DictSize = 0 THEN d
  ELSE [d EXCEPT !.dictEnd = d.previousDstEnd,
          !.vBase = DictBase - (d.previousDstEnd - d.base),
          !.base = DictBase, !.previousDstEnd = DictBase + DictSize]

\* Mutant: the previous segment is taken to end where the new one begins.
CheckContinuityStale(d, dst) ==
  IF dst = d.previousDstEnd THEN d
  ELSE [d EXCEPT !.vBase = dst - (d.previousDstEnd - d.base),
                 !.base = dst, !.previousDstEnd = dst]

CheckContinuity(d, dst) ==
  IF dst = d.previousDstEnd THEN d
  ELSE [d EXCEPT !.dictEnd = d.previousDstEnd,
                 !.vBase = dst - (d.previousDstEnd - d.base),
                 !.base = dst, !.previousDstEnd = dst]

EndOfFrame(d, sum) ==
  IF sum THEN [d EXCEPT !.expected = Checksum, !.stage = "checkChecksum"]
  ELSE [d EXCEPT !.expected = 0, !.stage = "getFrameHeaderSize"]

ToBlockHeader(d) == [d EXCEPT !.expected = BlockHeader, !.stage = "decodeBlockHeader"]

\* The header is complete: its parameters are those of frame i.
DecodeFrameHeader(s, d, i) == [d EXCEPT !.params = GetFrameHeader(s, i, s[i].hsize).params]

IsSkipFrame(d) == d.stage = "skipFrame"

\* One call on the size bytes of source at p, which must be the element the
\* context expects; the output goes to dst, where there is room for cap bytes.
DecompressContinue(s, d0, m, dst, cap, p, size) ==
  LET e == Layout[s][p]
      d == IF cap > 0 THEN CheckContinuity(d0, dst) ELSE d0
      f == s[e.frame]
      Result(ret, c, mem) == [ret |-> ret, d |-> c, m |-> mem]
      Fail(code) == Result(code, d, m)
      Done(c) == Result(0, c, m)
      Last == e.block = Len(f.blocks)
  IN
  IF size # d0.expected THEN Result(Error.srcSize_wrong, d0, m)
  ELSE CASE d.stage = "getFrameHeaderSize" ->
        IF e.el # "header" THEN Fail(Error.prefix_unknown)
        ELSE IF f.kind = Skippable
             THEN Done([d EXCEPT !.expected = SkipHeader - size, !.at = e,
                                 !.stage = "decodeSkippableHeader"])
             ELSE Done([d EXCEPT !.headerSize = f.hsize, !.expected = f.hsize - size,
                                 !.at = e, !.stage = "decodeFrameHeader"])
    [] d.stage = "decodeFrameHeader" ->
        Done(ToBlockHeader(DecodeFrameHeader(s, d, d.at.frame)))
    [] d.stage = "decodeBlockHeader" ->
        IF e.el # "block" THEN Fail(Error.corruption_detected)
        ELSE IF f.blocks[e.block].csize > 0
             THEN Done([d EXCEPT !.expected = f.blocks[e.block].csize,
                          !.stage = IF Last THEN "decompressLastBlock"
                                    ELSE "decompressBlock"])
        ELSE IF Last THEN Done(EndOfFrame(d, d.params.checksumFlag))
        ELSE Done(ToBlockHeader(d))
    [] d.stage \in {"decompressBlock", "decompressLastBlock"} ->
        IF e.el # "data" THEN Fail(Error.corruption_detected)
        ELSE LET w == DecodeBlock(s, d, m, dst, cap, e)
                 c == [d EXCEPT !.decodedSize = @ + w.ret]
             IN IF IsError(w.ret) THEN Fail(w.ret)
                ELSE IF d.stage = "decompressBlock"
                THEN Result(w.ret, [ToBlockHeader(c) EXCEPT !.previousDstEnd = dst + w.ret], w.m)
                ELSE IF d.params.frameContentSize \notin {Unknown, c.decodedSize}
                THEN Result(Error.corruption_detected, c, w.m)
                ELSE Result(w.ret, EndOfFrame(c, d.params.checksumFlag), w.m)
    [] d.stage = "checkChecksum" ->
        IF e.el # "checksum" THEN Fail(Error.checksum_wrong)
        ELSE Done([d EXCEPT !.expected = 0, !.stage = "getFrameHeaderSize"])
    [] d.stage = "decodeSkippableHeader" ->
        Done([d EXCEPT !.expected = s[d.at.frame].skip, !.stage = "skipFrame"])
    [] d.stage = "skipFrame" ->
        Done([d EXCEPT !.expected = 0, !.stage = "getFrameHeaderSize"])

-----------------------------------------------------------------------------
\* One pass over a source held in memory.

\* The frame that starts at byte p of s, if all of it lies below end.
FindFrameCompressedSize(s, p, end) ==
  LET e == Layout[s][p] IN
  IF e.el # "header" THEN Error.prefix_unknown
  ELSE IF s[e.frame].kind = Skippable
       THEN IF end - p < SkipHeader THEN Error.srcSize_wrong ELSE s[e.frame].size
  ELSE IF s[e.frame].size > end - p THEN Error.srcSize_wrong
  ELSE s[e.frame].size

\* Every block goes behind the one before, and must find room for itself.
DecompressFrame(f, cap) ==
  IF \E b \in DOMAIN f.blocks : f.blocks[b].out - f.out + f.blocks[b].rsize > cap
  THEN Error.dstSize_tooSmall
  ELSE IF f.fcs \notin {Unknown, f.content} THEN Error.corruption_detected
  ELSE f.content

=============================================================================
