---------------------------- MODULE DStreamProofs ----------------------------
(***************************************************************************)
(* What is proved of the streaming decoder and of the bufferless loop for  *)
(* every source of frames of the current format and skippable frames, all  *)
(* sizes of windows, blocks, buffers, dictionary, input and output, and    *)
(* any number of sources and failing allocations: a valid source is never  *)
(* refused, what waits to be flushed is the output that comes next, a      *)
(* return of 0 means a whole frame, delivered, the end of a frame is not   *)
(* passed before its output, and positions never move back.                *)
(*                                                                         *)
(* The source lies in front of the decoder as a row of elements; Position  *)
(* says at which of them it is.  The bytes it may still refer to are told  *)
(* by History: at most two laps of the round buffer, the older of which    *)
(* ends where the newer began.  Legacy frames are left to the runs.        *)
(***************************************************************************)
EXTENDS LegacyStream, TLAPS

CurrentOnly == \A s \in Sources : \A i \in 1 .. Len(s) : s[i].kind \in {Zstd, Skippable}

-----------------------------------------------------------------------------
\* Types.

Params == [windowSize : Nat, frameContentSize : Nat \cup {Unknown}, blockSizeMax : Nat,
           checksumFlag : BOOLEAN]

ContextStages == {"getFrameHeaderSize", "decodeFrameHeader", "decodeBlockHeader",
                  "decompressBlock", "decompressLastBlock", "checkChecksum",
                  "decodeSkippableHeader", "skipFrame"}

Elements == [el : {"header", "checksum", "block", "data", "none"}, frame : Nat, block : Nat]

Context == [expected : Nat, stage : ContextStages, decodedSize : Nat, previousDstEnd : Int,
            base : Int, vBase : Int, dictEnd : Int, headerSize : Nat, params : Params,
            at : Elements]

CallRecord == [on : BOOLEAN, istart : Nat, ip : Nat, iend : Nat, op : Nat, oend : Nat,
               more : BOOLEAN]

Types ==
  /\ api \in Api /\ src \in Sources /\ sources \in 1 .. MaxSources
  /\ ipos \in Nat /\ opos \in Nat /\ call \in CallRecord /\ ret \in Int
  /\ dctx \in Context /\ mem \in [0 .. outBuffSize - 1 -> Int]
  /\ streamStage \in Stages /\ frame \in 0 .. Len(src)
  /\ lhSize \in 0 .. HeaderMax /\ inPos \in Nat /\ outStart \in Nat /\ outEnd \in Nat
  /\ hostageByte \in {0, 1}
  /\ inBuffSize \in Nat /\ outBuffSize \in Nat /\ fParams \in Params
  /\ legacyVersion = 0 /\ previousLegacyVersion = 0 /\ failures \in 0 .. MaxAllocFail

Bounds ==
  /\ ipos <= SourceSize(src)
  /\ outStart <= outBuffSize /\ outEnd <= outBuffSize
  /\ api = "stream" => inPos <= Larger(inBuffSize, fParams.frameContentSize)
  /\ call.on => /\ api = "stream" /\ ~IsError(ret)
                /\ call.istart = ipos /\ call.istart <= call.ip /\ call.ip <= call.iend
                /\ call.iend <= SourceSize(src)
                /\ opos <= call.op /\ call.op <= call.oend

-----------------------------------------------------------------------------
\* Where the context d is: P is the place of what it expects, in frame f.

AtBlock(d, f, P) ==
  /\ d.stage = "decodeBlockHeader" /\ d.expected = BlockHeader
  /\ \E b \in 1 .. Len(f.blocks) :
       P = f.blocks[b].at /\ d.decodedSize = f.blocks[b].out - f.out
AtData(d, f, P) ==
  \E b \in 1 .. Len(f.blocks) :
    /\ d.stage = IF b = Len(f.blocks) THEN "decompressLastBlock" ELSE "decompressBlock"
    /\ d.expected = f.blocks[b].csize /\ f.blocks[b].csize > 0
    /\ P = f.blocks[b].at + BlockHeader /\ d.decodedSize = f.blocks[b].out - f.out
AtChecksum(d, f, P) ==
  /\ d.stage = "checkChecksum" /\ d.expected = Checksum /\ f.cksum
  /\ P = FrameEnd(f) - Checksum /\ d.decodedSize = f.content
AtEnd(d, f, P) ==
  /\ d.stage = "getFrameHeaderSize" /\ d.expected = 0
  /\ P = FrameEnd(f) /\ d.decodedSize = f.content
AtSkip(d, f, P) ==
  /\ d.stage = "skipFrame" /\ d.expected = f.skip
  /\ P = f.at + SkipHeader /\ d.decodedSize = 0

Position(d, f, P) ==
  IF f.kind = Skippable THEN AtSkip(d, f, P) \/ AtEnd(d, f, P)
  ELSE AtBlock(d, f, P) \/ AtData(d, f, P) \/ AtChecksum(d, f, P) \/ AtEnd(d, f, P)

InBlocks(d) == d.stage \in {"decodeBlockHeader", "decompressBlock", "decompressLastBlock"}

-----------------------------------------------------------------------------
\* The history a block of frame f may refer to: m is a buffer of size n, in which the
\* next block is written at W.

BlockSizeMax(f) == Smaller(f.window, BlockMax)
FirstLapOnly(f, n) == f.fcs # Unknown /\ n >= f.fcs

\* The output that follows byte k of it lies at address 0, or would.
Bytes(m, from, to, k) == \A a \in from .. to - 1 : m[a] = k + a + 1

\* Nothing is written yet; before it comes the dictionary.
NoLap(d) ==
  /\ d.decodedSize = 0 /\ d.previousDstEnd < 0
  /\ d.previousDstEnd - d.base = DictSize
  /\ DictSize > 0 => d.previousDstEnd = DictBase + DictSize

FirstLap(d, m, n, f) ==
  /\ d.base = 0 /\ d.previousDstEnd = d.decodedSize /\ d.vBase = -DictSize
  /\ DictSize > 0 => d.dictEnd = DictBase + DictSize
  /\ d.previousDstEnd <= n
  /\ Bytes(m, 0, d.previousDstEnd, f.out)

\* The lap before ends at dictEnd; the last copy may have overrun its end.
LaterLap(d, m, n, f) ==
  LET first == f.out + (d.decodedSize - d.previousDstEnd) IN
  /\ d.base = 0 /\ d.vBase = -d.dictEnd
  /\ 0 <= d.previousDstEnd /\ d.previousDstEnd <= n
  /\ f.window + Wildcopy <= d.dictEnd /\ d.dictEnd <= n
  /\ d.dictEnd <= d.decodedSize - d.previousDstEnd
  /\ Bytes(m, 0, d.previousDstEnd, first)
  /\ Bytes(m, d.previousDstEnd + Wildcopy, d.dictEnd, first - d.dictEnd)

Continues(d, f, W) ==
  \/ W = d.previousDstEnd
  \/ W = 0 /\ (NoLap(d) \/ f.window + Wildcopy <= d.previousDstEnd)

History(d, m, n, f, W) ==
  /\ NoLap(d) \/ FirstLap(d, m, n, f) \/ LaterLap(d, m, n, f)
  /\ Continues(d, f, W)
  /\ FirstLapOnly(f, n) => W = d.decodedSize

\* The buffer is large enough, and the next block finds its place.
Sized(p, n, f) ==
  /\ p.frameContentSize = f.fcs /\ p.blockSizeMax = BlockSizeMax(f)
  /\ FirstLapOnly(f, n) \/ n >= f.window + BlockSizeMax(f) + 2 * Wildcopy
Room(d, n, f, W) == InBlocks(d) => FirstLapOnly(f, n) \/ W + BlockSizeMax(f) <= n

Decoding(d, m, n, p, f, P, W) ==
  /\ Position(d, f, P)
  /\ f.kind = Skippable => p.frameContentSize = f.skip
  /\ f.kind # Skippable =>
       /\ d.params.frameContentSize = f.fcs /\ d.params.checksumFlag = f.cksum
       /\ InBlocks(d) => /\ n > 0 => History(d, m, n, f, W)
                         /\ Sized(p, n, f)

-----------------------------------------------------------------------------
\* ZSTD1_decompressStream, stage by stage.

Cur  == IF call.on THEN call.ip ELSE ipos
Done == IF call.on THEN call.op ELSE opos
ThisFrame == src[frame]
InRoom == inBuffSize >= BlockSizeMax(ThisFrame) /\ inBuffSize >= Checksum
DecodingAt(P, W) == Decoding(dctx, mem, outBuffSize, fParams, ThisFrame, P, W)

Boundary(p, o, from) ==
  \E i \in from .. Len(src) : p = FramesSize(src, i) /\ o = FramesContent(src, i)

InitStage ==
  IF call.on /\ ~call.more
  THEN /\ Boundary(Cur + hostageByte, Done, 1)
       /\ dctx.expected = 0 /\ outEnd = outStart
       /\ hostageByte = 1 =>
            /\ frame > 0 /\ inPos = 0 /\ InRoom
            /\ DecodingAt(Cur + 1, outStart) /\ Done = ThisFrame.out + dctx.decodedSize
  ELSE /\ Boundary(Cur, Done, 0)
       /\ call.on => call.ip = call.istart /\ call.op = opos

HeaderStage ==
  /\ outStart = 0 /\ outEnd = 0 /\ inPos = 0 /\ hostageByte = 0
  /\ call.on => call.more /\ call.op = opos
  /\ IF frame = 0
     THEN lhSize = 0 /\ Cur = SourceSize(src) /\ Done = OutputSize(src)
     ELSE /\ Cur = ThisFrame.at + lhSize /\ lhSize <= ThisFrame.hsize
          /\ Done = ThisFrame.out
          /\ call.on => ThisFrame.at <= call.istart

ReadStage ==
  /\ frame > 0 /\ inPos = 0 /\ outEnd = outStart /\ InRoom
  /\ DecodingAt(Cur + hostageByte, outStart)
  /\ Room(dctx, outBuffSize, ThisFrame, outStart)
  /\ Done = ThisFrame.out + dctx.decodedSize
  /\ hostageByte = 1 => dctx.expected = 0
  /\ call.on /\ ~call.more => dctx.expected > 0

LoadStage ==
  /\ frame > 0 /\ inPos < dctx.expected /\ inPos <= Cur /\ outEnd = outStart /\ InRoom
  /\ DecodingAt(Cur - inPos, outStart)
  /\ Room(dctx, outBuffSize, ThisFrame, outStart)
  /\ Done = ThisFrame.out + dctx.decodedSize
  /\ hostageByte = 0

FlushStage ==
  /\ frame > 0 /\ inPos = 0 /\ outStart <= outEnd /\ InRoom
  /\ DecodingAt(Cur + hostageByte, outEnd)
  /\ Done + (outEnd - outStart) = ThisFrame.out + dctx.decodedSize
  /\ ThisFrame.out <= Done
  /\ Bytes(mem, outStart, outEnd, Done - outStart)
  /\ hostageByte = 1 => dctx.expected = 0
  /\ dctx.expected = 0 /\ hostageByte = 0 => call.on /\ call.istart < call.ip
  /\ call.on /\ ~call.more => outStart # outEnd
  /\ ~call.on => outStart # outEnd

StreamInv ==
  api = "stream" /\ ~IsError(ret) =>
    CASE streamStage = "init" -> InitStage
      [] streamStage = "loadHeader" -> HeaderStage
      [] streamStage = "read" -> ReadStage
      [] streamStage = "load" -> LoadStage
      [] streamStage = "flush" -> FlushStage

-----------------------------------------------------------------------------
\* The bufferless loop.

InHeaderOf(i) ==
  LET f == src[i] IN
  /\ dctx.at = Element("header", i, 0) /\ ipos = f.at + HeaderPrefix /\ opos = f.out
  /\ NoLap(dctx) /\ outStart = 0
  /\ IF f.kind = Skippable
     THEN /\ dctx.stage = "decodeSkippableHeader"
          /\ dctx.expected = SkipHeader - HeaderPrefix
          /\ fParams.frameContentSize = f.skip
     ELSE /\ dctx.stage = "decodeFrameHeader"
          /\ dctx.expected = f.hsize - HeaderPrefix
          /\ Sized(fParams, outBuffSize, f)

InFrame(i) ==
  /\ Decoding(dctx, mem, outBuffSize, fParams, src[i], ipos, outStart)
  /\ Room(dctx, outBuffSize, src[i], outStart)
  /\ opos = src[i].out + dctx.decodedSize
  /\ dctx.stage = "skipFrame" => dctx.at = Element("header", i, 0)

LoopInv ==
  api = "bufferless" =>
    /\ streamStage = "init" /\ outEnd = 0 /\ ~IsError(ret)
    /\ \/ dctx.stage = "getFrameHeaderSize" /\ Boundary(ipos, opos, 0)
       \/ \E i \in 1 .. Len(src) : InHeaderOf(i) \/ InFrame(i)

-----------------------------------------------------------------------------

\* What the caller was told last.
RetInv ==
  /\ ZeroMeansFrameDone
  /\ ValidNeverFails
  /\ IsError(ret) => ~call.on /\ streamStage # "flush"

IInv == Types /\ Bounds /\ StreamInv /\ LoopInv /\ RetInv

-----------------------------------------------------------------------------
\* Sources.

LEMMA ConstantTypes ==
  /\ BlockMax \in Nat /\ Wildcopy \in Nat /\ DictSize \in Nat
  /\ InSizes \subseteq Nat /\ OutSizes \subseteq Nat
  /\ WindowMin \in Nat /\ MaxWindowSize \in Nat /\ MaxSources \in Nat \ {0}
  /\ MaxAllocFail \in Nat
BY SizeAssumption, DStreamAssumption

LEMMA SourceTypes ==
  ASSUME NEW s \in Sources
  PROVE  /\ s \in Seq(Frame) /\ Len(s) \in Nat \ {0} /\ DOMAIN s = 1 .. Len(s)
         /\ s[1].at = 0 /\ s[1].out = 0
         /\ \A i \in 1 .. Len(s) : s[i] \in Frame
BY SourceAssumption

LEMMA FrameTypes ==
  ASSUME NEW f \in Frame
  PROVE  /\ f.kind \in 0 .. Zstd /\ f.hsize \in 0 .. HeaderMax /\ f.window \in Nat
         /\ f.fcs \in Nat \cup {Unknown} /\ f.cksum \in BOOLEAN /\ f.reach \in Nat
         /\ f.skip \in Nat /\ f.at \in Nat /\ f.size \in Nat /\ f.out \in Nat
         /\ f.content \in Nat /\ f.blocks \in Seq(Block) /\ Len(f.blocks) \in Nat
         /\ DOMAIN f.blocks = 1 .. Len(f.blocks)
         /\ \A b \in 1 .. Len(f.blocks) : f.blocks[b] \in Block
         /\ FrameEnd(f) \in Nat /\ FrameOutEnd(f) \in Nat /\ TrailerSize(f) \in {0, Checksum}
BY DEF Frame, FrameEnd, FrameOutEnd, TrailerSize, Checksum

LEMMA BlockTypes ==
  ASSUME NEW b \in Block
  PROVE  /\ b.type \in {"raw", "rle", "comp", "end"} /\ b.csize \in Nat /\ b.rsize \in Nat
         /\ b.at \in Nat /\ b.out \in Nat /\ BlockEnd(b) \in Nat
         /\ BlockEnd(b) = b.at + BlockHeader + b.csize
BY DEF Block, BlockEnd, BlockHeader

\* The frames of a source, one behind the other.
LEMMA FrameOrder ==
  ASSUME NEW s \in Sources, NEW i \in 1 .. Len(s), NEW j \in 1 .. Len(s), i < j
  PROVE  /\ FrameEnd(s[i]) <= s[j].at /\ FrameOutEnd(s[i]) <= s[j].out
         /\ j = i + 1 => FrameEnd(s[i]) = s[j].at /\ FrameOutEnd(s[i]) = s[j].out
BY SourceAssumption

LEMMA FrameShape ==
  ASSUME NEW s \in Sources, NEW i \in 1 .. Len(s)
  PROVE  IF s[i].kind = Skippable THEN SkippableFrame(s[i]) ELSE FrameOfBlocks(s[i])
BY SourceAssumption

\* The blocks of a frame, one behind the other, between its header and its end.
LEMMA BlockOrder ==
  ASSUME NEW f \in Frame, FrameOfBlocks(f), NEW b \in 1 .. Len(f.blocks),
         NEW c \in 1 .. Len(f.blocks), b < c
  PROVE  /\ BlockEnd(f.blocks[b]) <= f.blocks[c].at
         /\ f.blocks[b].out + f.blocks[b].rsize <= f.blocks[c].out
         /\ c = b + 1 => /\ BlockEnd(f.blocks[b]) = f.blocks[c].at
                         /\ f.blocks[b].out + f.blocks[b].rsize = f.blocks[c].out
BY DEF FrameOfBlocks

LEMMA FirstBlock ==
  ASSUME NEW f \in Frame, FrameOfBlocks(f)
  PROVE  Len(f.blocks) \in Nat /\ 1 \in 1 .. Len(f.blocks) /\ f.hsize >= 5
<1>1. Len(f.blocks) > 0 /\ f.hsize >= (IF f.kind = Zstd THEN 6 ELSE 5)
  BY DEF FrameOfBlocks
<1>2. Len(f.blocks) \in Nat /\ f.hsize \in Nat
  BY FrameTypes
<1> QED
  BY <1>1, <1>2

LEMMA BlockPlaces ==
  ASSUME NEW f \in Frame, FrameOfBlocks(f), NEW b \in 1 .. Len(f.blocks)
  PROVE  /\ f.blocks[b] \in Block
         /\ f.at + f.hsize <= f.blocks[b].at /\ f.out <= f.blocks[b].out
         /\ BlockEnd(f.blocks[b]) + TrailerSize(f) <= FrameEnd(f)
         /\ f.blocks[b].out + f.blocks[b].rsize <= FrameOutEnd(f)
         /\ b < Len(f.blocks) =>
              BlockEnd(f.blocks[b]) + BlockHeader + TrailerSize(f) <= FrameEnd(f)
<1> DEFINE n == Len(f.blocks)
           First == f.blocks[1]
           This == f.blocks[b]
           Last == f.blocks[n]
<1>1. n \in Nat /\ n > 0 /\ b \in 1 .. n /\ 1 \in 1 .. n /\ n \in 1 .. n
  BY FrameTypes DEF FrameOfBlocks
<1>2. First \in Block /\ This \in Block /\ Last \in Block
  BY <1>1, FrameTypes
<1>3. f.at + f.hsize \in Nat /\ f.out \in Nat /\ TrailerSize(f) \in Nat
  BY FrameTypes DEF Checksum
<1>4. /\ First.at = f.at + f.hsize /\ First.out = f.out
      /\ FrameEnd(f) = BlockEnd(Last) + TrailerSize(f)
      /\ FrameOutEnd(f) = Last.out + Last.rsize
  BY <1>1 DEF FrameOfBlocks
<1>5. /\ 1 < b => BlockEnd(First) <= This.at /\ First.out + First.rsize <= This.out
      /\ b < n => BlockEnd(This) <= Last.at /\ This.out + This.rsize <= Last.out
  BY <1>1, BlockOrder
<1>6. /\ b = 1 => This = First
      /\ b = n => This = Last
  OBVIOUS
<1> DEFINE at1 == First.at
           at == This.at
           atn == Last.at
           end1 == BlockEnd(First)
           end == BlockEnd(This)
           endn == BlockEnd(Last)
           out1 == First.out
           out == This.out
           outn == Last.out
           size1 == First.rsize
           size == This.rsize
           sizen == Last.rsize
<1> HIDE DEF n, First, This, Last
<1>10. /\ at1 \in Nat /\ at \in Nat /\ atn \in Nat /\ end1 \in Nat /\ end \in Nat /\ endn \in Nat
       /\ out1 \in Nat /\ out \in Nat /\ outn \in Nat
       /\ size1 \in Nat /\ size \in Nat /\ sizen \in Nat
  <2>1. \A c \in Block : c.at \in Nat /\ BlockEnd(c) \in Nat /\ c.out \in Nat /\ c.rsize \in Nat
    BY BlockTypes
  <2> QED
    BY <1>2, <2>1
<1>11. at1 <= end1 /\ at <= end /\ atn + BlockHeader <= endn
  <2>1. \A c \in Block : c.at <= BlockEnd(c) /\ c.at + BlockHeader <= BlockEnd(c)
    BY BlockTypes DEF BlockHeader
  <2> QED
    BY <1>2, <2>1
<1>12. /\ 1 < b => end1 <= at /\ out1 + size1 <= out
       /\ b < n => end <= atn /\ out + size <= outn
       /\ b = 1 => at = at1 /\ out = out1
       /\ b = n => end = endn /\ out = outn /\ size = sizen
  BY <1>5, <1>6
<1> HIDE DEF at1, at, atn, end1, end, endn, out1, out, outn, size1, size, sizen
<1>13. /\ at1 <= at /\ end <= endn /\ out1 <= out /\ out + size <= outn + sizen
       /\ b < n => end + BlockHeader <= endn
  BY <1>1, <1>10, <1>11, <1>12 DEF BlockHeader
<1>7. First.at <= This.at /\ BlockEnd(This) <= BlockEnd(Last)
  BY <1>13 DEF at1, at, end, endn
<1>8. First.out <= This.out /\ This.out + This.rsize <= Last.out + Last.rsize
  BY <1>13 DEF out1, out, outn, size, sizen
<1>9. b < n => BlockEnd(This) + BlockHeader <= BlockEnd(Last)
  BY <1>13 DEF end, endn
<1> DEFINE start == f.at + f.hsize
           fout == f.out
           trailer == TrailerSize(f)
           fend == FrameEnd(f)
           foutend == FrameOutEnd(f)
<1>14. /\ start \in Nat /\ fout \in Nat /\ trailer \in Nat
       /\ at1 = start /\ out1 = fout /\ fend = endn + trailer /\ foutend = outn + sizen
  BY <1>3, <1>4 DEF at1, out1, endn, outn, sizen
<1> HIDE DEF start, fout, trailer, fend, foutend
<1>15. /\ start <= at /\ fout <= out /\ end + trailer <= fend /\ out + size <= foutend
       /\ b < n => (end + BlockHeader) + trailer <= fend
  BY <1>10, <1>13, <1>14 DEF BlockHeader
<1>16. b < n => end + BlockHeader + trailer <= fend
  BY <1>15, <1>10, <1>14 DEF BlockHeader
<1> QED
  BY <1>2, <1>15, <1>16 DEF n, This, at, out, size, end, start, fout, trailer, fend, foutend

-----------------------------------------------------------------------------
\* The elements of a source, and the one at a place.

ElementNames == {"header", "block", "data", "checksum"}

LEMMA ElementTypes ==
  ASSUME NEW s \in Sources, NEW e \in ElementSet(s)
  PROVE  /\ e.frame \in 1 .. Len(s) /\ e.el \in ElementNames
         /\ e.block \in 0 .. Len(s[e.frame].blocks)
         /\ e = Element(e.el, e.frame, e.block) /\ IsElement(s, e)
<1>1. PICK i \in 1 .. Len(s) :
        e \in [el : ElementNames, frame : {i}, block : 0 .. Len(s[i].blocks)]
  BY SourceTypes DEF ElementSet, ElementNames
<1>2. e.frame = i
  BY <1>1
<1> QED
  BY <1>1, <1>2 DEF ElementSet, Element

LEMMA ElementIn ==
  ASSUME NEW s \in Sources, NEW i \in 1 .. Len(s), NEW el \in ElementNames,
         NEW b \in 0 .. Len(s[i].blocks), IsElement(s, Element(el, i, b))
  PROVE  Element(el, i, b) \in ElementSet(s)
<1>1. Element(el, i, b) \in [el : ElementNames, frame : {i}, block : 0 .. Len(s[i].blocks)]
  BY DEF Element
<1>2. i \in DOMAIN s
  BY SourceTypes
<1> QED
  BY <1>1, <1>2 DEF ElementSet, ElementNames

\* An element that is not the header belongs to a frame of blocks.
LEMMA InnerElement ==
  ASSUME NEW s \in Sources, NEW e \in ElementSet(s), e.el # "header"
  PROVE  FrameOfBlocks(s[e.frame])
<1> DEFINE f == s[e.frame]
<1>1. e.frame \in 1 .. Len(s) /\ e.el \in ElementNames /\ IsElement(s, e)
  BY ElementTypes
<1>2. f \in Frame /\ IF f.kind = Skippable THEN SkippableFrame(f) ELSE FrameOfBlocks(f)
  BY <1>1, SourceTypes, FrameShape
<1>3. ~SkippableFrame(f)
  <2> SUFFICES ASSUME SkippableFrame(f) PROVE FALSE
    OBVIOUS
  <2>1. f.blocks = <<>> /\ f.cksum = FALSE
    BY FrameTypes, <1>2 DEF SkippableFrame
  <2>2. DOMAIN f.blocks = {}
    BY <2>1
  <2> HIDE DEF f
  <2>3. e.el = "checksum" => f.cksum
    BY <1>1 DEF IsElement, f
  <2>4. e.el \in {"block", "data"} => e.block \in DOMAIN f.blocks
    BY <1>1 DEF IsElement, f
  <2> QED
    BY <2>1, <2>2, <2>3, <2>4, <1>1 DEF ElementNames
<1> QED
  BY <1>2, <1>3

LEMMA FrameSize ==
  ASSUME NEW s \in Sources, NEW i \in 1 .. Len(s)
  PROVE  /\ s[i] \in Frame /\ s[i].at + s[i].hsize <= FrameEnd(s[i])
         /\ s[i].at < FrameEnd(s[i]) /\ s[i].hsize >= 5
         /\ s[i].kind # Skippable => s[i].at + s[i].hsize + BlockHeader <= FrameEnd(s[i])
<1> DEFINE f == s[i]
<1>1. f \in Frame
  BY SourceTypes
<1>2. CASE f.kind = Skippable
  <2>1. f.hsize = SkipHeader /\ f.size = f.hsize + f.skip
    BY <1>2, FrameShape DEF SkippableFrame
  <2>2. f.at \in Nat /\ f.skip \in Nat /\ FrameEnd(f) = f.at + (SkipHeader + f.skip)
    BY <2>1, <1>1, FrameTypes DEF SkipHeader, FrameEnd
  <2>3. f.at + SkipHeader <= FrameEnd(f) /\ f.at < FrameEnd(f)
    BY <2>2 DEF SkipHeader
  <2>4. f.hsize >= 5 /\ f.at + f.hsize <= FrameEnd(f)
    BY <2>1, <2>3 DEF SkipHeader
  <2> HIDE DEF f
  <2>5. f \in Frame /\ f.at + f.hsize <= FrameEnd(f) /\ f.at < FrameEnd(f) /\ f.hsize >= 5
        /\ (f.kind # Skippable => f.at + f.hsize + BlockHeader <= FrameEnd(f))
    BY <2>3, <2>4, <1>1, <1>2
  <2> QED
    BY <2>5 DEF f
<1>3. CASE f.kind # Skippable
  <2>1. FrameOfBlocks(f)
    BY <1>3, FrameShape
  <2>2. 1 \in 1 .. Len(f.blocks) /\ f.hsize >= 5
    BY <2>1, <1>1, FirstBlock
  <2>3. /\ f.blocks[1] \in Block /\ f.at + f.hsize <= f.blocks[1].at
        /\ BlockEnd(f.blocks[1]) + TrailerSize(f) <= FrameEnd(f)
    BY <2>1, <2>2, <1>1, BlockPlaces
  <2>4. /\ f.at \in Nat /\ f.hsize \in Nat /\ FrameEnd(f) \in Nat /\ TrailerSize(f) \in Nat
        /\ f.blocks[1].at \in Nat /\ f.blocks[1].csize \in Nat
        /\ BlockEnd(f.blocks[1]) = f.blocks[1].at + BlockHeader + f.blocks[1].csize
    <3>1. f.at \in Nat /\ f.hsize \in Nat /\ FrameEnd(f) \in Nat /\ TrailerSize(f) \in Nat
      BY <1>1, FrameTypes DEF Checksum
    <3> QED
      BY <3>1, <2>3, BlockTypes
  <2> DEFINE at == f.at
             hsize == f.hsize
             end == FrameEnd(f)
             trailer == TrailerSize(f)
             bat == f.blocks[1].at
             csize == f.blocks[1].csize
             bend == BlockEnd(f.blocks[1])
  <2>5. /\ at \in Nat /\ hsize \in Nat /\ end \in Nat /\ trailer \in Nat /\ bat \in Nat
        /\ csize \in Nat /\ bend = bat + BlockHeader + csize /\ at + hsize <= bat
        /\ bend + trailer <= end /\ hsize >= 5
    BY <2>2, <2>3, <2>4
  <2> HIDE DEF at, hsize, end, trailer, bat, csize, bend
  <2>6. at + hsize <= end /\ at < end /\ at + hsize + BlockHeader <= end
    BY <2>5 DEF BlockHeader
  <2> QED
    BY <2>5, <2>6, <1>1 DEF at, hsize, end
<1> QED
  BY <1>2, <1>3


\* The zones of a frame: its header, its blocks, its checksum.
Zone(s, e) == CASE e.el = "header" -> 0
                [] e.el \in {"block", "data"} -> e.block
                [] e.el = "checksum" -> Len(s[e.frame].blocks) + 1
ZoneFrom(s, e) == CASE e.el = "header" -> s[e.frame].at
                    [] e.el \in {"block", "data"} -> s[e.frame].blocks[e.block].at
                    [] e.el = "checksum" -> FrameEnd(s[e.frame]) - Checksum
ZoneTo(s, e) == CASE e.el = "header" -> s[e.frame].at + s[e.frame].hsize
                  [] e.el \in {"block", "data"} -> BlockEnd(s[e.frame].blocks[e.block])
                  [] e.el = "checksum" -> FrameEnd(s[e.frame])

LEMMA HeaderZone ==
  ASSUME NEW s \in Sources, NEW e \in ElementSet(s), e.el = "header"
  PROVE  /\ Zone(s, e) = 0 /\ ZoneFrom(s, e) = s[e.frame].at
         /\ ZoneTo(s, e) = s[e.frame].at + s[e.frame].hsize
         /\ Place(s, e) = s[e.frame].at /\ e.block = 0
BY ElementTypes DEF Zone, ZoneFrom, ZoneTo, Place, IsElement

LEMMA ChecksumZone ==
  ASSUME NEW s \in Sources, NEW e \in ElementSet(s), e.el = "checksum"
  PROVE  /\ Zone(s, e) = Len(s[e.frame].blocks) + 1
         /\ ZoneFrom(s, e) = FrameEnd(s[e.frame]) - Checksum
         /\ ZoneTo(s, e) = FrameEnd(s[e.frame])
         /\ Place(s, e) = FrameEnd(s[e.frame]) - Checksum /\ e.block = 0
         /\ TrailerSize(s[e.frame]) = Checksum
BY ElementTypes DEF Zone, ZoneFrom, ZoneTo, Place, IsElement, TrailerSize

LEMMA BlockZone ==
  ASSUME NEW s \in Sources, NEW e \in ElementSet(s), e.el \in {"block", "data"}
  PROVE  LET b == s[e.frame].blocks[e.block] IN
         /\ e.block \in 1 .. Len(s[e.frame].blocks) /\ b \in Block
         /\ Zone(s, e) = e.block /\ ZoneFrom(s, e) = b.at /\ ZoneTo(s, e) = BlockEnd(b)
         /\ e.el = "block" => Place(s, e) = b.at
         /\ e.el = "data" => Place(s, e) = b.at + BlockHeader /\ b.csize > 0
<1> DEFINE f == s[e.frame]
<1>1. e.frame \in 1 .. Len(s) /\ e.el \in ElementNames /\ IsElement(s, e)
  BY ElementTypes
<1>2. f \in Frame
  BY <1>1, SourceTypes
<1>3. e.block \in DOMAIN f.blocks
  BY <1>1 DEF IsElement
<1>4. e.block \in 1 .. Len(f.blocks) /\ f.blocks[e.block] \in Block
  BY <1>2, <1>3, FrameTypes
<1>5. e.el = "data" => f.blocks[e.block].csize > 0
  BY <1>1 DEF IsElement
<1> QED
  BY <1>4, <1>5 DEF Zone, ZoneFrom, ZoneTo, Place


LEMMA PlaceInZone ==
  ASSUME NEW s \in Sources, NEW e \in ElementSet(s)
  PROVE  /\ Place(s, e) \in Nat /\ ZoneFrom(s, e) \in Nat /\ ZoneTo(s, e) \in Nat
         /\ s[e.frame].at <= ZoneFrom(s, e) /\ ZoneFrom(s, e) <= Place(s, e)
         /\ Place(s, e) < ZoneTo(s, e) /\ ZoneTo(s, e) <= FrameEnd(s[e.frame])
<1> DEFINE f == s[e.frame]
           at == f.at
           hsize == f.hsize
           end == FrameEnd(f)
           p == Place(s, e)
           from == ZoneFrom(s, e)
           to == ZoneTo(s, e)
           trailer == TrailerSize(f)
<1>1. e.frame \in 1 .. Len(s) /\ e.el \in ElementNames /\ f \in Frame
  BY ElementTypes, SourceTypes
<1>2. at \in Nat /\ end \in Nat /\ trailer \in Nat /\ hsize \in Nat
  BY <1>1, FrameTypes DEF Checksum
<1>3. at + hsize <= end /\ hsize >= 5
  BY <1>1, FrameSize
<1> SUFFICES /\ p \in Nat /\ from \in Nat /\ to \in Nat
             /\ at <= from /\ from <= p /\ p < to /\ to <= end
  OBVIOUS
<1>4. CASE e.el = "header"
  <2>1. from = at /\ p = at /\ to = at + hsize
    BY <1>4, HeaderZone
  <2> HIDE DEF f, at, hsize, end, p, from, to, trailer
  <2> QED
    BY <2>1, <1>2, <1>3
<1>5. CASE e.el = "checksum"
  <2>1. from = end - Checksum /\ p = end - Checksum /\ to = end /\ trailer = Checksum
    BY <1>5, ChecksumZone
  <2>2. FrameOfBlocks(f)
    BY <1>5, InnerElement
  <2>3. 1 \in 1 .. Len(f.blocks)
    BY <2>2, <1>1, FirstBlock
  <2> DEFINE b == f.blocks[1]
             bat == b.at
             bend == BlockEnd(b)
  <2>4. b \in Block /\ at + hsize <= bat /\ bend + trailer <= end
    BY <2>2, <2>3, <1>1, BlockPlaces
  <2>5. bat \in Nat /\ bend \in Nat /\ bat <= bend
    BY <2>4, BlockTypes DEF BlockHeader
  <2> HIDE DEF f, at, hsize, end, p, from, to, trailer, b, bat, bend
  <2> QED
    BY <2>1, <2>4, <2>5, <1>2, <1>3 DEF Checksum
<1>6. CASE e.el \in {"block", "data"}
  <2>1. FrameOfBlocks(f)
    BY <1>6, InnerElement
  <2> DEFINE b == f.blocks[e.block]
             bat == b.at
             csize == b.csize
             bend == BlockEnd(b)
  <2>2. e.block \in 1 .. Len(f.blocks) /\ b \in Block /\ from = bat /\ to = bend
    BY <1>6, BlockZone
  <2>3. /\ e.el = "block" => p = bat
        /\ e.el = "data" => p = bat + BlockHeader /\ csize > 0
    BY <1>6, BlockZone
  <2>4. at + hsize <= bat /\ bend + trailer <= end
    BY <2>1, <2>2, <1>1, BlockPlaces
  <2>5. bat \in Nat /\ csize \in Nat /\ bend \in Nat /\ bend = bat + BlockHeader + csize
    BY <2>2, BlockTypes
  <2>6. from = bat /\ to = bend
    BY <2>2
  <2> HIDE DEF f, at, hsize, end, p, from, to, trailer, b, bat, csize, bend
  <2> QED
    BY <2>3, <2>4, <2>5, <2>6, <1>2, <1>3, <1>6 DEF BlockHeader
<1> QED
  BY <1>1, <1>4, <1>5, <1>6 DEF ElementNames

LEMMA ZoneOrder ==
  ASSUME NEW s \in Sources, NEW e \in ElementSet(s), NEW g \in ElementSet(s),
         e.frame = g.frame, Zone(s, e) < Zone(s, g)
  PROVE  ZoneTo(s, e) <= ZoneFrom(s, g)
<1> DEFINE f == s[g.frame]
           n == Len(f.blocks)
           B(x) == f.blocks[x.block]
           end == FrameEnd(f)
           trailer == TrailerSize(f)
<1>1. g.frame \in 1 .. Len(s) /\ e.el \in ElementNames /\ g.el \in ElementNames /\ f \in Frame
  BY ElementTypes, SourceTypes
<1>2. n \in Nat /\ end \in Nat /\ trailer \in Nat
  BY <1>1, FrameTypes DEF Checksum
<1>3. CASE g.el = "header"
  <2>1. Zone(s, g) = 0 /\ Zone(s, e) \in Nat
    <3>1. CASE e.el \in {"block", "data"}
      BY <3>1, <1>3, HeaderZone, BlockZone
    <3>2. CASE e.el \in {"header", "checksum"}
      BY <3>2, <1>2, <1>3, HeaderZone, ChecksumZone
    <3> QED
      BY <3>1, <3>2, <1>1 DEF ElementNames
  <2> QED
    BY <2>1
<1>4. CASE g.el # "header" /\ e.el = "header"
  <2>1. FrameOfBlocks(f)
    BY <1>4, InnerElement
  <2>2. ZoneTo(s, e) = f.at + f.hsize
    BY <1>4, HeaderZone
  <2>3. CASE g.el = "checksum"
    <3>1. 1 \in 1 .. n
      BY <2>1, <1>1, FirstBlock
    <3> DEFINE b == f.blocks[1]
               bat == b.at
               bend == BlockEnd(b)
               start == f.at + f.hsize
    <3>2. b \in Block /\ start <= bat /\ bend + trailer <= end
      BY <2>1, <3>1, <1>1, BlockPlaces
    <3>3. bat \in Nat /\ bend \in Nat /\ bat <= bend
      BY <3>2, BlockTypes DEF BlockHeader
    <3>4. start \in Nat /\ trailer = Checksum /\ ZoneFrom(s, g) = end - Checksum
      BY <2>3, <1>1, FrameTypes, ChecksumZone
    <3>5. ZoneTo(s, e) = start
      BY <2>2
    <3> HIDE DEF f, n, B, end, trailer, b, bat, bend, start
    <3> QED
      BY <3>2, <3>3, <3>4, <3>5, <1>2 DEF Checksum
  <2>4. CASE g.el \in {"block", "data"}
    BY <2>1, <2>2, <2>4, <1>1, BlockZone, BlockPlaces
  <2> QED
    BY <2>3, <2>4, <1>1, <1>4 DEF ElementNames
<1>5. CASE g.el # "header" /\ e.el = "checksum"
  <2>1. Zone(s, e) = n + 1 /\ Zone(s, g) \in Nat /\ Zone(s, g) <= n + 1
    <3>1. CASE g.el \in {"block", "data"}
      BY <3>1, <1>2, <1>5, ChecksumZone, BlockZone
    <3>2. CASE g.el = "checksum"
      BY <3>2, <1>2, <1>5, ChecksumZone
    <3> QED
      BY <3>1, <3>2, <1>1, <1>5 DEF ElementNames
  <2> QED
    BY <2>1, <1>2
<1>6. CASE g.el # "header" /\ e.el \in {"block", "data"}
  <2>1. FrameOfBlocks(f)
    BY <1>6, InnerElement
  <2>2. e.block \in 1 .. n /\ Zone(s, e) = e.block /\ ZoneTo(s, e) = BlockEnd(B(e))
    BY <1>6, BlockZone
  <2>3. CASE g.el = "checksum"
    <3>1. BlockEnd(B(e)) + trailer <= end /\ B(e) \in Block
      BY <2>1, <2>2, <1>1, BlockPlaces
    <3>2. trailer = Checksum /\ ZoneFrom(s, g) = end - Checksum /\ BlockEnd(B(e)) \in Nat
      BY <2>3, <3>1, ChecksumZone, BlockTypes
    <3>3. ZoneTo(s, e) = BlockEnd(B(e))
      BY <2>2
    <3> HIDE DEF f, n, B, end, trailer
    <3> QED
      BY <3>1, <3>2, <3>3, <1>2 DEF Checksum
  <2>4. CASE g.el \in {"block", "data"}
    <3>1. g.block \in 1 .. n /\ Zone(s, g) = g.block /\ ZoneFrom(s, g) = B(g).at
      BY <2>4, BlockZone
    <3> QED
      BY <2>1, <2>2, <3>1, <1>1, BlockOrder
  <2> QED
    BY <2>3, <2>4, <1>1, <1>6 DEF ElementNames
<1> QED
  BY <1>1, <1>3, <1>4, <1>5, <1>6 DEF ElementNames


LEMMA ZoneInt ==
  ASSUME NEW s \in Sources, NEW e \in ElementSet(s)
  PROVE  Zone(s, e) \in Nat
<1>1. e.frame \in 1 .. Len(s) /\ e.el \in ElementNames
  BY ElementTypes
<1>2. Len(s[e.frame].blocks) \in Nat
  BY <1>1, SourceTypes, FrameTypes
<1>3. CASE e.el = "header"
  BY <1>3, HeaderZone
<1>4. CASE e.el = "checksum"
  BY <1>2, <1>4, ChecksumZone
<1>5. CASE e.el \in {"block", "data"}
  BY <1>2, <1>5, BlockZone
<1> QED
  BY <1>1, <1>3, <1>4, <1>5 DEF ElementNames

\* No two elements start at the same place.
LEMMA SameZone ==
  ASSUME NEW s \in Sources, NEW e \in ElementSet(s), NEW g \in ElementSet(s),
         e.frame = g.frame, Zone(s, e) = Zone(s, g), Place(s, e) = Place(s, g)
  PROVE  e = g
<1> DEFINE n == Len(s[e.frame].blocks)
<1>1. /\ e.frame \in 1 .. Len(s) /\ e.el \in ElementNames /\ g.el \in ElementNames
      /\ e = Element(e.el, e.frame, e.block) /\ g = Element(g.el, g.frame, g.block)
  BY ElementTypes
<1>2. n \in Nat
  BY <1>1, SourceTypes, FrameTypes
<1>3. \A x \in {e, g} : /\ x.el = "header" => Zone(s, x) = 0 /\ x.block = 0
                        /\ x.el = "checksum" => Zone(s, x) = n + 1 /\ x.block = 0
                        /\ x.el \in {"block", "data"} => x.block \in 1 .. n /\ Zone(s, x) = x.block
  BY HeaderZone, ChecksumZone, BlockZone
<1>4. e.block = g.block
  <2> HIDE DEF n
  <2>1. CASE e.el = "header"
    BY <2>1, <1>1, <1>2, <1>3 DEF ElementNames
  <2>2. CASE e.el = "checksum"
    BY <2>2, <1>1, <1>2, <1>3 DEF ElementNames
  <2>3. CASE e.el \in {"block", "data"}
    BY <2>3, <1>1, <1>2, <1>3 DEF ElementNames
  <2> QED
    BY <2>1, <2>2, <2>3, <1>1 DEF ElementNames
<1>5. e.el \in {"block", "data"} <=> g.el \in {"block", "data"}
  <2> HIDE DEF n
  <2> QED
    BY <1>1, <1>2, <1>3 DEF ElementNames
<1>6. e.el \in {"header", "checksum"} => e.el = g.el
  <2> HIDE DEF n
  <2> QED
    BY <1>1, <1>2, <1>3 DEF ElementNames
<1>7. e.el \in {"block", "data"} => e.el = g.el
  <2> SUFFICES ASSUME e.el \in {"block", "data"}, g.el \in {"block", "data"} PROVE e.el = g.el
    BY <1>5
  <2> DEFINE b == s[e.frame].blocks[e.block]
             bat == b.at
  <2>1. /\ b \in Block
        /\ e.el = "block" => Place(s, e) = bat
        /\ e.el = "data" => Place(s, e) = bat + BlockHeader
    BY BlockZone
  <2>2. /\ g.el = "block" => Place(s, g) = bat
        /\ g.el = "data" => Place(s, g) = bat + BlockHeader
    BY BlockZone, <1>4
  <2>3. bat \in Nat
    BY <2>1, BlockTypes
  <2> HIDE DEF b, bat
  <2> QED
    BY <2>1, <2>2, <2>3 DEF BlockHeader
<1>8. e.el = g.el
  BY <1>1, <1>6, <1>7 DEF ElementNames
<1> QED
  BY <1>1, <1>4, <1>8

LEMMA OnePlace ==
  ASSUME NEW s \in Sources, NEW e \in ElementSet(s), NEW g \in ElementSet(s),
         Place(s, e) = Place(s, g)
  PROVE  e = g
<1>1. e.frame \in 1 .. Len(s) /\ g.frame \in 1 .. Len(s) /\ Len(s) \in Nat
  BY ElementTypes, SourceTypes
<1> DEFINE p(x) == Place(s, x)
           at(x) == s[x.frame].at
           end(x) == FrameEnd(s[x.frame])
           from(x) == ZoneFrom(s, x)
           to(x) == ZoneTo(s, x)
<1>2. \A x \in {e, g} : /\ p(x) \in Nat /\ from(x) \in Nat /\ to(x) \in Nat
                        /\ at(x) \in Nat /\ end(x) \in Nat
                        /\ at(x) <= from(x) /\ from(x) <= p(x) /\ p(x) < to(x) /\ to(x) <= end(x)
  <2> SUFFICES ASSUME NEW x \in {e, g}
               PROVE  /\ p(x) \in Nat /\ from(x) \in Nat /\ to(x) \in Nat
                      /\ at(x) \in Nat /\ end(x) \in Nat
                      /\ at(x) <= from(x) /\ from(x) <= p(x) /\ p(x) < to(x) /\ to(x) <= end(x)
    OBVIOUS
  <2>1. x \in ElementSet(s) /\ s[x.frame] \in Frame
    BY <1>1, SourceTypes
  <2>2. s[x.frame].at \in Nat /\ FrameEnd(s[x.frame]) \in Nat
    BY <2>1, FrameTypes
  <2> QED
    BY <2>1, <2>2, PlaceInZone
<1>3. ASSUME NEW x \in {e, g}, NEW y \in {e, g}, x.frame < y.frame, p(x) = p(y) PROVE FALSE
  <2>1. end(x) <= at(y)
    BY <1>1, <1>3, FrameOrder
  <2> HIDE DEF p, at, end, from, to
  <2> QED
    BY <2>1, <1>2, <1>3
<1>4. ASSUME NEW x \in {e, g}, NEW y \in {e, g}, x.frame = y.frame,
             Zone(s, x) < Zone(s, y), p(x) = p(y) PROVE FALSE
  <2>1. to(x) <= from(y)
    BY <1>4, ZoneOrder
  <2> HIDE DEF p, at, end, from, to
  <2> QED
    BY <2>1, <1>2, <1>4
<1>5. e.frame = g.frame
  BY <1>1, <1>3
<1>6. Zone(s, e) = Zone(s, g)
  <2>1. Zone(s, e) \in Nat /\ Zone(s, g) \in Nat
    BY ZoneInt
  <2>2. ~(Zone(s, e) < Zone(s, g)) /\ ~(Zone(s, g) < Zone(s, e))
    BY <1>4, <1>5
  <2> QED
    BY <2>1, <2>2
<1> QED
  BY <1>5, <1>6, SameZone

LEMMA SourceBound ==
  ASSUME NEW s \in Sources, NEW i \in 1 .. Len(s)
  PROVE  /\ SourceSize(s) \in Nat /\ OutputSize(s) \in Nat
         /\ FrameEnd(s[i]) <= SourceSize(s) /\ FrameOutEnd(s[i]) <= OutputSize(s)
         /\ i < Len(s) => FrameEnd(s[i]) < SourceSize(s)
         /\ SourceSize(s) = FrameEnd(s[Len(s)]) /\ OutputSize(s) = FrameOutEnd(s[Len(s)])
<1> DEFINE n == Len(s)
           L == s[n]
           f == s[i]
<1>1. n \in Nat \ {0} /\ n \in 1 .. n /\ L \in Frame /\ f \in Frame
  BY SourceTypes
<1>2. SourceSize(s) = FrameEnd(L) /\ OutputSize(s) = FrameOutEnd(L)
  BY <1>1 DEF SourceSize, OutputSize, FramesSize, FramesContent
<1>3. FrameEnd(L) \in Nat /\ FrameOutEnd(L) \in Nat /\ FrameEnd(f) \in Nat /\ FrameOutEnd(f) \in Nat
  BY <1>1, FrameTypes
<1>4. i = n => f = L
  OBVIOUS
<1>5. i < n => FrameEnd(f) < FrameEnd(L) /\ FrameOutEnd(f) <= FrameOutEnd(L)
  <2> SUFFICES ASSUME i < n PROVE FrameEnd(f) < FrameEnd(L) /\ FrameOutEnd(f) <= FrameOutEnd(L)
    OBVIOUS
  <2> DEFINE at == L.at
             out == L.out
             content == L.content
             end == FrameEnd(f)
             fout == FrameOutEnd(f)
             lend == FrameEnd(L)
             lout == FrameOutEnd(L)
  <2>1. end <= at /\ fout <= out
    BY <1>1, FrameOrder
  <2>2. at \in Nat /\ out \in Nat /\ content \in Nat /\ lout = out + content
    BY <1>1, FrameTypes DEF FrameOutEnd
  <2>3. at < lend
    BY <1>1, FrameSize
  <2>4. end \in Nat /\ fout \in Nat /\ lend \in Nat /\ lout \in Nat
    BY <1>3
  <2>5. end < lend /\ fout <= lout
    <3> HIDE DEF at, out, content, end, fout, lend, lout
    <3> QED
      BY <2>1, <2>2, <2>3, <2>4
  <2> QED
    BY <2>5
<1> DEFINE end == FrameEnd(f)
           fout == FrameOutEnd(f)
           lend == FrameEnd(L)
           lout == FrameOutEnd(L)
<1>6. end <= lend /\ fout <= lout /\ (i < n => end < lend)
  <2>1. end \in Nat /\ fout \in Nat /\ lend \in Nat /\ lout \in Nat
        /\ (i = n => end = lend /\ fout = lout) /\ (i < n => end < lend /\ fout <= lout)
    BY <1>3, <1>4, <1>5
  <2> HIDE DEF end, fout, lend, lout
  <2> QED
    BY <2>1, <1>1
<1> QED
  BY <1>2, <1>3, <1>6

\* What the source's layout says of a place.
LEMMA LayoutOf ==
  ASSUME NEW s \in Sources, NEW e \in ElementSet(s)
  PROVE  Place(s, e) \in 0 .. SourceSize(s) /\ Layout[s][Place(s, e)] = e
<1>1. e.frame \in 1 .. Len(s)
  BY ElementTypes
<1> DEFINE p == Place(s, e)
           to == ZoneTo(s, e)
           end == FrameEnd(s[e.frame])
           size == SourceSize(s)
<1>2. p \in Nat /\ to \in Nat /\ p < to /\ to <= end
  BY PlaceInZone
<1>3. end <= size /\ size \in Nat
  BY <1>1, SourceBound
<1>4. end \in Nat
  BY <1>1, SourceTypes, FrameTypes
<1>5. p \in 0 .. size
  <2> HIDE DEF p, to, end, size
  <2> QED
    BY <1>2, <1>3, <1>4
<1>6. StartsAt(s, p) = e
  <2>1. \A g \in ElementSet(s) : Place(s, g) = p => g = e
    BY OnePlace
  <2> QED
    BY <2>1 DEF StartsAt
<1> QED
  BY <1>5, <1>6 DEF Layout

LEMMA LayoutElement ==
  ASSUME NEW s \in Sources, NEW p \in 0 .. SourceSize(s)
  PROVE  \/ Layout[s][p] \in ElementSet(s) /\ Place(s, Layout[s][p]) = p
         \/ Layout[s][p] = Nothing /\ \A e \in ElementSet(s) : Place(s, e) # p
BY DEF Layout, StartsAt


LEMMA HeaderThere ==
  ASSUME NEW s \in Sources, NEW i \in 1 .. Len(s)
  PROVE  /\ s[i].at \in 0 .. SourceSize(s)
         /\ Layout[s][s[i].at] = Element("header", i, 0)
<1> DEFINE e == Element("header", i, 0)
<1>1. Len(s[i].blocks) \in Nat
  BY SourceTypes, FrameTypes
<1>2. e \in ElementSet(s)
  <2>1. IsElement(s, e)
    BY DEF IsElement, Element
  <2>2. 0 \in 0 .. Len(s[i].blocks) /\ "header" \in ElementNames
    BY <1>1 DEF ElementNames
  <2> QED
    BY <2>1, <2>2, ElementIn
<1>3. Place(s, e) = s[i].at
  BY DEF Place, Element
<1> QED
  BY <1>2, <1>3, LayoutOf

LEMMA BlockThere ==
  ASSUME NEW s \in Sources, NEW i \in 1 .. Len(s), FrameOfBlocks(s[i]),
         NEW b \in 1 .. Len(s[i].blocks)
  PROVE  /\ Layout[s][s[i].blocks[b].at] = Element("block", i, b)
         /\ s[i].blocks[b].csize > 0 =>
              Layout[s][s[i].blocks[b].at + BlockHeader] = Element("data", i, b)
<1>1. Len(s[i].blocks) \in Nat /\ b \in DOMAIN s[i].blocks /\ b \in 0 .. Len(s[i].blocks)
  BY SourceTypes, FrameTypes
<1>2. Layout[s][s[i].blocks[b].at] = Element("block", i, b)
  <2> DEFINE e == Element("block", i, b)
  <2>1. IsElement(s, e) /\ "block" \in ElementNames
    BY <1>1 DEF IsElement, Element, ElementNames
  <2>2. e \in ElementSet(s)
    BY <1>1, <2>1, ElementIn
  <2>3. Place(s, e) = s[i].blocks[b].at
    BY DEF Place, Element
  <2> QED
    BY <2>2, <2>3, LayoutOf
<1>3. ASSUME s[i].blocks[b].csize > 0
      PROVE  Layout[s][s[i].blocks[b].at + BlockHeader] = Element("data", i, b)
  <2> DEFINE e == Element("data", i, b)
  <2>1. IsElement(s, e) /\ "data" \in ElementNames
    BY <1>1, <1>3 DEF IsElement, Element, ElementNames
  <2>2. e \in ElementSet(s)
    BY <1>1, <2>1, ElementIn
  <2>3. Place(s, e) = s[i].blocks[b].at + BlockHeader
    BY DEF Place, Element
  <2> QED
    BY <2>2, <2>3, LayoutOf
<1> QED
  BY <1>2, <1>3

LEMMA ChecksumThere ==
  ASSUME NEW s \in Sources, NEW i \in 1 .. Len(s), s[i].cksum
  PROVE  Layout[s][FrameEnd(s[i]) - Checksum] = Element("checksum", i, 0)
<1> DEFINE e == Element("checksum", i, 0)
<1>1. Len(s[i].blocks) \in Nat
  BY SourceTypes, FrameTypes
<1>2. e \in ElementSet(s)
  <2>1. IsElement(s, e)
    BY DEF IsElement, Element
  <2>2. 0 \in 0 .. Len(s[i].blocks) /\ "checksum" \in ElementNames
    BY <1>1 DEF ElementNames
  <2> QED
    BY <2>1, <2>2, ElementIn
<1>3. Place(s, e) = FrameEnd(s[i]) - Checksum
  BY DEF Place, Element
<1> QED
  BY <1>2, <1>3, LayoutOf

\* Inside a frame no other begins.
LEMMA NoHeader ==
  ASSUME NEW s \in Sources, NEW i \in 1 .. Len(s), NEW p \in Nat,
         s[i].at < p, p < FrameEnd(s[i])
  PROVE  Layout[s][p].el # "header"
<1>1. /\ s[i].at \in Nat /\ FrameEnd(s[i]) \in Nat /\ Len(s) \in Nat
      /\ FrameEnd(s[i]) <= SourceSize(s) /\ SourceSize(s) \in Nat
  BY SourceTypes, FrameTypes, SourceBound
<1>2. p \in 0 .. SourceSize(s)
  <2> DEFINE end == FrameEnd(s[i])
             size == SourceSize(s)
  <2>1. end \in Nat /\ size \in Nat /\ p < end /\ end <= size
    BY <1>1
  <2> HIDE DEF end, size
  <2>2. p \in 0 .. size
    BY <2>1
  <2> QED
    BY <2>2 DEF size
<1> SUFFICES ASSUME NEW e \in ElementSet(s), Place(s, e) = p, e.el = "header" PROVE FALSE
  BY <1>2, LayoutElement DEF Nothing, Element
<1>3. e.frame \in 1 .. Len(s) /\ p = s[e.frame].at
  BY ElementTypes, HeaderZone
<1> DEFINE at == s[i].at
           end == FrameEnd(s[i])
           eat == s[e.frame].at
           eend == FrameEnd(s[e.frame])
<1>4. e.frame = i => p = at
  BY <1>3
<1>5. /\ e.frame < i => eend <= at
      /\ i < e.frame => end <= eat
  BY <1>3, FrameOrder
<1>6. eat < eend /\ eat \in Nat /\ eend \in Nat
  BY <1>3, SourceTypes, FrameTypes, FrameSize
<1>7. at \in Nat /\ end \in Nat /\ at < p /\ p < end /\ p = eat
  BY <1>1, <1>3
<1> HIDE DEF at, end, eat, eend
<1> QED
  BY <1>3, <1>4, <1>5, <1>6, <1>7

LEMMA NothingLeft ==
  ASSUME NEW s \in Sources
  PROVE  Layout[s][SourceSize(s)] = Nothing
<1>1. SourceSize(s) \in 0 .. SourceSize(s)
  BY SourceTypes, SourceBound
<1> SUFFICES ASSUME NEW e \in ElementSet(s), Place(s, e) = SourceSize(s) PROVE FALSE
  BY <1>1, LayoutElement
<1> DEFINE p == Place(s, e)
           to == ZoneTo(s, e)
           end == FrameEnd(s[e.frame])
           size == SourceSize(s)
<1>2. e.frame \in 1 .. Len(s)
  BY ElementTypes
<1>3. p \in Nat /\ to \in Nat /\ p < to /\ to <= end /\ p = size
  BY PlaceInZone
<1>4. end <= size /\ size \in Nat /\ end \in Nat
  BY <1>2, SourceBound, SourceTypes, FrameTypes
<1> HIDE DEF p, to, end, size
<1> QED
  BY <1>3, <1>4

\* Where the first k frames end the next begins.
LEMMA NextFrame ==
  ASSUME NEW s \in Sources, NEW k \in 0 .. Len(s)
  PROVE  /\ FramesSize(s, k) \in Nat /\ FramesContent(s, k) \in Nat
         /\ k > 0 => FramesSize(s, k) = FrameEnd(s[k]) /\ FramesContent(s, k) = FrameOutEnd(s[k])
         /\ k = Len(s) => FramesSize(s, k) = SourceSize(s) /\ FramesContent(s, k) = OutputSize(s)
         /\ k < Len(s) => /\ FramesSize(s, k) = s[k + 1].at /\ FramesContent(s, k) = s[k + 1].out
                          /\ FramesSize(s, k) < SourceSize(s)
<1>1. Len(s) \in Nat \ {0} /\ s[1].at = 0 /\ s[1].out = 0
  BY SourceTypes
<1>2. CASE k = 0
  <2>1. FramesSize(s, k) = 0 /\ FramesContent(s, k) = 0
    BY <1>2 DEF FramesSize, FramesContent
  <2>2. 1 \in 1 .. Len(s)
    BY <1>1
  <2>3. SourceSize(s) \in Nat /\ s[1].at < FrameEnd(s[1]) /\ FrameEnd(s[1]) <= SourceSize(s)
        /\ FrameEnd(s[1]) \in Nat
    BY <2>2, SourceBound, SourceTypes, FrameSize, FrameTypes
  <2>4. 0 < SourceSize(s)
    <3> DEFINE end == FrameEnd(s[1])
               size == SourceSize(s)
    <3>1. size \in Nat /\ end \in Nat /\ 0 < end /\ end <= size
      BY <1>1, <2>3
    <3> HIDE DEF end, size
    <3>2. 0 < size
      BY <3>1
    <3> QED
      BY <3>2 DEF size
  <2> QED
    BY <1>1, <1>2, <2>1, <2>4
<1>3. CASE k > 0
  <2>1. k \in 1 .. Len(s) /\ s[k] \in Frame
    BY <1>1, <1>3, SourceTypes
  <2>2. FramesSize(s, k) = FrameEnd(s[k]) /\ FramesContent(s, k) = FrameOutEnd(s[k])
    BY <1>3 DEF FramesSize, FramesContent
  <2>3. k = Len(s) => FramesSize(s, k) = SourceSize(s) /\ FramesContent(s, k) = OutputSize(s)
    BY DEF SourceSize, OutputSize
  <2>4. ASSUME k < Len(s)
        PROVE  FrameEnd(s[k]) = s[k + 1].at /\ FrameOutEnd(s[k]) = s[k + 1].out
    <3>1. k + 1 \in 1 .. Len(s) /\ k < k + 1
      BY <1>1, <2>1, <2>4
    <3> QED
      BY <2>1, <3>1, FrameOrder
  <2>5. k < Len(s) => FrameEnd(s[k]) < SourceSize(s)
    BY <2>1, SourceBound
  <2>6. FrameEnd(s[k]) \in Nat /\ FrameOutEnd(s[k]) \in Nat
    BY <2>1, FrameTypes
  <2> QED
    BY <1>3, <2>2, <2>3, <2>4, <2>5, <2>6
<1> QED
  BY <1>1, <1>2, <1>3


-----------------------------------------------------------------------------
\* The context: history is kept by every step.

LEMMA ContextTypes ==
  ASSUME NEW d \in Context
  PROVE  /\ d.expected \in Nat /\ d.stage \in ContextStages /\ d.decodedSize \in Nat
         /\ d.previousDstEnd \in Int /\ d.base \in Int /\ d.vBase \in Int /\ d.dictEnd \in Int
         /\ d.headerSize \in Nat /\ d.params \in Params /\ d.at \in Elements
BY DEF Context

LEMMA CheckFields ==
  ASSUME NEW d \in Context, NEW W \in Nat
  PROVE  LET c == CheckContinuity(d, W) IN
         /\ c \in Context /\ c.expected = d.expected /\ c.stage = d.stage
         /\ c.decodedSize = d.decodedSize /\ c.params = d.params /\ c.at = d.at
         /\ c.previousDstEnd = W
         /\ W = d.previousDstEnd => c = d
         /\ W # d.previousDstEnd =>
              /\ c.dictEnd = d.previousDstEnd /\ c.base = W
              /\ c.vBase = W - (d.previousDstEnd - d.base)
<1>1. CASE W = d.previousDstEnd
  BY <1>1 DEF CheckContinuity
<1>2. CASE W # d.previousDstEnd
  <2> DEFINE end == d.previousDstEnd
             v == W - (d.previousDstEnd - d.base)
             c == CheckContinuity(d, W)
  <2>1. end \in Int /\ v \in Int /\ W \in Int
    BY ContextTypes
  <2>2. c = [d EXCEPT !.dictEnd = end, !.vBase = v, !.base = W, !.previousDstEnd = W]
    BY <1>2 DEF CheckContinuity
  <2>3. W # end
    BY <1>2
  <2> HIDE DEF end, v, c
  <2>4. /\ c.expected = d.expected /\ c.stage = d.stage
        /\ c.decodedSize = d.decodedSize /\ c.params = d.params /\ c.at = d.at
        /\ c.previousDstEnd = W /\ c.dictEnd = end /\ c.base = W /\ c.vBase = v
    BY <2>2 DEF Context
  <2>5. c \in Context
    BY <2>1, <2>2 DEF Context
  <2> QED
    BY <2>3, <2>4, <2>5 DEF c, end, v
<1> QED
  BY <1>1, <1>2

LEMMA DictFacts ==
  /\ DictBase + DictSize = -2 /\ DictBase \in Int /\ DictSize \in Nat
  /\ Wildcopy \in Nat /\ BlockMax \in Nat
BY ConstantTypes DEF DictBase, NULL

LEMMA CheckHistory ==
  ASSUME NEW d \in Context, NEW f \in Frame, NEW n \in Nat, NEW m \in [0 .. n - 1 -> Int],
         NEW W \in Nat, W <= n, History(d, m, n, f, W)
  PROVE  LET c == CheckContinuity(d, W) IN
         /\ FirstLap(c, m, n, f) \/ LaterLap(c, m, n, f)
         /\ History(c, m, n, f, W)
<1> DEFINE c == CheckContinuity(d, W)
           prev == d.previousDstEnd
           dec == d.decodedSize
           base == d.base
           vb == d.vBase
           de == d.dictEnd
           out == f.out
           window == f.window
<1>1. /\ prev \in Int /\ dec \in Nat /\ base \in Int /\ vb \in Int /\ de \in Int
      /\ out \in Nat /\ window \in Nat
  <2>1. prev \in Int /\ dec \in Nat /\ base \in Int /\ vb \in Int /\ de \in Int
    BY ContextTypes
  <2>2. out \in Nat /\ window \in Nat
    BY FrameTypes
  <2> QED
    BY <2>1, <2>2
<1>2. /\ c \in Context /\ c.decodedSize = dec /\ c.previousDstEnd = W
      /\ W = prev => c = d
      /\ W # prev => c.dictEnd = prev /\ c.base = W /\ c.vBase = W - (prev - base)
  BY CheckFields
<1>3. /\ NoLap(d) \/ FirstLap(d, m, n, f) \/ LaterLap(d, m, n, f)
      /\ W = prev \/ (W = 0 /\ (NoLap(d) \/ window + Wildcopy <= prev))
      /\ FirstLapOnly(f, n) => W = dec
  BY DEF History, Continues
<1>4. NoLap(d) => /\ dec = 0 /\ prev < 0 /\ prev - base = DictSize
                  /\ DictSize > 0 => prev = DictBase + DictSize
  BY DEF NoLap
<1>5. FirstLap(d, m, n, f) =>
        /\ base = 0 /\ prev = dec /\ prev <= n /\ Bytes(m, 0, prev, out)
  BY DEF FirstLap
<1>6. LaterLap(d, m, n, f) =>
        /\ base = 0 /\ 0 <= prev /\ prev <= n /\ window + Wildcopy <= de
        /\ de <= dec - prev /\ Bytes(m, 0, prev, out + (dec - prev))
  BY DEF LaterLap
<1>7. FirstLap(c, m, n, f) \/ LaterLap(c, m, n, f)
  <2>1. CASE W = prev
    <3>1. ~NoLap(d)
      <4> HIDE DEF c, prev, dec, base, vb, de
      <4> QED
        BY <2>1, <1>4, <1>1
    <3> QED
      BY <3>1, <2>1, <1>2, <1>3
  <2>2. CASE W # prev /\ NoLap(d)
    <3>1. c.base = 0 /\ c.previousDstEnd = 0 /\ c.decodedSize = 0 /\ c.dictEnd = prev
          /\ c.vBase = 0 - (prev - base)
      BY <2>2, <1>2, <1>3, <1>4
    <3>2. 0 - (prev - base) = -DictSize /\ (DictSize > 0 => prev = DictBase + DictSize)
      <4> HIDE DEF prev, base
      <4> QED
        BY <2>2, <1>1, <1>4, DictFacts
    <3>3. Bytes(m, 0, 0, out) /\ 0 <= n
      BY DEF Bytes
    <3> HIDE DEF c, prev, base
    <3> QED
      BY <3>1, <3>2, <3>3 DEF FirstLap, out
  <2>3. CASE W # prev /\ ~NoLap(d)
    <3>1. W = 0 /\ window + Wildcopy <= prev
      BY <2>3, <1>3
    <3>2. c.base = 0 /\ c.previousDstEnd = 0 /\ c.decodedSize = dec /\ c.dictEnd = prev
          /\ c.vBase = 0 - (prev - base)
      BY <2>3, <3>1, <1>2
    <3>3. /\ base = 0 /\ prev <= n /\ prev <= dec /\ Bytes(m, 0, prev, out + (dec - prev))
      <4>1. CASE FirstLap(d, m, n, f)
        <5>1. out + (dec - prev) = out /\ prev <= dec
          <6>1. prev = dec
            BY <4>1, <1>5
          <6> HIDE DEF out, dec, prev
          <6> QED
            BY <6>1, <1>1
        <5> QED
          BY <4>1, <5>1, <1>5
      <4>2. CASE LaterLap(d, m, n, f)
        <5>1. prev <= dec
          <6>1. window + Wildcopy <= de /\ de <= dec - prev
            BY <4>2, <1>6
          <6> HIDE DEF window, dec, prev, de
          <6> QED
            BY <6>1, <1>1, DictFacts
        <5> QED
          BY <4>2, <5>1, <1>6
      <4> QED
        BY <4>1, <4>2, <2>3, <1>3
    <3>4. 0 - (prev - base) = -prev /\ prev >= 0 /\ prev <= dec - 0 /\ (out + (dec - 0)) - prev = out + (dec - prev)
          /\ out + (dec - 0) \in Int
      <4> HIDE DEF prev, base, out, dec, window
      <4> QED
        BY <3>1, <3>3, <1>1, DictFacts
    <3>5. Bytes(m, 0, 0, out + (dec - 0)) /\ 0 <= n
      BY DEF Bytes
    <3>6. Bytes(m, 0 + Wildcopy, prev, (out + (dec - 0)) - prev)
      <4>1. Bytes(m, 0, prev, (out + (dec - 0)) - prev)
        BY <3>3, <3>4
      <4> HIDE DEF prev, out, dec
      <4> QED
        BY <4>1, DictFacts, <1>1 DEF Bytes
    <3> HIDE DEF c, prev, base, dec
    <3> QED
      BY <3>1, <3>2, <3>3, <3>4, <3>5, <3>6 DEF LaterLap, out, window
  <2> QED
    BY <2>1, <2>2, <2>3
<1>8. Continues(c, f, W)
  BY <1>2 DEF Continues
<1>9. FirstLapOnly(f, n) => W = c.decodedSize
  BY <1>2, <1>3
<1> QED
  BY <1>7, <1>8, <1>9 DEF History


\* Every byte a match may refer to is where the context looks for it.
LEMMA HistoryFound ==
  ASSUME NEW s \in Sources, NEW i \in 1 .. Len(s), FrameOfBlocks(s[i]),
         NEW b \in 1 .. Len(s[i].blocks), NEW d \in Context, NEW n \in Nat,
         NEW m \in [0 .. n - 1 -> Int], NEW W \in Nat, W <= n, d.previousDstEnd = W,
         FirstLap(d, m, n, s[i]) \/ LaterLap(d, m, n, s[i])
  PROVE  HistoryThere(s, d, m, W, Element("data", i, b))
<1> DEFINE f == s[i]
           out == f.out
           dec == d.decodedSize
           base == d.base
           vb == d.vBase
           de == d.dictEnd
           window == f.window
           rsize == f.blocks[b].rsize
           reach == f.reach
<1>1. /\ f \in Frame /\ out \in Nat /\ window \in Nat /\ reach \in Nat /\ rsize \in Nat
  <2>1. f \in Frame
    BY SourceTypes
  <2>2. f.blocks[b] \in Block
    BY <2>1, FrameTypes
  <2> QED
    BY <2>1, <2>2, FrameTypes, BlockTypes
<1>2. dec \in Nat /\ base \in Int /\ vb \in Int /\ de \in Int
  BY ContextTypes
<1>3. reach <= window
  BY DEF FrameOfBlocks
<1>4. FramesContent(s, i - 1) = out
  <2>1. Len(s) \in Nat /\ i - 1 \in 0 .. Len(s) /\ i - 1 < Len(s) /\ (i - 1) + 1 = i
    BY SourceTypes
  <2> QED
    BY <2>1, NextFrame
<1>f. FirstLap(d, m, n, f) =>
        /\ base = 0 /\ dec = W /\ vb = -DictSize
        /\ DictSize > 0 => de = DictBase + DictSize
        /\ Bytes(m, 0, W, out)
  BY DEF FirstLap
<1>l. LaterLap(d, m, n, f) =>
        /\ base = 0 /\ vb = -de /\ window + Wildcopy <= de /\ de <= n /\ de <= dec - W
        /\ Bytes(m, 0, W, out + (dec - W))
        /\ Bytes(m, W + Wildcopy, de, (out + (dec - W)) - de)
  BY DEF LaterLap
<1> SUFFICES ASSUME NEW k \in 0 .. rsize - 1,
                    NEW off \in 1 .. Smaller(reach, dec + k + DictSize), ~(off <= k)
             PROVE  LET a == MatchAddress(d, W + k, off) IN
                    /\ off <= W + k - vb
                    /\ a \notin W .. W + k + Wildcopy - 1
                    /\ ReadAt(m, a) = Earlier(s, i, dec + k, off)
  BY DEF HistoryThere, Element
<1> HIDE DEF out, dec, base, vb, de, window, rsize, reach
<1> DEFINE x == off - k
<1>5. /\ k \in Nat /\ off \in Nat /\ x \in Nat /\ x > 0 /\ off = x + k
      /\ off <= window /\ off <= dec + k + DictSize
  <2>1. k \in Nat /\ off \in Nat /\ off > k
    BY <1>1
  <2>2. off <= reach /\ off <= dec + k + DictSize
    BY <2>1, <1>1, <1>2, DictFacts DEF Smaller
  <2> QED
    BY <2>1, <2>2, <1>1, <1>3
<1>6. MatchAddress(d, W + k, off) =
        IF off <= W + k - base THEN W + k - off ELSE de - (off - (W + k - base))
  <2>1. MatchAddress(d, W + k, off) =
          IF off <= (W + k) - base THEN (W + k) - off ELSE de - (off - ((W + k) - base))
    BY DEF MatchAddress, base, de
  <2>2. (W + k) - base = W + k - base /\ (W + k) - off = W + k - off
    BY <1>2, <1>5
  <2> QED
    BY <2>1, <2>2
<1>7. Earlier(s, i, dec + k, off) = IF off <= dec + k THEN out + dec + k - off + 1 ELSE dec + k - off
  <2>1. Earlier(s, i, dec + k, off) =
          IF off <= dec + k THEN FramesContent(s, i - 1) + (dec + k) - off + 1 ELSE (dec + k) - off
    BY DEF Earlier
  <2>2. /\ out + (dec + k) - off + 1 = out + dec + k - off + 1
        /\ (dec + k) - off = dec + k - off
    BY <1>1, <1>2, <1>5
  <2> QED
    BY <2>1, <2>2, <1>4
<1>8. \A a \in Int : a \notin DictBase .. DictBase + DictSize - 1 /\ a \in 0 .. n - 1 => ReadAt(m, a) = m[a]
  BY DEF ReadAt
<1>9. \A a \in Int : a \in DictBase .. DictBase + DictSize - 1 => ReadAt(m, a) = a - DictBase - DictSize
  BY DEF ReadAt
<1>10. CASE FirstLap(d, m, n, f)
  <2>1. /\ base = 0 /\ dec = W /\ vb = -DictSize
        /\ DictSize > 0 => de = DictBase + DictSize
        /\ Bytes(m, 0, W, out)
    BY <1>10, <1>f
  <2>2. CASE x <= W
    <3> DEFINE a == W - x
    <3>1. off <= W + k - base /\ W + k - off = a /\ a \in 0 .. W - 1 /\ a \in 0 .. n - 1
          /\ off <= dec + k
      <4> HIDE DEF x, base, dec, vb, de
      <4> QED
        BY <2>1, <2>2, <1>2, <1>5
    <3>2. m[a] = out + a + 1
      BY <2>1, <3>1 DEF Bytes
    <3>3. ReadAt(m, a) = m[a]
      <4>1. a \in Int /\ a \notin DictBase .. DictBase + DictSize - 1
        <5> HIDE DEF a
        <5> QED
          BY <3>1, DictFacts
      <4> QED
        BY <3>1, <4>1, <1>8
    <3>4. MatchAddress(d, W + k, off) = a
      BY <3>1, <1>6
    <3>5. Earlier(s, i, dec + k, off) = out + a + 1
      <4>1. out + dec + k - off + 1 = out + a + 1
        <5> HIDE DEF out, dec
        <5> QED
          BY <1>1, <1>2, <1>5, <2>1
      <4> QED
        BY <3>1, <4>1, <1>7
    <3>6. a \notin W .. W + k + Wildcopy - 1
      <4> HIDE DEF a
      <4> QED
        BY <3>1, <1>5, DictFacts
    <3>7. off <= W + k - vb
      <4> HIDE DEF x, vb, base
      <4> QED
        BY <2>1, <3>1, <1>5, DictFacts
    <3> QED
      BY <3>2, <3>3, <3>4, <3>5, <3>6, <3>7
  <2>3. CASE x > W
    <3> DEFINE a == de - (x - W)
    <3>1. DictSize > 0 /\ x - W <= DictSize
      <4> HIDE DEF x, dec
      <4> QED
        BY <2>1, <2>3, <1>2, <1>5, DictFacts
    <3>2. ~(off <= W + k - base) /\ de - (off - (W + k - base)) = a /\ ~(off <= dec + k)
      <4> HIDE DEF x, dec, base, de
      <4> QED
        BY <2>1, <2>3, <1>2, <1>5
    <3>3. a \in Int /\ a \in DictBase .. DictBase + DictSize - 1
      <4> HIDE DEF x, de
      <4> QED
        BY <2>1, <2>3, <3>1, <1>2, <1>5, DictFacts
    <3>4. ReadAt(m, a) = a - DictBase - DictSize
      BY <3>3, <1>9
    <3>5. MatchAddress(d, W + k, off) = a
      BY <3>2, <1>6
    <3>6. Earlier(s, i, dec + k, off) = dec + k - off
      BY <3>2, <1>7
    <3>7. a - DictBase - DictSize = dec + k - off
      <4> HIDE DEF x, de, dec
      <4> QED
        BY <2>1, <3>1, <1>2, <1>5, DictFacts
    <3>8. a \notin W .. W + k + Wildcopy - 1
      <4> HIDE DEF a
      <4> QED
        BY <3>3, <1>5, DictFacts
    <3>9. off <= W + k - vb
      <4> HIDE DEF x, vb, dec
      <4> QED
        BY <2>1, <1>2, <1>5, DictFacts
    <3> QED
      BY <3>4, <3>5, <3>6, <3>7, <3>8, <3>9
  <2> QED
    BY <2>2, <2>3, <1>5
<1>11. CASE LaterLap(d, m, n, f)
  <2> DEFINE first == out + (dec - W)
  <2>1. /\ base = 0 /\ vb = -de /\ window + Wildcopy <= de /\ de <= n /\ de <= dec - W
        /\ Bytes(m, 0, W, first) /\ Bytes(m, W + Wildcopy, de, first - de)
    BY <1>11, <1>l
  <2>2. off <= W + k - vb /\ off <= dec + k
    <3> HIDE DEF x, vb, de, window, dec
    <3> QED
      BY <2>1, <1>1, <1>2, <1>5, DictFacts
  <2>3. CASE x <= W
    <3> DEFINE a == W - x
    <3>1. off <= W + k - base /\ W + k - off = a /\ a \in 0 .. W - 1 /\ a \in 0 .. n - 1
      <4> HIDE DEF x, base, dec, vb, de
      <4> QED
        BY <2>1, <2>3, <1>2, <1>5
    <3>2. m[a] = first + a + 1
      <4> HIDE DEF first
      <4> QED
        BY <2>1, <3>1 DEF Bytes
    <3>3. ReadAt(m, a) = m[a]
      <4>1. a \in Int /\ a \notin DictBase .. DictBase + DictSize - 1
        <5> HIDE DEF a
        <5> QED
          BY <3>1, DictFacts
      <4> QED
        BY <3>1, <4>1, <1>8
    <3>4. MatchAddress(d, W + k, off) = a
      BY <3>1, <1>6
    <3>5. Earlier(s, i, dec + k, off) = first + a + 1
      <4>1. out + dec + k - off + 1 = first + a + 1
        <5> HIDE DEF out, dec
        <5> QED
          BY <1>1, <1>2, <1>5, <2>1
      <4> QED
        BY <2>2, <4>1, <1>7
    <3>6. a \notin W .. W + k + Wildcopy - 1
      <4> HIDE DEF a
      <4> QED
        BY <3>1, <1>5, DictFacts
    <3> QED
      BY <2>2, <3>2, <3>3, <3>4, <3>5, <3>6
  <2>4. CASE x > W
    <3> DEFINE a == de - (x - W)
    <3>1. ~(off <= W + k - base) /\ de - (off - (W + k - base)) = a
      <4> HIDE DEF x, dec, base, de
      <4> QED
        BY <2>1, <2>4, <1>2, <1>5
    <3>2. a \in Int /\ W + k + Wildcopy <= a /\ a <= de - 1 /\ a <= n - 1
      <4> HIDE DEF x, de, window
      <4> QED
        BY <2>1, <2>4, <1>1, <1>2, <1>5, DictFacts
    <3>3. a \in W + Wildcopy .. de - 1 /\ a \in 0 .. n - 1 /\ a \notin W .. W + k + Wildcopy - 1
          /\ a \notin DictBase .. DictBase + DictSize - 1
      <4> HIDE DEF a, de
      <4> QED
        BY <3>2, <1>2, <1>5, DictFacts
    <3>4. m[a] = (first - de) + a + 1
      <4> HIDE DEF first, a, de
      <4> QED
        BY <2>1, <3>3 DEF Bytes
    <3>5. ReadAt(m, a) = m[a]
      BY <3>2, <3>3, <1>8
    <3>6. MatchAddress(d, W + k, off) = a
      BY <3>1, <1>6
    <3>7. (first - de) + a + 1 = out + dec + k - off + 1
      <4> HIDE DEF out, dec, de
      <4> QED
        BY <1>1, <1>2, <1>5
    <3> QED
      BY <2>2, <3>3, <3>4, <3>5, <3>6, <3>7, <1>7
  <2> QED
    BY <2>3, <2>4, <1>5
<1> QED
  BY <1>10, <1>11



-----------------------------------------------------------------------------
\* One block, written where the history ends.

LEMMA AfterBlock ==
  ASSUME NEW f \in Frame, FrameOfBlocks(f), NEW b \in 1 .. Len(f.blocks)
  PROVE  /\ f.blocks[b] \in Block
         /\ b < Len(f.blocks) =>
              /\ b + 1 \in 1 .. Len(f.blocks)
              /\ f.blocks[b + 1].at = BlockEnd(f.blocks[b])
              /\ f.blocks[b + 1].out = f.blocks[b].out + f.blocks[b].rsize
         /\ b = Len(f.blocks) =>
              /\ BlockEnd(f.blocks[b]) + TrailerSize(f) = FrameEnd(f)
              /\ f.blocks[b].out + f.blocks[b].rsize = f.out + f.content
<1>1. Len(f.blocks) \in Nat /\ f.blocks[b] \in Block
  BY FrameTypes
<1>2. ASSUME b < Len(f.blocks)
      PROVE  /\ b + 1 \in 1 .. Len(f.blocks)
             /\ f.blocks[b + 1].at = BlockEnd(f.blocks[b])
             /\ f.blocks[b + 1].out = f.blocks[b].out + f.blocks[b].rsize
  <2>1. b + 1 \in 1 .. Len(f.blocks) /\ b < b + 1
    BY <1>1, <1>2
  <2> QED
    BY <2>1, BlockOrder
<1>3. ASSUME b = Len(f.blocks)
      PROVE  /\ BlockEnd(f.blocks[b]) + TrailerSize(f) = FrameEnd(f)
             /\ f.blocks[b].out + f.blocks[b].rsize = f.out + f.content
  BY <1>3 DEF FrameOfBlocks, FrameOutEnd
<1> QED
  BY <1>1, <1>2, <1>3

LEMMA BlockSizes ==
  ASSUME NEW f \in Frame, FrameOfBlocks(f), NEW b \in 1 .. Len(f.blocks)
  PROVE  /\ f.blocks[b].csize <= BlockSizeMax(f) /\ f.blocks[b].rsize <= BlockSizeMax(f)
         /\ f.blocks[b].csize = 0 => f.blocks[b].rsize = 0
         /\ f.fcs \in {Unknown, f.content} /\ BlockSizeMax(f) \in Nat
         /\ BlockSizeMax(f) <= f.window
<1>1. BlockSizeMax(f) \in Nat /\ BlockSizeMax(f) <= f.window
  <2> DEFINE window == f.window
  <2>1. window \in Nat /\ BlockMax \in Nat
    BY FrameTypes, ConstantTypes
  <2> HIDE DEF window
  <2>2. Smaller(window, BlockMax) \in Nat /\ Smaller(window, BlockMax) <= window
    BY <2>1 DEF Smaller
  <2> QED
    BY <2>2 DEF BlockSizeMax, window
<1> QED
  BY <1>1 DEF FrameOfBlocks, BlockSizeMax

\* It finds the room it needs.
LEMMA BlockFits ==
  ASSUME NEW s \in Sources, NEW i \in 1 .. Len(s), FrameOfBlocks(s[i]),
         NEW b \in 1 .. Len(s[i].blocks), NEW d \in Context, NEW n \in Nat, NEW m,
         NEW p \in Params, NEW W \in Nat, W <= n, InBlocks(d),
         n > 0 => History(d, m, n, s[i], W), Sized(p, n, s[i]), Room(d, n, s[i], W),
         d.decodedSize = s[i].blocks[b].out - s[i].out
  PROVE  W + s[i].blocks[b].rsize <= n
<1> DEFINE f == s[i]
           blk == f.blocks[b]
           rsize == blk.rsize
           bout == blk.out
           out == f.out
           content == f.content
           fcs == f.fcs
           dec == d.decodedSize
           max == BlockSizeMax(f)
<1>1. f \in Frame /\ blk \in Block
  BY SourceTypes, FrameTypes
<1>2. /\ rsize \in Nat /\ bout \in Nat /\ out \in Nat /\ content \in Nat
      /\ fcs \in Nat \cup {Unknown} /\ dec \in Nat /\ max \in Nat
      /\ rsize <= max /\ fcs \in {Unknown, content} /\ dec = bout - out
  BY <1>1, FrameTypes, BlockTypes, BlockSizes, ContextTypes
<1>3. out <= bout /\ bout + rsize <= out + content
  BY <1>1, BlockPlaces DEF FrameOutEnd
<1>4. CASE FirstLapOnly(f, n)
  <2>1. n >= content
    BY <1>2, <1>4 DEF FirstLapOnly
  <2>2. n > 0 => W = dec
    BY <1>4 DEF History
  <2> HIDE DEF rsize, bout, out, content, dec, fcs, max, f, blk
  <2>3. dec + rsize <= content
    BY <1>2, <1>3
  <2>4. W + rsize <= n
    BY <2>1, <2>2, <2>3, <1>2
  <2> QED
    BY <2>4 DEF rsize, blk, f
<1>5. CASE ~FirstLapOnly(f, n)
  <2>1. W + max <= n
    BY <1>5 DEF Room
  <2> HIDE DEF rsize, max
  <2>2. W + rsize <= n
    BY <2>1, <1>2
  <2> QED
    BY <2>2 DEF rsize
<1> QED
  BY <1>4, <1>5

\* Memory k is m with the size bytes of output after byte first written at W, and
\* whatever the last copy left behind them.
Written(k, m, n, W, size, first) ==
  /\ k \in [0 .. n - 1 -> Int]
  /\ \A a \in W .. (W + size) - 1 : k[a] = first + 1 + a - W
  /\ \A a \in 0 .. W - 1 : k[a] = m[a]
  /\ \A a \in (W + size) + Wildcopy .. n - 1 : k[a] = m[a]

IsBlock(blk, s, i, b) == blk = s[i].blocks[b]

LEMMA BlockWritten ==
  ASSUME NEW s \in Sources, NEW i \in 1 .. Len(s), NEW b \in 1 .. Len(s[i].blocks),
         NEW blk \in Block, IsBlock(blk, s, i, b), NEW c, NEW n \in Nat,
         NEW m \in [0 .. n - 1 -> Int], NEW W \in Nat, NEW cap, cap = n - W,
         W + blk.rsize <= n, HistoryThere(s, c, m, W, Element("data", i, b))
  PROVE  LET w == DecodeBlock(s, c, m, W, cap, Element("data", i, b)) IN
         w.ret = blk.rsize /\ Written(w.m, m, n, W, blk.rsize, blk.out)
<1> DEFINE e == Element("data", i, b)
           rsize == blk.rsize
           bout == blk.out
           to == W + rsize
           over == IF blk.type = "comp" THEN Wildcopy ELSE 0
           At(a) == IF a \in W .. to - 1 THEN (bout + 1) + a - W
                    ELSE IF a \in to .. Smaller(to + over, W + cap) - 1 THEN 0 ELSE m[a]
           w == DecodeBlock(s, c, m, W, cap, e)
<1>1. rsize \in Nat /\ bout \in Nat
  BY BlockTypes
<1>2. e.frame = i /\ e.block = b
  BY DEF Element
<1>3. ~(rsize > cap)
  <2> HIDE DEF rsize
  <2>1. W + rsize <= n
    BY DEF rsize
  <2> QED
    BY <1>1, <2>1
<1>4. w = [ret |-> rsize, m |-> [a \in 0 .. n - 1 |-> At(a)]]
  <2> DEFINE g == s[e.frame].blocks[e.block]
             Raw(a) == IF a \in W .. W + g.rsize - 1
                       THEN IF g.type # "comp" \/ HistoryThere(s, c, m, W, e)
                            THEN (OutputBefore(s, e) + 1) + a - W ELSE 0
                       ELSE IF a \in W + g.rsize ..
                                 Smaller(W + g.rsize + (IF g.type = "comp" THEN Wildcopy ELSE 0), W + cap) - 1
                       THEN 0 ELSE m[a]
             past == W + g.rsize
             gover == IF g.type = "comp" THEN Wildcopy ELSE 0
             first == OutputBefore(s, e) + 1
             good == g.type # "comp" \/ HistoryThere(s, c, m, W, e)
  <2>1. w = IF g.rsize > cap THEN [ret |-> Error.dstSize_tooSmall, m |-> m]
            ELSE [ret |-> g.rsize, m |-> [a \in DOMAIN m |-> Raw(a)]]
    <3> HIDE DEF e
    <3> QED
      BY DEF DecodeBlock
  <2>2. g = blk /\ past = to /\ gover = over /\ first = bout + 1 /\ good
    BY <1>2 DEF OutputBefore, IsBlock
  <2>3. ASSUME NEW a PROVE Raw(a) = At(a)
    <3>1. Raw(a) = IF a \in W .. past - 1 THEN IF good THEN first + a - W ELSE 0
                   ELSE IF a \in past .. Smaller(past + gover, W + cap) - 1
                   THEN 0 ELSE m[a]
      <4>1. W + (g.rsize - 1) = past - 1
        <5> DEFINE size == g.rsize
        <5>1. size \in Nat
          BY <1>1, <2>2
        <5> HIDE DEF size
        <5>2. W + (size - 1) = (W + size) - 1
          BY <5>1
        <5> QED
          BY <5>2 DEF size
      <4> HIDE DEF e, g, past
      <4>2. past = W + g.rsize
        BY DEF past
      <4> QED
        BY <4>1, <4>2
    <3> HIDE DEF e, g, past, gover, first, good, to, over, bout, Raw
    <3> QED
      BY <2>2, <3>1
  <2>4. DOMAIN m = 0 .. n - 1
    OBVIOUS
  <2> HIDE DEF Raw, At, w, g, e
  <2> QED
    BY <2>1, <2>2, <2>3, <2>4, <1>3
<1>5. /\ to \in Nat /\ over \in Nat /\ over <= Wildcopy /\ to <= n /\ Wildcopy \in Nat
      /\ W + cap = n
  <2>1. W + rsize <= n
    OBVIOUS
  <2> HIDE DEF rsize
  <2>2. to \in Nat /\ to <= n /\ W + cap = n
    BY <1>1, <2>1
  <2>3. over \in Nat /\ over <= Wildcopy /\ Wildcopy \in Nat
    BY ConstantTypes
  <2> QED
    BY <2>2, <2>3
<1> HIDE DEF to, over, bout, rsize
<1>6. \A a \in 0 .. n - 1 : At(a) \in Int
  BY <1>1, <1>5
<1>7. \A a \in W .. to - 1 : a \in 0 .. n - 1 /\ At(a) = bout + 1 + a - W
  BY <1>1, <1>5
<1>8. \A a \in 0 .. W - 1 : a \in 0 .. n - 1 /\ At(a) = m[a]
  <2>1. to >= W
    BY <1>1 DEF to
  <2> QED
    BY <1>1, <1>5, <2>1
<1>9. \A a \in to + Wildcopy .. n - 1 : a \in 0 .. n - 1 /\ At(a) = m[a]
  <2>0. Smaller(to + over, W + cap) <= to + Wildcopy /\ Smaller(to + over, W + cap) \in Int
    BY <1>5 DEF Smaller
  <2>1. ASSUME NEW a \in to + Wildcopy .. n - 1
        PROVE  a \in 0 .. n - 1 /\ a \notin W .. to - 1
               /\ a \notin to .. Smaller(to + over, W + cap) - 1
    BY <2>0, <1>5
  <2> QED
    BY <2>1
<1> HIDE DEF At, w
<1>10. /\ w.ret = rsize /\ w.m = [a \in 0 .. n - 1 |-> At(a)]
  BY <1>4
<1>11. w.m \in [0 .. n - 1 -> Int] /\ \A a \in 0 .. n - 1 : w.m[a] = At(a)
  BY <1>6, <1>10
<1> QED
  <2>1. Written(w.m, m, n, W, rsize, bout)
    BY <1>7, <1>8, <1>9, <1>11 DEF Written, to
  <2> QED
    BY <2>1, <1>10 DEF w, bout, rsize


\* A block of size bytes written at W prolongs the lap it belongs to.
LEMMA LapProlonged ==
  ASSUME NEW f \in Frame, NEW n \in Nat, NEW m \in [0 .. n - 1 -> Int],
         NEW k, NEW W \in Nat, NEW size \in Nat, W + size <= n,
         NEW d \in Context, NEW c \in Context, d.previousDstEnd = W,
         FirstLap(d, m, n, f) \/ LaterLap(d, m, n, f), FirstLapOnly(f, n) => W = d.decodedSize,
         c.base = d.base, c.vBase = d.vBase, c.dictEnd = d.dictEnd,
         c.previousDstEnd = W + size, c.decodedSize = d.decodedSize + size,
         Written(k, m, n, W, size, f.out + d.decodedSize)
  PROVE  History(c, k, n, f, W + size)
<1> DEFINE out == f.out
           dec == d.decodedSize
           de == d.dictEnd
           window == f.window
           to == W + size
           cdec == c.decodedSize
<1>1. /\ out \in Nat /\ dec \in Nat /\ de \in Int /\ window \in Nat /\ to \in Nat /\ cdec \in Nat
      /\ Wildcopy \in Nat
  BY FrameTypes, ContextTypes, ConstantTypes
<1>2. cdec = dec + size /\ c.dictEnd = de
  OBVIOUS
<1>3. /\ \A a \in W .. to - 1 : k[a] = (out + dec) + 1 + a - W
      /\ \A a \in 0 .. W - 1 : k[a] = m[a]
      /\ \A a \in to + Wildcopy .. n - 1 : k[a] = m[a]
  BY DEF Written
<1>4. FirstLap(d, m, n, f) \/ LaterLap(d, m, n, f)
  OBVIOUS
<1>5. FirstLap(d, m, n, f) =>
        /\ d.base = 0 /\ W = dec /\ d.vBase = -DictSize
        /\ DictSize > 0 => de = DictBase + DictSize
        /\ Bytes(m, 0, W, out)
  BY DEF FirstLap
<1>6. LaterLap(d, m, n, f) =>
        /\ d.base = 0 /\ d.vBase = -de /\ window + Wildcopy <= de /\ de <= n /\ de <= dec - W
        /\ Bytes(m, 0, W, out + (dec - W))
        /\ Bytes(m, W + Wildcopy, de, (out + (dec - W)) - de)
  BY DEF LaterLap
<1>7. FirstLapOnly(f, n) => to = cdec
  <2>1. FirstLapOnly(f, n) => W = dec
    OBVIOUS
  <2> QED
    BY <2>1, <1>2
<1>8. FirstLap(c, k, n, f) \/ LaterLap(c, k, n, f)
  <2>1. CASE FirstLap(d, m, n, f)
    <3>1. Bytes(k, 0, to, out)
      <4>1. W = dec /\ Bytes(m, 0, W, out)
        BY <2>1, <1>5
      <4> HIDE DEF out, dec, to
      <4>2. ASSUME NEW a \in 0 .. to - 1 PROVE k[a] = out + a + 1
        <5>1. CASE a \in 0 .. W - 1
          BY <5>1, <4>1, <1>3 DEF Bytes
        <5>2. CASE a \in W .. to - 1
          BY <5>2, <4>1, <1>1, <1>3
        <5> QED
          BY <5>1, <5>2, <1>1
      <4> QED
        BY <4>2 DEF Bytes
    <3>2. to = cdec /\ to <= n
      BY <2>1, <1>2, <1>5
    <3> QED
      BY <2>1, <3>1, <3>2, <1>5, <1>2 DEF FirstLap
  <2>2. CASE LaterLap(d, m, n, f)
    <3>1. cdec - to = dec - W /\ to <= n /\ 0 <= to
      <4> HIDE DEF cdec, dec
      <4> QED
        BY <1>1, <1>2
    <3>2. Bytes(k, 0, to, out + (dec - W)) /\ Bytes(k, to + Wildcopy, de, (out + (dec - W)) - de)
      <4>1. /\ Bytes(m, 0, W, out + (dec - W)) /\ de <= n
            /\ Bytes(m, W + Wildcopy, de, (out + (dec - W)) - de)
        BY <2>2, <1>6
      <4>0. W <= to
        OBVIOUS
      <4> HIDE DEF out, dec, to, de
      <4>2. ASSUME NEW a \in 0 .. to - 1 PROVE k[a] = (out + (dec - W)) + a + 1
        <5>1. CASE a \in 0 .. W - 1
          BY <5>1, <4>1, <1>3 DEF Bytes
        <5>2. CASE a \in W .. to - 1
          <6>1. k[a] = (out + dec) + 1 + a - W
            BY <5>2, <1>3
          <6> QED
            BY <6>1, <5>2, <1>1
        <5> QED
          BY <5>1, <5>2, <1>1
      <4>3. ASSUME NEW a \in to + Wildcopy .. de - 1 PROVE k[a] = ((out + (dec - W)) - de) + a + 1
        <5>1. a \in to + Wildcopy .. n - 1 /\ a \in W + Wildcopy .. de - 1
          BY <4>0, <4>1, <1>1
        <5> QED
          BY <5>1, <4>1, <1>3 DEF Bytes
      <4> QED
        BY <4>2, <4>3 DEF Bytes
    <3>3. /\ c.base = 0 /\ c.vBase = -c.dictEnd /\ c.previousDstEnd = to /\ c.dictEnd = de
          /\ window + Wildcopy <= de /\ de <= n /\ de <= dec - W
      BY <2>2, <1>6
    <3> HIDE DEF out, dec, to, de
    <3> QED
      BY <3>1, <3>2, <3>3 DEF LaterLap, cdec, window, out
  <2> QED
    BY <1>4, <2>1, <2>2
<1>9. Continues(c, f, W + size)
  BY DEF Continues
<1> QED
  BY <1>7, <1>8, <1>9 DEF History

\* Only these fields of a context are about history.
LEMMA SameHistory ==
  ASSUME NEW d, NEW c, NEW m, NEW n, NEW f, NEW W,
         c.decodedSize = d.decodedSize, c.previousDstEnd = d.previousDstEnd,
         c.base = d.base, c.vBase = d.vBase, c.dictEnd = d.dictEnd, History(d, m, n, f, W)
  PROVE  History(c, m, n, f, W)
<1>1. NoLap(d) => NoLap(c)
  BY DEF NoLap
<1>2. FirstLap(d, m, n, f) => FirstLap(c, m, n, f)
  BY DEF FirstLap
<1>3. LaterLap(d, m, n, f) => LaterLap(c, m, n, f)
  BY DEF LaterLap
<1>4. Continues(d, f, W) => Continues(c, f, W)
  BY <1>1 DEF Continues
<1> QED
  BY <1>1, <1>2, <1>3, <1>4 DEF History


-----------------------------------------------------------------------------
\* One call of ZSTD1_decompressContinue on what it expects.

\* What is common to the contexts d and c: all that is about the history.
SamePast(d, c) ==
  /\ c.decodedSize = d.decodedSize /\ c.previousDstEnd = d.previousDstEnd
  /\ c.base = d.base /\ c.vBase = d.vBase /\ c.dictEnd = d.dictEnd /\ c.params = d.params
  /\ c.at = d.at

LEMMA ToBlockHeaderFields ==
  ASSUME NEW d \in Context
  PROVE  LET c == ToBlockHeader(d) IN
         /\ c \in Context /\ SamePast(d, c)
         /\ c.stage = "decodeBlockHeader" /\ c.expected = BlockHeader
BY DEF ToBlockHeader, Context, ContextStages, SamePast, BlockHeader

LEMMA EndOfFrameFields ==
  ASSUME NEW d \in Context, NEW sum \in BOOLEAN
  PROVE  LET c == EndOfFrame(d, sum) IN
         /\ c \in Context /\ SamePast(d, c)
         /\ IF sum THEN c.stage = "checkChecksum" /\ c.expected = Checksum
            ELSE c.stage = "getFrameHeaderSize" /\ c.expected = 0
BY DEF EndOfFrame, Context, ContextStages, SamePast, Checksum

LEMMA ExpectFields ==
  ASSUME NEW d \in Context, NEW size \in Nat, NEW st \in ContextStages
  PROVE  LET c == [d EXCEPT !.expected = size, !.stage = st] IN
         c \in Context /\ SamePast(d, c) /\ c.stage = st /\ c.expected = size
BY DEF Context, SamePast

LEMMA DecodedFields ==
  ASSUME NEW d \in Context, NEW size \in Nat
  PROVE  LET c == [d EXCEPT !.decodedSize = @ + size] IN
         /\ c \in Context /\ c.decodedSize = d.decodedSize + size
         /\ c.previousDstEnd = d.previousDstEnd /\ c.base = d.base /\ c.vBase = d.vBase
         /\ c.dictEnd = d.dictEnd /\ c.params = d.params /\ c.at = d.at
         /\ c.stage = d.stage /\ c.expected = d.expected
<1> DEFINE dec == d.decodedSize + size
<1>1. dec \in Nat
  BY ContextTypes
<1> HIDE DEF dec
<1>2. LET c == [d EXCEPT !.decodedSize = dec] IN
         /\ c \in Context /\ c.decodedSize = dec
         /\ c.previousDstEnd = d.previousDstEnd /\ c.base = d.base /\ c.vBase = d.vBase
         /\ c.dictEnd = d.dictEnd /\ c.params = d.params /\ c.at = d.at
         /\ c.stage = d.stage /\ c.expected = d.expected
  BY <1>1 DEF Context
<1> QED
  BY <1>2 DEF dec

LEMMA PrevFields ==
  ASSUME NEW d \in Context, NEW a \in Int
  PROVE  LET c == [d EXCEPT !.previousDstEnd = a] IN
         /\ c \in Context /\ c.decodedSize = d.decodedSize /\ c.previousDstEnd = a
         /\ c.base = d.base /\ c.vBase = d.vBase /\ c.dictEnd = d.dictEnd
         /\ c.params = d.params /\ c.at = d.at /\ c.stage = d.stage /\ c.expected = d.expected
BY DEF Context

\* After the blocks: the checksum, or the end.
LEMMA PastBlocks ==
  ASSUME NEW d \in Context, NEW f \in Frame, FrameOfBlocks(f), NEW P \in Nat,
         P + TrailerSize(f) = FrameEnd(f), d.decodedSize = f.content
  PROVE  LET c == EndOfFrame(d, f.cksum) IN
         /\ c \in Context /\ SamePast(d, c) /\ ~InBlocks(c) /\ c.stage # "skipFrame"
         /\ AtChecksum(c, f, P) \/ AtEnd(c, f, P)
<1> DEFINE c == EndOfFrame(d, f.cksum)
           end == FrameEnd(f)
<1>1. f.cksum \in BOOLEAN /\ end \in Nat /\ P + TrailerSize(f) = end
  BY FrameTypes
<1>2. /\ c \in Context /\ SamePast(d, c)
      /\ IF f.cksum THEN c.stage = "checkChecksum" /\ c.expected = Checksum
         ELSE c.stage = "getFrameHeaderSize" /\ c.expected = 0
  BY <1>1, EndOfFrameFields
<1> HIDE DEF c, end
<1>3. IF f.cksum THEN P = end - Checksum ELSE P = end
  BY <1>1 DEF TrailerSize, Checksum
<1>4. ~InBlocks(c) /\ c.stage # "skipFrame" /\ c.decodedSize = f.content
  BY <1>1, <1>2 DEF InBlocks, SamePast
<1>5. AtChecksum(c, f, P) \/ AtEnd(c, f, P)
  BY <1>1, <1>2, <1>3, <1>4 DEF AtChecksum, AtEnd, end
<1> QED
  BY <1>2, <1>4, <1>5 DEF c

\* What every call of ZSTD1_decompressContinue gives: c is the context and k the
\* memory it leaves, size what it wrote.
Continued(d, n, p, f, P, W, c, k, size) ==
  /\ size \in Nat /\ c \in Context /\ k \in [0 .. n - 1 -> Int] /\ W + size <= n
  /\ Decoding(c, k, n, p, f, P + d.expected, W + size)
  /\ c.decodedSize = d.decodedSize + size
  /\ Bytes(k, W, W + size, (f.out + d.decodedSize) - W)
  /\ size = 0 => Room(c, n, f, W)
  /\ c.stage # "skipFrame"
  /\ d.stage = "skipFrame" => size = 0

\* When nothing is written.
LEMMA NothingWritten ==
  ASSUME NEW d \in Context, NEW c \in Context, NEW n \in Nat, NEW m \in [0 .. n - 1 -> Int],
         NEW p, NEW f \in Frame, NEW P \in Nat, NEW W \in Nat, W <= n,
         Decoding(c, m, n, p, f, P + d.expected, W), c.decodedSize = d.decodedSize,
         Room(c, n, f, W), c.stage # "skipFrame"
  PROVE  Continued(d, n, p, f, P, W, c, m, 0)
<1> DEFINE dec == d.decodedSize
           k == (f.out + dec) - W
<1>1. dec \in Nat
  BY ContextTypes
<1>2. W + 0 = W /\ W .. W - 1 = {}
  OBVIOUS
<1>3. Bytes(m, W, W, k)
  BY <1>2 DEF Bytes
<1>4. c.decodedSize = dec + 0
  <2>1. c.decodedSize = dec
    OBVIOUS
  <2> HIDE DEF dec
  <2> QED
    BY <1>1, <2>1
<1> QED
  BY <1>2, <1>3, <1>4 DEF Continued


\* The context a call works on: the destination is checked where there is room.
Checked(d, W, cap) == IF cap > 0 THEN CheckContinuity(d, W) ELSE d

LEMMA CheckedFields ==
  ASSUME NEW d \in Context, NEW f \in Frame, NEW n \in Nat, NEW m \in [0 .. n - 1 -> Int],
         NEW W \in Nat, W <= n, NEW cap
  PROVE  LET x == Checked(d, W, cap) IN
         /\ x \in Context /\ x.expected = d.expected /\ x.stage = d.stage
         /\ x.decodedSize = d.decodedSize /\ x.params = d.params /\ x.at = d.at
         /\ History(d, m, n, f, W) => History(x, m, n, f, W)
         /\ InBlocks(x) <=> InBlocks(d)
<1>1. CASE cap > 0
  <2>1. Checked(d, W, cap) = CheckContinuity(d, W)
    BY <1>1 DEF Checked
  <2> DEFINE c == CheckContinuity(d, W)
  <2>2. /\ c \in Context /\ c.expected = d.expected /\ c.stage = d.stage
        /\ c.decodedSize = d.decodedSize /\ c.params = d.params /\ c.at = d.at
    BY CheckFields
  <2>3. History(d, m, n, f, W) => History(c, m, n, f, W)
    BY CheckHistory
  <2> HIDE DEF c
  <2>4. InBlocks(c) <=> InBlocks(d)
    BY <2>2 DEF InBlocks
  <2> QED
    BY <2>1, <2>2, <2>3, <2>4 DEF c
<1>2. CASE ~(cap > 0)
  BY <1>2 DEF Checked
<1> QED
  BY <1>1, <1>2

LEMMA KindFacts ==
  ASSUME NEW s \in Sources, NEW i \in 1 .. Len(s)
  PROVE  /\ s[i] \in Frame
         /\ s[i].kind # Skippable => FrameOfBlocks(s[i])
         /\ s[i].kind = Skippable => SkippableFrame(s[i])
BY SourceTypes, FrameShape

LEMMA ContinueBlockHeader ==
  ASSUME NEW s \in Sources, NEW i \in 1 .. Len(s), NEW d \in Context, NEW n \in Nat,
         NEW m \in [0 .. n - 1 -> Int], NEW p \in Params, NEW P \in Nat, NEW W \in Nat,
         W <= n, NEW cap, Decoding(d, m, n, p, s[i], P, W), Room(d, n, s[i], W),
         s[i].kind # Skippable, d.stage = "decodeBlockHeader"
  PROVE  LET r == DecompressContinue(s, d, m, W, cap, P, d.expected) IN
         Continued(d, n, p, s[i], P, W, r.d, r.m, r.ret)
<1> DEFINE f == s[i]
           x == Checked(d, W, cap)
           r == DecompressContinue(s, d, m, W, cap, P, d.expected)
<1>1. f \in Frame /\ FrameOfBlocks(f) /\ f.kind # Skippable
  BY KindFacts
<1>2. PICK b \in 1 .. Len(f.blocks) :
        /\ d.expected = BlockHeader
        /\ P = f.blocks[b].at /\ d.decodedSize = f.blocks[b].out - f.out
  BY <1>1 DEF Decoding, Position, AtBlock, AtData, AtChecksum, AtEnd
<1> DEFINE blk == f.blocks[b]
           last == b = Len(f.blocks)
           csize == blk.csize
<1>3. /\ n > 0 => History(d, m, n, f, W)
      /\ Sized(p, n, f) /\ d.params.frameContentSize = f.fcs /\ d.params.checksumFlag = f.cksum
  BY <1>1 DEF Decoding, InBlocks
<1>4. /\ x \in Context /\ x.expected = d.expected /\ x.stage = d.stage
      /\ x.decodedSize = d.decodedSize /\ x.params = d.params
      /\ n > 0 => History(x, m, n, f, W)
  BY <1>1, <1>3, CheckedFields
<1>5. Layout[s][P] = Element("block", i, b)
  BY <1>1, <1>2, BlockThere
<1>6. /\ blk \in Block /\ csize \in Nat /\ blk.rsize \in Nat /\ blk.at \in Nat /\ blk.out \in Nat
      /\ BlockEnd(blk) = blk.at + BlockHeader + csize /\ Len(f.blocks) \in Nat
      /\ f.cksum \in BOOLEAN /\ f.out \in Nat /\ f.content \in Nat
  BY <1>1, FrameTypes, BlockTypes
<1>7. FirstLapOnly(f, n) \/ W + BlockSizeMax(f) <= n
  BY DEF Room, InBlocks
<1> DEFINE y == IF csize > 0
                THEN [x EXCEPT !.expected = csize,
                               !.stage = IF last THEN "decompressLastBlock" ELSE "decompressBlock"]
                ELSE IF last THEN EndOfFrame(x, x.params.checksumFlag)
                ELSE ToBlockHeader(x)
<1>8. r = [ret |-> 0, d |-> y, m |-> m]
  <2> DEFINE e == Layout[s][P]
  <2>1. e.el = "block" /\ e.frame = i /\ e.block = b
    BY <1>5 DEF Element
  <2>2. x.stage = "decodeBlockHeader" /\ (IF cap > 0 THEN CheckContinuity(d, W) ELSE d) = x
    BY <1>4 DEF Checked
  <2> HIDE DEF e, x, r
  <2>3. r = IF f.blocks[e.block].csize > 0
            THEN [ret |-> 0, d |-> [x EXCEPT !.expected = f.blocks[e.block].csize,
                              !.stage = IF e.block = Len(f.blocks) THEN "decompressLastBlock"
                                        ELSE "decompressBlock"], m |-> m]
            ELSE IF e.block = Len(f.blocks)
                 THEN [ret |-> 0, d |-> EndOfFrame(x, x.params.checksumFlag), m |-> m]
            ELSE [ret |-> 0, d |-> ToBlockHeader(x), m |-> m]
    BY <2>1, <2>2 DEF DecompressContinue, r, e
  <2> QED
    BY <2>1, <2>3
<1> HIDE DEF r, x, f
<1>9. CASE csize > 0
  <2> DEFINE st == IF last THEN "decompressLastBlock" ELSE "decompressBlock"
             c == [x EXCEPT !.expected = csize, !.stage = st]
  <2>1. st \in ContextStages /\ csize \in Nat
    BY <1>6 DEF ContextStages
  <2> HIDE DEF st, csize
  <2>2. c \in Context /\ SamePast(x, c) /\ c.stage = st /\ c.expected = csize
    <3>1. x \in Context
      BY <1>4
    <3> QED
      BY <2>1, <3>1 DEF Context, SamePast
  <2>3. y = c
    BY <1>9 DEF st
  <2> HIDE DEF c, y
  <2>4. AtData(c, f, P + d.expected)
    <3>1. /\ c.stage = IF b = Len(f.blocks) THEN "decompressLastBlock" ELSE "decompressBlock"
          /\ c.expected = f.blocks[b].csize /\ f.blocks[b].csize > 0
          /\ P + d.expected = f.blocks[b].at + BlockHeader
          /\ c.decodedSize = f.blocks[b].out - f.out
      BY <2>2, <1>2, <1>4, <1>9 DEF st, csize, SamePast
    <3> QED
      BY <3>1 DEF AtData
  <2>5. InBlocks(c) /\ c.stage # "skipFrame"
    BY <2>2 DEF st, InBlocks
  <2>6. n > 0 => History(c, m, n, f, W)
    BY <2>2, <1>4, SameHistory DEF SamePast
  <2>7. Decoding(c, m, n, p, f, P + d.expected, W)
    BY <2>2, <2>4, <2>5, <2>6, <1>1, <1>3, <1>4 DEF Decoding, Position, SamePast
  <2>8. c.decodedSize = d.decodedSize /\ Room(c, n, f, W)
    BY <2>2, <1>4, <1>7 DEF SamePast, Room
  <2>9. Continued(d, n, p, f, P, W, c, m, 0)
    BY <2>2, <2>5, <2>7, <2>8, <1>1, NothingWritten
  <2> QED
    BY <2>3, <2>9, <1>8 DEF r, f
<1>10. CASE csize = 0 /\ last
  <2> DEFINE c == EndOfFrame(x, f.cksum)
  <2>0. (P + BlockHeader) + TrailerSize(f) = FrameEnd(f) /\ f.blocks[b].out - f.out = f.content
        /\ P + BlockHeader \in Nat
    <3> DEFINE rsize == f.blocks[b].rsize
               bout == f.blocks[b].out
               at == f.blocks[b].at
               bend == BlockEnd(blk)
    <3>1. rsize = 0 /\ bend + TrailerSize(f) = FrameEnd(f) /\ bout + rsize = f.out + f.content
      BY <1>1, <1>10, AfterBlock, BlockSizes
    <3>2. bend = at + BlockHeader + csize /\ csize = 0 /\ P = at
      BY <1>6, <1>2, <1>10
    <3>3. at \in Nat /\ bout \in Nat /\ f.out \in Nat /\ f.content \in Nat
      BY <1>6
    <3> HIDE DEF rsize, bout, at, bend, csize, blk
    <3>4. bend = P + BlockHeader /\ bout - f.out = f.content /\ P + BlockHeader \in Nat
      BY <3>1, <3>2, <3>3 DEF BlockHeader
    <3> QED
      BY <3>1, <3>4 DEF bout
  <2>1. /\ c \in Context /\ SamePast(x, c) /\ ~InBlocks(c) /\ c.stage # "skipFrame"
        /\ AtChecksum(c, f, P + BlockHeader) \/ AtEnd(c, f, P + BlockHeader)
    BY <2>0, <1>1, <1>2, <1>4, PastBlocks
  <2>2. y = c
    BY <1>10, <1>3, <1>4
  <2> HIDE DEF c, y, blk, csize
  <2>3. Decoding(c, m, n, p, f, P + d.expected, W)
    BY <2>1, <1>1, <1>2, <1>3, <1>4 DEF Decoding, Position, SamePast
  <2>4. c.decodedSize = d.decodedSize /\ Room(c, n, f, W)
    BY <2>1, <1>4 DEF SamePast, Room
  <2>5. Continued(d, n, p, f, P, W, c, m, 0)
    BY <2>1, <2>3, <2>4, <1>1, NothingWritten
  <2> QED
    BY <2>2, <2>5, <1>8 DEF r, f
<1>11. CASE csize = 0 /\ ~last
  <2> DEFINE c == ToBlockHeader(x)
  <2>0. /\ b + 1 \in 1 .. Len(f.blocks)
        /\ P + BlockHeader = f.blocks[b + 1].at
        /\ d.decodedSize = f.blocks[b + 1].out - f.out
    <3> DEFINE rsize == f.blocks[b].rsize
               bout == f.blocks[b].out
               at == f.blocks[b].at
               bend == BlockEnd(blk)
    <3>0. b < Len(f.blocks)
      BY <1>11, <1>6
    <3>1. rsize = 0 /\ b + 1 \in 1 .. Len(f.blocks) /\ f.blocks[b + 1].at = bend
          /\ f.blocks[b + 1].out = bout + rsize
      BY <3>0, <1>1, <1>11, AfterBlock, BlockSizes
    <3>2. bend = at + BlockHeader + csize /\ csize = 0 /\ P = at /\ d.decodedSize = bout - f.out
      BY <1>6, <1>2, <1>11
    <3>3. at \in Nat /\ bout \in Nat
      BY <1>6
    <3> HIDE DEF rsize, bout, at, bend, csize, blk
    <3>4. bend = P + BlockHeader /\ bout + rsize = bout
      BY <3>1, <3>2, <3>3 DEF BlockHeader
    <3> QED
      BY <3>1, <3>2, <3>4
  <2>1. /\ c \in Context /\ SamePast(x, c) /\ c.stage = "decodeBlockHeader"
        /\ c.expected = BlockHeader
    BY <1>4, ToBlockHeaderFields
  <2>2. y = c
    BY <1>11
  <2> HIDE DEF c, y, blk, csize
  <2>3. AtBlock(c, f, P + d.expected)
    BY <2>0, <2>1, <1>2, <1>4 DEF AtBlock, SamePast
  <2>4. InBlocks(c) /\ c.stage # "skipFrame"
    BY <2>1 DEF InBlocks
  <2>5. n > 0 => History(c, m, n, f, W)
    BY <2>1, <1>4, SameHistory DEF SamePast
  <2>6. Decoding(c, m, n, p, f, P + d.expected, W)
    BY <2>1, <2>3, <2>4, <2>5, <1>1, <1>3, <1>4 DEF Decoding, Position, SamePast
  <2>7. c.decodedSize = d.decodedSize /\ Room(c, n, f, W)
    BY <2>1, <1>4, <1>7 DEF SamePast, Room
  <2>8. Continued(d, n, p, f, P, W, c, m, 0)
    BY <2>1, <2>4, <2>6, <2>7, <1>1, NothingWritten
  <2> QED
    BY <2>2, <2>8, <1>8 DEF r, f
<1> QED
  <2>1. csize \in Nat
    BY <1>6
  <2> HIDE DEF csize
  <2>2. csize > 0 \/ csize = 0
    BY <2>1
  <2> QED
    BY <2>2, <1>9, <1>10, <1>11


LEMMA CheckedHistory ==
  ASSUME NEW d \in Context, NEW f \in Frame, NEW n \in Nat, NEW m \in [0 .. n - 1 -> Int],
         NEW W \in Nat, W <= n, n > 0, History(d, m, n, f, W)
  PROVE  LET x == Checked(d, W, n - W) IN
         /\ x.previousDstEnd = W
         /\ FirstLap(x, m, n, f) \/ LaterLap(x, m, n, f)
<1>1. CASE n - W > 0
  <2>1. Checked(d, W, n - W) = CheckContinuity(d, W)
    BY <1>1 DEF Checked
  <2>2. CheckContinuity(d, W).previousDstEnd = W
    BY CheckFields
  <2>3. LET x == CheckContinuity(d, W) IN FirstLap(x, m, n, f) \/ LaterLap(x, m, n, f)
    BY CheckHistory
  <2> QED
    BY <2>1, <2>2, <2>3
<1>2. CASE ~(n - W > 0)
  <2>1. Checked(d, W, n - W) = d
    BY <1>2 DEF Checked
  <2>2. W = n /\ W # 0
    BY <1>2
  <2>3. d.previousDstEnd = W
    BY <2>2 DEF History, Continues
  <2>4. ~NoLap(d)
    BY <2>2, <2>3 DEF NoLap
  <2> QED
    BY <2>1, <2>3, <2>4 DEF History
<1> QED
  BY <1>1, <1>2

\* What has been decoded when the last block of a frame has been.
LEMMA LastBlockOut ==
  ASSUME NEW f \in Frame, FrameOfBlocks(f), NEW b \in 1 .. Len(f.blocks), b = Len(f.blocks)
  PROVE  (f.blocks[b].out - f.out) + f.blocks[b].rsize = f.content
<1> DEFINE bout == f.blocks[b].out
           rsize == f.blocks[b].rsize
           out == f.out
           content == f.content
<1>1. bout + rsize = out + content /\ f.blocks[b] \in Block
  BY AfterBlock
<1>2. bout \in Nat /\ rsize \in Nat /\ out \in Nat /\ content \in Nat
  BY <1>1, FrameTypes, BlockTypes
<1> HIDE DEF bout, rsize, out, content
<1>3. (bout - out) + rsize = content
  BY <1>1, <1>2
<1> QED
  BY <1>3 DEF bout, rsize, out, content

LEMMA ContinueData ==
  ASSUME NEW s \in Sources, NEW i \in 1 .. Len(s), NEW d \in Context, NEW n \in Nat,
         NEW m \in [0 .. n - 1 -> Int], NEW p \in Params, NEW P \in Nat, NEW W \in Nat,
         W <= n, NEW cap, cap = n - W, Decoding(d, m, n, p, s[i], P, W),
         Room(d, n, s[i], W), s[i].kind # Skippable,
         d.stage \in {"decompressBlock", "decompressLastBlock"}
  PROVE  LET r == DecompressContinue(s, d, m, W, cap, P, d.expected) IN
         Continued(d, n, p, s[i], P, W, r.d, r.m, r.ret)
<1> DEFINE f == s[i]
           x == Checked(d, W, cap)
           r == DecompressContinue(s, d, m, W, cap, P, d.expected)
           dec == d.decodedSize
           content == f.content
<1>1. f \in Frame /\ FrameOfBlocks(f) /\ f.kind # Skippable
  BY KindFacts
<1>2. PICK b \in 1 .. Len(f.blocks) :
        /\ d.stage = IF b = Len(f.blocks) THEN "decompressLastBlock" ELSE "decompressBlock"
        /\ d.expected = f.blocks[b].csize /\ f.blocks[b].csize > 0
        /\ P = f.blocks[b].at + BlockHeader /\ d.decodedSize = f.blocks[b].out - f.out
  BY <1>1 DEF Decoding, Position, AtBlock, AtData, AtChecksum, AtEnd
<1> DEFINE blk == f.blocks[b]
           last == b = Len(f.blocks)
           csize == blk.csize
           rsize == blk.rsize
           bout == blk.out
           e == Element("data", i, b)
           w == DecodeBlock(s, x, m, W, cap, e)
           k == w.m
<1>3. /\ n > 0 => History(d, m, n, f, W)
      /\ Sized(p, n, f) /\ d.params.frameContentSize = f.fcs /\ d.params.checksumFlag = f.cksum
  BY <1>1 DEF Decoding, InBlocks
<1>4. /\ x \in Context /\ x.expected = d.expected /\ x.stage = d.stage
      /\ x.decodedSize = d.decodedSize /\ x.params = d.params
      /\ n > 0 => History(x, m, n, f, W)
  <2>0. ASSUME NEW q
        PROVE  LET z == Checked(d, W, q) IN
               /\ z \in Context /\ z.expected = d.expected /\ z.stage = d.stage
               /\ z.decodedSize = d.decodedSize /\ z.params = d.params /\ z.at = d.at
               /\ History(d, m, n, f, W) => History(z, m, n, f, W)
               /\ InBlocks(z) <=> InBlocks(d)
    <3>1. f \in Frame
      BY <1>1
    <3> HIDE DEF f
    <3> QED
      BY <3>1, CheckedFields
  <2>1. LET z == Checked(d, W, cap) IN
        /\ z \in Context /\ z.expected = d.expected /\ z.stage = d.stage
        /\ z.decodedSize = d.decodedSize /\ z.params = d.params /\ z.at = d.at
        /\ History(d, m, n, f, W) => History(z, m, n, f, W)
        /\ InBlocks(z) <=> InBlocks(d)
    BY <2>0
  <2> QED
    BY <1>3, <2>1
<1>5. Layout[s][P] = e
  BY <1>1, <1>2, BlockThere
<1>6. /\ blk \in Block /\ csize \in Nat /\ rsize \in Nat /\ blk.at \in Nat /\ bout \in Nat
      /\ BlockEnd(blk) = blk.at + BlockHeader + csize /\ Len(f.blocks) \in Nat
      /\ f.cksum \in BOOLEAN /\ f.out \in Nat /\ content \in Nat /\ dec \in Nat
  BY <1>1, FrameTypes, BlockTypes, ContextTypes
<1>t. csize \in Nat /\ rsize \in Nat /\ bout \in Nat /\ f.out \in Nat /\ content \in Nat
      /\ dec \in Nat
  BY <1>6
<1>7. FirstLapOnly(f, n) \/ W + BlockSizeMax(f) <= n
  BY DEF Room, InBlocks
<1>8. W + rsize <= n
  BY <1>1, <1>2, <1>3, BlockFits DEF InBlocks
<1>9. n > 0 => /\ x.previousDstEnd = W
               /\ FirstLap(x, m, n, f) \/ LaterLap(x, m, n, f)
               /\ FirstLapOnly(f, n) => W = x.decodedSize
  <2> SUFFICES ASSUME n > 0
               PROVE  /\ x.previousDstEnd = W
                      /\ FirstLap(x, m, n, f) \/ LaterLap(x, m, n, f)
                      /\ FirstLapOnly(f, n) => W = x.decodedSize
    OBVIOUS
  <2>1. History(d, m, n, f, W)
    BY <1>3
  <2>2. x.previousDstEnd = W /\ (FirstLap(x, m, n, f) \/ LaterLap(x, m, n, f))
    BY <2>1, <1>1, CheckedHistory
  <2>3. FirstLapOnly(f, n) => W = x.decodedSize
    BY <2>1, <1>4 DEF History
  <2> QED
    BY <2>2, <2>3
<1>10. HistoryThere(s, x, m, W, e)
  <2>1. CASE n > 0
    BY <2>1, <1>1, <1>4, <1>9, HistoryFound
  <2>2. CASE ~(n > 0)
    <3>1. rsize = 0
      <4> HIDE DEF rsize
      <4> QED
        BY <2>2, <1>6, <1>8
    <3>2. e.frame = i /\ e.block = b /\ 0 .. 0 - 1 = {}
      BY DEF Element
    <3> HIDE DEF e
    <3> QED
      BY <3>1, <3>2 DEF HistoryThere
  <2> QED
    BY <2>1, <2>2
<1>11. w.ret = rsize /\ Written(k, m, n, W, rsize, bout)
  <2>1. W + blk.rsize <= n /\ blk \in Block /\ IsBlock(blk, s, i, b)
        /\ HistoryThere(s, x, m, W, Element("data", i, b)) /\ b \in 1 .. Len(s[i].blocks)
    BY <1>6, <1>8, <1>10 DEF IsBlock
  <2> HIDE DEF x, blk
  <2> QED
    BY <2>1, BlockWritten
<1>12. bout = f.out + dec
  <2> DEFINE out == f.out
  <2>1. dec = bout - out
    BY <1>2
  <2>2. dec \in Nat /\ bout \in Nat /\ out \in Nat
    BY <1>t
  <2> HIDE DEF dec, bout, out
  <2>3. bout = out + dec
    BY <2>1, <2>2
  <2> QED
    BY <2>3 DEF out
<1> DEFINE g == [x EXCEPT !.decodedSize = @ + rsize]
           y == IF ~last THEN [ToBlockHeader(g) EXCEPT !.previousDstEnd = W + rsize]
                ELSE EndOfFrame(g, f.cksum)
<1>13. /\ g \in Context /\ g.decodedSize = x.decodedSize + rsize
       /\ g.previousDstEnd = x.previousDstEnd /\ g.base = x.base /\ g.vBase = x.vBase
       /\ g.dictEnd = x.dictEnd /\ g.params = x.params
  <2>1. x \in Context /\ rsize \in Nat
    BY <1>4, <1>t
  <2> HIDE DEF x, rsize
  <2> QED
    BY <2>1, DecodedFields
<1>14. last => g.decodedSize = content /\ f.fcs \in {Unknown, content}
  <2> SUFFICES ASSUME last PROVE g.decodedSize = content /\ f.fcs \in {Unknown, content}
    OBVIOUS
  <2>1. f.fcs \in {Unknown, content} /\ (bout - f.out) + rsize = content
    BY <1>1, LastBlockOut, BlockSizes
  <2>2. g.decodedSize = dec + rsize /\ dec = bout - f.out
    BY <1>2, <1>4, <1>13
  <2> HIDE DEF g, dec, f, bout, rsize, content
  <2> QED
    BY <2>1, <2>2
<1>15. r = [ret |-> rsize, d |-> y, m |-> k]
  <2>1. e.el = "data" /\ e.frame = i /\ e.block = b
    BY DEF Element
  <2>2. x.stage = d.stage /\ (IF cap > 0 THEN CheckContinuity(d, W) ELSE d) = x
    BY <1>4 DEF Checked
  <2>3. w.ret = rsize /\ ~IsError(rsize) /\ w = DecodeBlock(s, x, m, W, cap, Layout[s][P])
    <3>1. rsize \in Nat
      BY <1>t
    <3> HIDE DEF rsize, w, e
    <3>2. ~IsError(rsize)
      BY <3>1 DEF IsError
    <3> QED
      BY <3>2, <1>5, <1>11 DEF w
  <2>4. d.stage = "decompressBlock" <=> ~last
    BY <1>2
  <2>5. x.params.frameContentSize = f.fcs /\ x.params.checksumFlag = f.cksum
    BY <1>3, <1>4
  <2>6. last => ~(x.params.frameContentSize \notin {Unknown, g.decodedSize})
    BY <2>5, <1>14
  <2>7. g.params = x.params
    BY <1>13
  <2> DEFINE ly == Layout[s][P]
             g0 == [x EXCEPT !.decodedSize = @ + w.ret]
  <2>8. ly = e /\ g0 = g
    BY <1>5, <2>3
  <2> HIDE DEF e, x, r, w, ly, g, g0, rsize
  <2>9. r = IF IsError(w.ret) THEN [ret |-> w.ret, d |-> x, m |-> m]
            ELSE IF x.stage = "decompressBlock"
            THEN [ret |-> w.ret, d |-> [ToBlockHeader(g0) EXCEPT !.previousDstEnd = W + w.ret],
                  m |-> w.m]
            ELSE IF x.params.frameContentSize \notin {Unknown, g0.decodedSize}
            THEN [ret |-> Error.corruption_detected, d |-> g0, m |-> w.m]
            ELSE [ret |-> w.ret, d |-> EndOfFrame(g0, x.params.checksumFlag), m |-> w.m]
    BY <2>1, <2>2, <2>3, <2>8 DEF DecompressContinue, r, ly, g0
  <2>10. CASE last
    BY <2>10, <2>2, <2>3, <2>4, <2>5, <2>6, <2>8, <2>9
  <2>11. CASE ~last
    BY <2>11, <2>2, <2>3, <2>4, <2>8, <2>9
  <2> QED
    BY <2>10, <2>11
<1>16. Bytes(k, W, W + rsize, (f.out + dec) - W)
  <2> DEFINE out == f.out
  <2>1. /\ \A a \in W .. (W + rsize) - 1 : k[a] = bout + 1 + a - W
        /\ bout = out + dec /\ out \in Nat /\ bout \in Nat /\ dec \in Nat /\ rsize \in Nat
    BY <1>t, <1>11, <1>12 DEF Written
  <2> HIDE DEF bout, dec, rsize, k, out, f
  <2>2. \A a \in W .. (W + rsize) - 1 : k[a] = ((out + dec) - W) + a + 1
    BY <2>1
  <2> QED
    BY <2>2 DEF Bytes, out
<1>17. y \in Context /\ y.decodedSize = dec + rsize /\ y.params = d.params
       /\ (last => ~InBlocks(y)) /\ y.stage # "skipFrame"
       /\ Position(y, f, P + csize)
       /\ (~last /\ n > 0 => History(y, k, n, f, W + rsize))
  <2>1. CASE last
    <3> DEFINE c == EndOfFrame(g, f.cksum)
    <3>1. P + csize \in Nat /\ (P + csize) + TrailerSize(f) = FrameEnd(f)
      <4> DEFINE at == blk.at
      <4>1. BlockEnd(blk) + TrailerSize(f) = FrameEnd(f) /\ P = at + BlockHeader
            /\ BlockEnd(blk) = at + BlockHeader + csize /\ at \in Nat
        BY <2>1, <1>1, <1>2, <1>6, AfterBlock
      <4> HIDE DEF at, csize, blk, f, last
      <4>2. P + csize \in Nat /\ P + csize = at + BlockHeader + csize
        BY <4>1, <1>t DEF BlockHeader
      <4> QED
        BY <4>1, <4>2
    <3>2. /\ c \in Context /\ SamePast(g, c) /\ ~InBlocks(c) /\ c.stage # "skipFrame"
          /\ AtChecksum(c, f, P + csize) \/ AtEnd(c, f, P + csize)
      BY <3>1, <2>1, <1>1, <1>13, <1>14, PastBlocks
    <3>3. y = c
      BY <2>1
    <3> HIDE DEF c, y, g, csize, rsize
    <3> QED
      BY <3>2, <3>3, <2>1, <1>1, <1>4, <1>13 DEF Position, SamePast
  <2>2. CASE ~last
    <3> DEFINE h == ToBlockHeader(g)
               to == W + rsize
               c == [h EXCEPT !.previousDstEnd = to]
    <3>1. /\ h \in Context /\ SamePast(g, h) /\ h.stage = "decodeBlockHeader"
          /\ h.expected = BlockHeader
      BY <1>13, ToBlockHeaderFields
    <3>0. to \in Nat
      <4>1. rsize \in Nat
        BY <1>t
      <4> HIDE DEF rsize, y, c, g
      <4> QED
        BY <4>1
    <3>2. to \in Nat /\ y = c
      BY <2>2, <3>0
    <3> HIDE DEF h, to
    <3>3. /\ c \in Context /\ c.decodedSize = h.decodedSize /\ c.previousDstEnd = to
          /\ c.base = h.base /\ c.vBase = h.vBase /\ c.dictEnd = h.dictEnd
          /\ c.params = h.params /\ c.stage = h.stage /\ c.expected = h.expected
      BY <3>1, <3>2, PrevFields
    <3> HIDE DEF c, y, g
    <3>4. /\ c.decodedSize = dec + rsize /\ c.params = d.params /\ c.base = x.base
          /\ c.vBase = x.vBase /\ c.dictEnd = x.dictEnd /\ c.stage = "decodeBlockHeader"
          /\ c.expected = BlockHeader
      BY <3>1, <3>3, <1>4, <1>13 DEF SamePast
    <3>5. AtBlock(c, f, P + csize)
      <4>1. b < Len(f.blocks)
        BY <2>2, <1>6
      <4>2. /\ b + 1 \in 1 .. Len(f.blocks) /\ f.blocks[b + 1].at = BlockEnd(blk)
            /\ f.blocks[b + 1].out = bout + rsize
        BY <4>1, <1>1, AfterBlock
      <4>3. P + csize = BlockEnd(blk)
        <5> DEFINE at == blk.at
        <5>1. P = at + BlockHeader /\ BlockEnd(blk) = at + BlockHeader + csize
          BY <1>2, <1>6
        <5>2. at \in Nat /\ csize \in Nat
          BY <1>6
        <5> DEFINE z == BlockEnd(blk)
        <5> HIDE DEF at, csize, blk, f, last, z
        <5>3. P + csize = z
          BY <5>1, <5>2 DEF BlockHeader, z
        <5> QED
          BY <5>3 DEF z
      <4>4. dec + rsize = (bout + rsize) - f.out
        <5> DEFINE out == f.out
        <5>1. /\ bout = out + dec /\ bout \in Nat /\ rsize \in Nat /\ dec \in Nat
              /\ out \in Nat
          BY <1>t, <1>12
        <5> HIDE DEF dec, rsize, bout, f, blk, last, out
        <5>2. dec + rsize = (bout + rsize) - out
          BY <5>1
        <5> QED
          BY <5>2 DEF out
      <4> HIDE DEF dec, rsize, bout, csize, blk
      <4> QED
        BY <4>2, <4>3, <4>4, <3>4 DEF AtBlock
    <3>6. ASSUME n > 0 PROVE History(c, k, n, f, to)
      <4>1. /\ x.previousDstEnd = W
            /\ FirstLap(x, m, n, f) \/ LaterLap(x, m, n, f)
            /\ FirstLapOnly(f, n) => W = x.decodedSize
        BY <3>6, <1>9
      <4>2. Written(k, m, n, W, rsize, f.out + x.decodedSize)
        BY <1>4, <1>11, <1>12
      <4>4. c.decodedSize = x.decodedSize + rsize /\ c.previousDstEnd = W + rsize
            /\ c.base = x.base /\ c.vBase = x.vBase /\ c.dictEnd = x.dictEnd
        BY <3>3, <3>4, <1>4 DEF to
      <4>5. f \in Frame /\ x \in Context /\ c \in Context /\ rsize \in Nat /\ W + rsize <= n
        BY <1>1, <1>4, <3>3, <1>6, <1>8
      <4> HIDE DEF x, f, rsize, k, dec, bout, to
      <4>6. History(c, k, n, f, W + rsize)
        BY <4>1, <4>2, <4>4, <4>5, LapProlonged
      <4> QED
        BY <4>6 DEF to
    <3>7. Position(c, f, P + csize)
      BY <3>5, <1>1 DEF Position
    <3> QED
      BY <3>2, <3>3, <3>4, <3>6, <3>7, <2>2 DEF to
  <2> QED
    BY <2>1, <2>2
<1>18. Decoding(y, k, n, p, f, P + d.expected, W + rsize)
  <2>1. csize = d.expected
    BY <1>2
  <2> HIDE DEF y, k, f, csize, rsize, dec
  <2> QED
    BY <2>1, <1>1, <1>3, <1>17 DEF Decoding
<1>19. rsize = 0 => Room(y, n, f, W)
  BY <1>7 DEF Room
<1> HIDE DEF y, k, f, rsize, r, dec
<1>20. Continued(d, n, p, f, P, W, y, k, rsize)
  BY <1>t, <1>8, <1>11, <1>16, <1>17, <1>18, <1>19 DEF Continued, Written, dec
<1> QED
  BY <1>15, <1>20 DEF r, f


LEMMA ContinueChecksum ==
  ASSUME NEW s \in Sources, NEW i \in 1 .. Len(s), NEW d \in Context, NEW n \in Nat,
         NEW m \in [0 .. n - 1 -> Int], NEW p \in Params, NEW P \in Nat, NEW W \in Nat,
         W <= n, NEW cap, Decoding(d, m, n, p, s[i], P, W), s[i].kind # Skippable,
         d.stage = "checkChecksum"
  PROVE  LET r == DecompressContinue(s, d, m, W, cap, P, d.expected) IN
         Continued(d, n, p, s[i], P, W, r.d, r.m, r.ret)
<1> DEFINE f == s[i]
           x == Checked(d, W, cap)
           r == DecompressContinue(s, d, m, W, cap, P, d.expected)
           c == [x EXCEPT !.expected = 0, !.stage = "getFrameHeaderSize"]
           end == FrameEnd(f)
<1>1. f \in Frame /\ FrameOfBlocks(f) /\ f.kind # Skippable /\ end \in Nat
  BY KindFacts, FrameTypes
<1>2. /\ d.expected = Checksum /\ f.cksum /\ P = end - Checksum
      /\ d.decodedSize = f.content
  BY <1>1 DEF Decoding, Position, AtBlock, AtData, AtChecksum, AtEnd
<1>3. d.params.frameContentSize = f.fcs /\ d.params.checksumFlag = f.cksum
  BY <1>1 DEF Decoding
<1>4. /\ x \in Context /\ x.expected = d.expected /\ x.stage = d.stage
      /\ x.decodedSize = d.decodedSize /\ x.params = d.params
  <2>1. LET z == Checked(d, W, cap) IN
        /\ z \in Context /\ z.expected = d.expected /\ z.stage = d.stage
        /\ z.decodedSize = d.decodedSize /\ z.params = d.params /\ z.at = d.at
        /\ History(d, m, n, f, W) => History(z, m, n, f, W)
        /\ InBlocks(z) <=> InBlocks(d)
    <3>1. f \in Frame
      BY <1>1
    <3> HIDE DEF f
    <3> QED
      BY <3>1, CheckedFields
  <2> QED
    BY <2>1
<1>5. Layout[s][P] = Element("checksum", i, 0)
  BY <1>2, ChecksumThere
<1>6. r = [ret |-> 0, d |-> c, m |-> m]
  <2>1. x.stage = "checkChecksum" /\ (IF cap > 0 THEN CheckContinuity(d, W) ELSE d) = x
    BY <1>4 DEF Checked
  <2> DEFINE e == Layout[s][P]
  <2>2. e.el = "checksum"
    BY <1>5 DEF Element
  <2> HIDE DEF x, r, e
  <2> QED
    BY <2>1, <2>2 DEF DecompressContinue, r, e
<1>7. c \in Context /\ SamePast(x, c) /\ c.stage = "getFrameHeaderSize" /\ c.expected = 0
  <2>1. x \in Context
    BY <1>4
  <2> HIDE DEF x
  <2> QED
    BY <2>1 DEF Context, SamePast, ContextStages
<1> HIDE DEF c, x, f
<1>8. AtEnd(c, f, P + d.expected)
  <2>1. P + d.expected = end
    <3> HIDE DEF end
    <3> QED
      BY <1>1, <1>2 DEF Checksum
  <2> QED
    BY <2>1, <1>2, <1>4, <1>7 DEF AtEnd, SamePast
<1>9. ~InBlocks(c) /\ c.stage # "skipFrame"
  BY <1>7 DEF InBlocks
<1>10. Decoding(c, m, n, p, f, P + d.expected, W)
  BY <1>1, <1>3, <1>4, <1>7, <1>8, <1>9 DEF Decoding, Position, SamePast
<1>11. Continued(d, n, p, f, P, W, c, m, 0)
  <2>1. c.decodedSize = d.decodedSize /\ Room(c, n, f, W)
    BY <1>4, <1>7, <1>9 DEF SamePast, Room
  <2> QED
    BY <2>1, <1>1, <1>7, <1>9, <1>10, NothingWritten
<1> HIDE DEF r
<1> QED
  BY <1>6, <1>11 DEF r, f

LEMMA ContinueSkip ==
  ASSUME NEW s \in Sources, NEW i \in 1 .. Len(s), NEW d \in Context, NEW n \in Nat,
         NEW m \in [0 .. n - 1 -> Int], NEW p \in Params, NEW P \in Nat, NEW W \in Nat,
         W <= n, NEW cap, Decoding(d, m, n, p, s[i], P, W), d.stage = "skipFrame"
  PROVE  LET r == DecompressContinue(s, d, m, W, cap, P, d.expected) IN
         Continued(d, n, p, s[i], P, W, r.d, r.m, r.ret)
<1> DEFINE f == s[i]
           x == Checked(d, W, cap)
           r == DecompressContinue(s, d, m, W, cap, P, d.expected)
           c == [x EXCEPT !.expected = 0, !.stage = "getFrameHeaderSize"]
           end == FrameEnd(f)
           at == f.at
<1>1. f \in Frame /\ f.kind = Skippable /\ SkippableFrame(f)
  <2>1. f.kind = Skippable
    BY DEF Decoding, Position, AtBlock, AtData, AtChecksum, AtEnd
  <2> QED
    BY <2>1, KindFacts
<1>2. /\ d.expected = f.skip /\ P = at + SkipHeader /\ d.decodedSize = 0
      /\ p.frameContentSize = f.skip
  BY <1>1 DEF Decoding, Position, AtSkip, AtEnd
<1>4. /\ x \in Context /\ x.expected = d.expected /\ x.stage = d.stage
      /\ x.decodedSize = d.decodedSize
  <2>0. ASSUME NEW q
        PROVE  LET z == Checked(d, W, q) IN
               /\ z \in Context /\ z.expected = d.expected /\ z.stage = d.stage
               /\ z.decodedSize = d.decodedSize /\ z.params = d.params /\ z.at = d.at
               /\ History(d, m, n, f, W) => History(z, m, n, f, W)
               /\ InBlocks(z) <=> InBlocks(d)
    <3>1. f \in Frame
      BY <1>1
    <3> HIDE DEF f
    <3> QED
      BY <3>1, CheckedFields
  <2> QED
    BY <2>0
<1>6. r = [ret |-> 0, d |-> c, m |-> m]
  <2>1. x.stage = "skipFrame" /\ (IF cap > 0 THEN CheckContinuity(d, W) ELSE d) = x
    BY <1>4 DEF Checked
  <2> HIDE DEF x, r
  <2> QED
    BY <2>1, Zenon DEF DecompressContinue, r
<1>7. c \in Context /\ SamePast(x, c) /\ c.stage = "getFrameHeaderSize" /\ c.expected = 0
  <2>1. x \in Context
    BY <1>4
  <2> HIDE DEF x
  <2> QED
    BY <2>1 DEF Context, SamePast, ContextStages
<1>8. AtEnd(c, f, P + d.expected)
  <2>1. end = at + (SkipHeader + f.skip) /\ f.content = 0
    BY <1>1 DEF SkippableFrame, FrameEnd
  <2>2. at \in Nat /\ f.skip \in Nat
    BY <1>1, FrameTypes
  <2> DEFINE skip == f.skip
  <2>3. P + d.expected = end
    <3>1. P = at + SkipHeader /\ d.expected = skip /\ end = at + (SkipHeader + skip)
          /\ at \in Nat /\ skip \in Nat
      BY <1>2, <2>1, <2>2
    <3> HIDE DEF at, skip, end, f
    <3> QED
      BY <3>1 DEF SkipHeader
  <2> HIDE DEF c, x, f
  <2> QED
    BY <2>1, <2>3, <1>2, <1>4, <1>7 DEF AtEnd, SamePast, end
<1> HIDE DEF c, x, f
<1>9. ~InBlocks(c) /\ c.stage # "skipFrame"
  BY <1>7 DEF InBlocks
<1>10. Decoding(c, m, n, p, f, P + d.expected, W)
  BY <1>1, <1>2, <1>8 DEF Decoding, Position
<1>11. Continued(d, n, p, f, P, W, c, m, 0)
  <2>1. c.decodedSize = d.decodedSize /\ Room(c, n, f, W)
    BY <1>4, <1>7, <1>9 DEF SamePast, Room
  <2> QED
    BY <2>1, <1>1, <1>7, <1>9, <1>10, NothingWritten
<1> HIDE DEF r
<1> QED
  BY <1>6, <1>11 DEF r, f

\* So every call on what is expected succeeds, as long as the frame is not over.
LEMMA Continue ==
  ASSUME NEW s \in Sources, NEW i \in 1 .. Len(s), NEW d \in Context, NEW n \in Nat,
         NEW m \in [0 .. n - 1 -> Int], NEW p \in Params, NEW P \in Nat, NEW W \in Nat,
         W <= n, NEW cap, Decoding(d, m, n, p, s[i], P, W), Room(d, n, s[i], W),
         d.expected > 0 \/ d.stage = "skipFrame",
         d.stage \in {"decompressBlock", "decompressLastBlock"} => cap = n - W
  PROVE  LET r == DecompressContinue(s, d, m, W, cap, P, d.expected) IN
         Continued(d, n, p, s[i], P, W, r.d, r.m, r.ret)
<1>1. CASE d.stage = "skipFrame"
  BY <1>1, ContinueSkip
<1>2. CASE d.stage # "skipFrame"
  <2>1. s[i].kind # Skippable /\ ~(d.expected = 0)
    <3>1. d.expected \in Nat /\ d.expected > 0
      BY <1>2, ContextTypes
    <3>2. ~(d.expected = 0)
      BY <3>1
    <3> QED
      BY <1>2, <3>2 DEF Decoding, Position, AtSkip, AtEnd
  <2>2. d.stage \in {"decodeBlockHeader", "decompressBlock", "decompressLastBlock", "checkChecksum"}
    BY <2>1 DEF Decoding, Position, AtBlock, AtData, AtChecksum, AtEnd
  <2>3. CASE d.stage = "decodeBlockHeader"
    BY <2>1, <2>3, ContinueBlockHeader
  <2>4. CASE d.stage \in {"decompressBlock", "decompressLastBlock"}
    BY <2>1, <2>4, ContinueData
  <2>5. CASE d.stage = "checkChecksum"
    BY <2>1, <2>5, ContinueChecksum
  <2> QED
    BY <2>2, <2>3, <2>4, <2>5
<1> QED
  BY <1>1, <1>2


-----------------------------------------------------------------------------
\* What follows from where the context is.

\* A frame that is over.
LEMMA Ended ==
  ASSUME NEW s \in Sources, NEW i \in 1 .. Len(s), NEW d \in Context, NEW m, NEW n, NEW p,
         NEW P \in Nat, NEW W, Decoding(d, m, n, p, s[i], P, W), d.expected = 0
  PROVE  /\ P = FrameEnd(s[i]) /\ d.decodedSize = s[i].content
         /\ ~InBlocks(d)
<1> DEFINE f == s[i]
<1>1. f \in Frame /\ (f.kind = Skippable => SkippableFrame(f))
  BY KindFacts
<1>2. Position(d, f, P)
  BY DEF Decoding
<1>3. ~AtBlock(d, f, P) /\ ~AtChecksum(d, f, P)
  BY DEF AtBlock, AtChecksum, BlockHeader, Checksum
<1>4. ~AtData(d, f, P)
  <2> SUFFICES ASSUME NEW b \in 1 .. Len(f.blocks), d.expected = f.blocks[b].csize,
                      f.blocks[b].csize > 0 PROVE FALSE
    BY DEF AtData
  <2>1. 0 = f.blocks[b].csize
    OBVIOUS
  <2> DEFINE csize == f.blocks[b].csize
  <2>2. csize = 0 /\ csize > 0
    BY <2>1
  <2> HIDE DEF csize
  <2> QED
    BY <2>2
<1>5. CASE AtEnd(d, f, P)
  BY <1>5 DEF AtEnd, InBlocks
<1>6. CASE f.kind = Skippable /\ AtSkip(d, f, P)
  <2>1. f.skip = 0 /\ P = f.at + SkipHeader /\ d.decodedSize = 0 /\ d.stage = "skipFrame"
    BY <1>6 DEF AtSkip
  <2>2. FrameEnd(f) = f.at + (SkipHeader + f.skip) /\ f.content = 0
    BY <1>1, <1>6 DEF SkippableFrame, FrameEnd
  <2>3. SkipHeader + 0 = SkipHeader
    BY DEF SkipHeader
  <2> HIDE DEF f
  <2>4. P = FrameEnd(f) /\ d.decodedSize = f.content /\ ~InBlocks(d)
    BY <2>1, <2>2, <2>3 DEF InBlocks
  <2> QED
    BY <2>4 DEF f
<1> QED
  BY <1>2, <1>3, <1>4, <1>5, <1>6 DEF Position

\* What is expected lies inside the frame, and so does its output.
LEMMA Inside ==
  ASSUME NEW s \in Sources, NEW i \in 1 .. Len(s), NEW d \in Context, NEW m, NEW n, NEW p,
         NEW P \in Nat, NEW W, Decoding(d, m, n, p, s[i], P, W)
  PROVE  /\ s[i].at < P /\ P + d.expected <= FrameEnd(s[i])
         /\ d.decodedSize <= s[i].content
         /\ d.stage # "skipFrame" => d.expected <= Larger(BlockSizeMax(s[i]), Checksum)
         /\ d.stage = "skipFrame" => d.expected = p.frameContentSize
<1> DEFINE f == s[i]
           at == f.at
           hsize == f.hsize
           end == FrameEnd(f)
           out == f.out
           content == f.content
           max == BlockSizeMax(f)
           ex == d.expected
           dec == d.decodedSize
<1>1. /\ f \in Frame /\ (f.kind = Skippable => SkippableFrame(f))
      /\ (f.kind # Skippable => FrameOfBlocks(f))
  BY KindFacts
<1>2. Position(d, f, P) /\ (f.kind = Skippable => p.frameContentSize = f.skip)
  BY DEF Decoding
<1>3. /\ at \in Nat /\ hsize \in Nat /\ end \in Nat /\ out \in Nat /\ content \in Nat
      /\ ex \in Nat /\ dec \in Nat /\ hsize >= 5 /\ at < end /\ FrameOutEnd(f) = out + content
      /\ f.cksum \in BOOLEAN
  BY <1>1, FrameTypes, ContextTypes, FrameSize DEF FrameOutEnd
<1>m. max \in Nat
  <2> DEFINE window == f.window
  <2>1. window \in Nat /\ BlockMax \in Nat
    BY <1>1, FrameTypes, ConstantTypes
  <2> HIDE DEF window
  <2>2. Smaller(window, BlockMax) \in Nat
    BY <2>1 DEF Smaller
  <2> QED
    BY <2>2 DEF BlockSizeMax, window
<1> SUFFICES /\ at < P /\ P + ex <= end /\ dec <= content
             /\ d.stage # "skipFrame" => ex <= Larger(max, Checksum)
             /\ d.stage = "skipFrame" => ex = p.frameContentSize
  OBVIOUS
<1>4. CASE AtEnd(d, f, P)
  <2>1. ex = 0 /\ P = end /\ dec = content /\ d.stage = "getFrameHeaderSize"
    BY <1>4 DEF AtEnd
  <2> HIDE DEF f, at, end, content, max, ex, dec
  <2> QED
    BY <2>1, <1>3, <1>m DEF Larger, Checksum
<1>5. CASE f.kind = Skippable /\ AtSkip(d, f, P)
  <2> DEFINE skip == f.skip
  <2>1. ex = skip /\ P = at + SkipHeader /\ dec = 0 /\ d.stage = "skipFrame"
        /\ p.frameContentSize = skip
    BY <1>2, <1>5 DEF AtSkip
  <2>2. end = at + (SkipHeader + skip)
    BY <1>1, <1>5 DEF SkippableFrame, FrameEnd
  <2>3. skip \in Nat
    BY <1>1, FrameTypes
  <2> HIDE DEF f, at, end, content, max, ex, dec, skip
  <2> QED
    BY <2>1, <2>2, <2>3, <1>3 DEF SkipHeader
<1>6. CASE f.kind # Skippable /\ AtChecksum(d, f, P)
  <2>1. ex = Checksum /\ P = end - Checksum /\ dec = content /\ d.stage = "checkChecksum" /\ f.cksum
    BY <1>6 DEF AtChecksum
  <2>2. at < end - Checksum
    <3> DEFINE n1 == Len(f.blocks)
               bat == f.blocks[n1].at
               bend == BlockEnd(f.blocks[n1])
               csize == f.blocks[n1].csize
    <3>1. n1 \in 1 .. n1 /\ FrameOfBlocks(f)
      BY <1>1, <1>6, FrameTypes DEF FrameOfBlocks
    <3>2. at + hsize <= bat /\ bend + TrailerSize(f) <= end /\ f.blocks[n1] \in Block
      BY <3>1, <1>1, BlockPlaces
    <3>3. bend = bat + BlockHeader + csize /\ bat \in Nat /\ csize \in Nat
      BY <3>2, BlockTypes
    <3>4. TrailerSize(f) = Checksum
      BY <2>1 DEF TrailerSize
    <3> HIDE DEF f, at, end, hsize, bat, bend, csize
    <3> QED
      BY <3>2, <3>3, <3>4, <1>3 DEF Checksum, BlockHeader
  <2> HIDE DEF f, at, end, content, max, ex, dec
  <2> QED
    BY <2>1, <2>2, <1>3, <1>m DEF Checksum, Larger
<1>7. CASE f.kind # Skippable /\ (AtBlock(d, f, P) \/ AtData(d, f, P))
  <2>1. PICK b \in 1 .. Len(f.blocks) :
          /\ dec = f.blocks[b].out - out /\ d.stage # "skipFrame"
          /\ \/ P = f.blocks[b].at /\ ex = BlockHeader
             \/ P = f.blocks[b].at + BlockHeader /\ ex = f.blocks[b].csize
    BY <1>7 DEF AtBlock, AtData
  <2> DEFINE bat == f.blocks[b].at
             bend == BlockEnd(f.blocks[b])
             csize == f.blocks[b].csize
             bout == f.blocks[b].out
             rsize == f.blocks[b].rsize
             trailer == TrailerSize(f)
  <2>2. /\ at + hsize <= bat /\ bend + trailer <= end /\ f.blocks[b] \in Block
        /\ out <= bout /\ bout + rsize <= out + content /\ csize <= max
    BY <1>1, <1>3, <1>7, BlockPlaces, BlockSizes
  <2>3. /\ bend = bat + BlockHeader + csize /\ bat \in Nat /\ csize \in Nat /\ bout \in Nat
        /\ rsize \in Nat
    BY <2>2, BlockTypes
  <2>4. trailer \in Nat
    BY <1>1, FrameTypes DEF Checksum
  <2>5. /\ dec = bout - out
        /\ (P = bat /\ ex = BlockHeader) \/ (P = bat + BlockHeader /\ ex = csize)
    BY <2>1
  <2> HIDE DEF f, at, end, content, max, ex, dec, bat, bend, csize, bout, rsize, trailer, out, hsize
  <2>6. at < P /\ P + ex <= end
    BY <2>2, <2>3, <2>4, <2>5, <1>3 DEF BlockHeader
  <2>7. dec <= content
    BY <2>2, <2>3, <2>5, <1>3
  <2>8. ex <= Larger(max, Checksum)
    BY <2>2, <2>3, <2>5, <1>3, <1>m DEF BlockHeader, Checksum, Larger
  <2> QED
    BY <2>1, <2>6, <2>7, <2>8
<1> QED
  BY <1>2, <1>4, <1>5, <1>6, <1>7 DEF Position

\* A frame does not end before something is expected no more.
LEMMA NotEnded ==
  ASSUME NEW s \in Sources, NEW i \in 1 .. Len(s), NEW d \in Context, NEW m, NEW n, NEW p,
         NEW P \in Nat, NEW W, Decoding(d, m, n, p, s[i], P, W), d.expected # 0
  PROVE  P < FrameEnd(s[i]) /\ d.expected > 0
<1> DEFINE end == FrameEnd(s[i])
           ex == d.expected
<1>1. P + ex <= end /\ ex \in Nat /\ end \in Nat /\ ex # 0
  BY Inside, ContextTypes, KindFacts, FrameTypes
<1> HIDE DEF end, ex
<1>2. P < end /\ ex > 0
  BY <1>1
<1> QED
  BY <1>2 DEF end, ex


-----------------------------------------------------------------------------
\* Beginning a frame, and starting the buffer again.

LEMMA BlockSizeMaxNat ==
  ASSUME NEW f \in Frame
  PROVE  BlockSizeMax(f) \in Nat /\ BlockSizeMax(f) <= f.window
<1> DEFINE window == f.window
<1>1. window \in Nat /\ BlockMax \in Nat
  BY FrameTypes, ConstantTypes
<1> HIDE DEF window
<1>2. Smaller(window, BlockMax) \in Nat /\ Smaller(window, BlockMax) <= window
  BY <1>1 DEF Smaller
<1> QED
  BY <1>2 DEF BlockSizeMax, window

\* What the first n bytes of the header of frame i say.
HeaderParams(f) ==
  IF f.kind = Skippable THEN FrameParams(0, f.skip, 0, FALSE)
  ELSE FrameParams(f.window, f.fcs, BlockSizeMax(f), f.cksum)

LEMMA HeaderParamsFields ==
  ASSUME NEW f \in Frame
  PROVE  LET q == HeaderParams(f) IN
         /\ q \in Params
         /\ f.kind = Skippable => /\ q.windowSize = 0 /\ q.frameContentSize = f.skip
                                  /\ q.blockSizeMax = 0
         /\ f.kind # Skippable => /\ q.windowSize = f.window /\ q.frameContentSize = f.fcs
                                  /\ q.blockSizeMax = BlockSizeMax(f)
                                  /\ q.checksumFlag = f.cksum
BY FrameTypes, BlockSizeMaxNat DEF HeaderParams, FrameParams, Params

LEMMA HeaderResult ==
  ASSUME NEW s \in Sources, NEW i \in 1 .. Len(s), NEW n \in Nat, n <= s[i].hsize,
         s[i].kind \in {Zstd, Skippable}
  PROVE  LET h == GetFrameHeader(s, i, n) IN
         /\ h.ret \in Nat /\ h.params \in Params
         /\ h.ret = 0 <=> n = s[i].hsize
         /\ h.ret > 0 => n < h.ret /\ h.ret <= s[i].hsize
         /\ h.ret = 0 => h.params = HeaderParams(s[i])
<1> DEFINE f == s[i]
           hsize == f.hsize
           q == HeaderParams(f)
           none == FrameParams(0, 0, 0, FALSE)
<1>1. f \in Frame /\ (f.kind = Skippable => hsize = SkipHeader)
      /\ (f.kind # Skippable => hsize >= 6)
  <2>1. /\ f \in Frame /\ (f.kind = Skippable => SkippableFrame(f))
        /\ (f.kind # Skippable => FrameOfBlocks(f) /\ f.kind = Zstd)
    BY KindFacts
  <2> HIDE DEF f
  <2>2. SkippableFrame(f) => f.hsize = SkipHeader
    BY DEF SkippableFrame
  <2>3. FrameOfBlocks(f) /\ f.kind = Zstd => f.hsize >= 6
    BY DEF FrameOfBlocks
  <2> QED
    BY <2>1, <2>2, <2>3
<1>2. q \in Params /\ hsize \in Nat /\ n <= hsize
  <2>1. n <= hsize
    OBVIOUS
  <2> HIDE DEF f
  <2>2. q \in Params
    BY <1>1, HeaderParamsFields
  <2>3. hsize \in Nat
    BY <1>1, FrameTypes
  <2> QED
    BY <2>1, <2>2, <2>3
<1>3. none \in Params
  BY DEF FrameParams, Params
<1>4. GetFrameHeader(s, i, n) =
        [ret |-> IF n < HeaderPrefix THEN HeaderPrefix ELSE IF n < hsize THEN hsize ELSE 0,
         params |-> IF n < hsize THEN none ELSE q]
  <2>1. CASE n < HeaderPrefix
    <3>1. n < hsize
      BY <2>1, <1>1, <1>2 DEF HeaderPrefix, SkipHeader
    <3> HIDE DEF f, hsize, none, q
    <3> QED
      BY <2>1, <3>1 DEF GetFrameHeader, none
  <2>2. CASE ~(n < HeaderPrefix) /\ f.kind = Skippable
    <3>1. hsize = SkipHeader
      BY <2>2, <1>1
    <3>2. FrameParams(0, f.skip, 0, FALSE) = q
      BY <2>2 DEF HeaderParams
    <3> HIDE DEF hsize, none, q
    <3> QED
      BY <2>2, <3>1, <3>2 DEF GetFrameHeader, none, f
  <2>3. CASE ~(n < HeaderPrefix) /\ f.kind # Skippable
    <3>1. f.kind = Zstd
      BY <2>3
    <3>2. FrameParams(f.window, f.fcs, Smaller(f.window, BlockMax), f.cksum) = q
      BY <2>3 DEF HeaderParams, BlockSizeMax
    <3> HIDE DEF hsize, none, q
    <3> QED
      BY <2>3, <3>1, <3>2 DEF GetFrameHeader, none, f, hsize
  <2> QED
    BY <2>1, <2>2, <2>3
<1> HIDE DEF f, hsize, none, q
<1>5. LET r == IF n < HeaderPrefix THEN HeaderPrefix ELSE IF n < hsize THEN hsize ELSE 0 IN
      /\ r \in Nat /\ (r = 0 <=> n = hsize) /\ (r > 0 => n < r /\ r <= hsize)
  BY <1>1, <1>2 DEF HeaderPrefix, SkipHeader
<1>6. GetFrameHeader(s, i, n).params \in Params
      /\ (~(n < hsize) => GetFrameHeader(s, i, n).params = q)
  BY <1>2, <1>3, <1>4
<1> QED
  BY <1>2, <1>4, <1>5, <1>6 DEF f, hsize, q

\* A buffer of the size ZSTD1_decodingBufferSize_min asks for is large enough.
LEMMA BufferSize ==
  ASSUME NEW f \in Frame, NEW w \in Nat, f.window <= w
  PROVE  /\ DecodingBufferSizeMin(w, f.fcs) \in Nat
         /\ \A n \in Nat : n >= DecodingBufferSizeMin(w, f.fcs) =>
              FirstLapOnly(f, n) \/ n >= f.window + BlockSizeMax(f) + 2 * Wildcopy
<1> DEFINE window == f.window
           fcs == f.fcs
           block == BlockSizeMax(f)
           needed == w + Smaller(w, BlockMax) + 2 * Wildcopy
<1>1. window \in Nat /\ fcs \in Nat \cup {Unknown} /\ block = Smaller(window, BlockMax)
      /\ BlockMax \in Nat /\ Wildcopy \in Nat /\ window <= w
  BY FrameTypes, ConstantTypes DEF BlockSizeMax
<1> HIDE DEF window, fcs, block
<1>2. needed \in Nat /\ needed >= window + block + 2 * Wildcopy
  BY <1>1 DEF Smaller
<1>3. DecodingBufferSizeMin(w, fcs) = IF fcs = Unknown THEN needed ELSE Smaller(fcs, needed)
  BY DEF DecodingBufferSizeMin
<1>4. DecodingBufferSizeMin(w, fcs) \in Nat
  <2> HIDE DEF needed
  <2> QED
    BY <1>1, <1>2, <1>3 DEF Smaller, Unknown
<1>5. \A n \in Nat : n >= DecodingBufferSizeMin(w, fcs) =>
         (fcs # Unknown /\ n >= fcs) \/ n >= needed
  <2> HIDE DEF needed
  <2> QED
    BY <1>1, <1>2, <1>3 DEF Smaller, Unknown
<1>6. window + block + 2 * Wildcopy \in Nat
  BY <1>1 DEF Smaller
<1>7. \A n \in Nat : n >= DecodingBufferSizeMin(w, fcs) =>
         (fcs # Unknown /\ n >= fcs) \/ n >= window + block + 2 * Wildcopy
  <2> DEFINE small == window + block + 2 * Wildcopy
  <2>1. small \in Nat /\ needed >= small /\ needed \in Nat
    BY <1>2, <1>6
  <2> HIDE DEF needed, small
  <2> QED
    BY <1>5, <2>1 DEF small
<1> QED
  BY <1>4, <1>7 DEF FirstLapOnly, window, fcs, block

\* A frame of blocks is begun: the context expects its first block.
LEMMA BeginBlocks ==
  ASSUME NEW s \in Sources, NEW i \in 1 .. Len(s), s[i].kind = Zstd, NEW d \in Context, NoLap(d),
         NEW n \in Nat, NEW m \in [0 .. n - 1 -> Int], NEW p \in Params, Sized(p, n, s[i])
  PROVE  LET c == ToBlockHeader(DecodeFrameHeader(s, d, i)) IN
         /\ c \in Context /\ c.decodedSize = 0 /\ c.expected > 0 /\ c.stage # "skipFrame"
         /\ Decoding(c, m, n, p, s[i], s[i].at + s[i].hsize, 0)
         /\ Room(c, n, s[i], 0)
<1> DEFINE f == s[i]
           x == DecodeFrameHeader(s, d, i)
           c == ToBlockHeader(x)
           q == HeaderParams(f)
<1>1. f \in Frame /\ FrameOfBlocks(f) /\ f.kind # Skippable /\ f.hsize \in Nat
  <2>1. f.kind # Skippable
    BY DEF Skippable, Zstd
  <2>2. f \in Frame /\ FrameOfBlocks(f)
    BY <2>1, KindFacts
  <2> HIDE DEF f
  <2>3. f.hsize \in Nat
    BY <2>2, FrameTypes
  <2> QED
    BY <2>1, <2>2, <2>3
<1>2. /\ q \in Params /\ q.frameContentSize = f.fcs /\ q.checksumFlag = f.cksum
  BY <1>1, HeaderParamsFields
<1>3. x = [d EXCEPT !.params = q]
  <2>1. GetFrameHeader(s, i, f.hsize).params = q
    <3>1. f.hsize <= s[i].hsize /\ f.hsize \in Nat /\ s[i].kind \in {Zstd, Skippable}
      BY <1>1
    <3> QED
      BY <3>1, HeaderResult
  <2> HIDE DEF q
  <2> QED
    BY <2>1 DEF DecodeFrameHeader
<1> HIDE DEF q
<1>4. /\ x \in Context /\ x.decodedSize = d.decodedSize /\ x.previousDstEnd = d.previousDstEnd
      /\ x.base = d.base /\ x.vBase = d.vBase /\ x.dictEnd = d.dictEnd /\ x.params = q
  <2> HIDE DEF x
  <2> QED
    BY <1>2, <1>3 DEF Context
<1> HIDE DEF x
<1>5. /\ c \in Context /\ SamePast(x, c)
      /\ c.stage = "decodeBlockHeader" /\ c.expected = BlockHeader
  BY <1>4, ToBlockHeaderFields
<1> HIDE DEF c
<1>6. NoLap(c) /\ c.decodedSize = 0 /\ c.params = q
  BY <1>4, <1>5 DEF NoLap, SamePast
<1>7. History(c, m, n, f, 0)
  BY <1>6 DEF History, Continues
<1>8. AtBlock(c, f, f.at + f.hsize)
  <2>1. 1 \in 1 .. Len(f.blocks) /\ f.blocks[1].at = f.at + f.hsize /\ f.blocks[1].out = f.out
    BY <1>1, FrameTypes DEF FrameOfBlocks
  <2>2. f.out \in Nat
    BY <1>1, FrameTypes
  <2>3. f.blocks[1].out - f.out = 0
    <3> DEFINE out == f.out
               bout == f.blocks[1].out
    <3>1. bout = out /\ out \in Nat
      BY <2>1, <2>2
    <3> HIDE DEF out, bout
    <3>2. bout - out = 0
      BY <3>1
    <3> QED
      BY <3>2 DEF out, bout
  <2> HIDE DEF f
  <2> QED
    BY <2>1, <2>3, <1>5, <1>6 DEF AtBlock
<1>9. Room(c, n, f, 0)
  <2> DEFINE block == BlockSizeMax(f)
             window == f.window
  <2>1. block \in Nat /\ window \in Nat /\ Wildcopy \in Nat
    BY <1>1, BlockSizeMaxNat, FrameTypes, ConstantTypes
  <2>2. FirstLapOnly(f, n) \/ n >= window + block + 2 * Wildcopy
    BY DEF Sized
  <2> HIDE DEF block, window, f
  <2>3. FirstLapOnly(f, n) \/ 0 + block <= n
    BY <2>1, <2>2
  <2> QED
    BY <2>3 DEF Room, block
<1>10. Decoding(c, m, n, p, f, f.at + f.hsize, 0)
  <2>1. Sized(p, n, f)
    OBVIOUS
  <2>2. c.params.frameContentSize = f.fcs /\ c.params.checksumFlag = f.cksum
    BY <1>2, <1>6
  <2> HIDE DEF f
  <2> QED
    BY <1>1, <1>7, <1>8, <2>1, <2>2 DEF Decoding, Position
<1> QED
  BY <1>5, <1>6, <1>9, <1>10 DEF c, x, BlockHeader

\* A skippable frame is begun: its content is to be skipped.
SkipBegun(d, f) == [d EXCEPT !.expected = f.skip, !.stage = "skipFrame"]

LEMMA BeginSkip ==
  ASSUME NEW s \in Sources, NEW i \in 1 .. Len(s), s[i].kind = Skippable, NEW d \in Context,
         d.decodedSize = 0, NEW n \in Nat, NEW m \in [0 .. n - 1 -> Int], NEW p \in Params,
         p.frameContentSize = s[i].skip
  PROVE  LET c == SkipBegun(d, s[i]) IN
         /\ c \in Context /\ c.decodedSize = 0 /\ c.at = d.at /\ c.stage = "skipFrame"
         /\ Decoding(c, m, n, p, s[i], s[i].at + s[i].hsize, 0)
         /\ Room(c, n, s[i], 0)
<1> DEFINE f == s[i]
           skip == f.skip
           c == [d EXCEPT !.expected = skip, !.stage = "skipFrame"]
<1>1. f \in Frame /\ SkippableFrame(f) /\ skip \in Nat
  BY KindFacts, FrameTypes
<1>2. f.hsize = SkipHeader
  BY <1>1 DEF SkippableFrame
<1>3. "skipFrame" \in ContextStages
  BY DEF ContextStages
<1> HIDE DEF skip
<1>4. c \in Context /\ SamePast(d, c) /\ c.stage = "skipFrame" /\ c.expected = skip
  <2>1. LET z == [d EXCEPT !.expected = skip, !.stage = "skipFrame"] IN
        z \in Context /\ SamePast(d, z) /\ z.stage = "skipFrame" /\ z.expected = skip
    BY <1>1, <1>3 DEF Context, SamePast
  <2> QED
    BY <2>1
<1> HIDE DEF c, f
<1>5. c.decodedSize = 0 /\ c.at = d.at /\ ~InBlocks(c)
  BY <1>4 DEF SamePast, InBlocks
<1>6. f.kind = Skippable /\ p.frameContentSize = skip
  BY DEF f, skip
<1>7. AtSkip(c, f, f.at + f.hsize)
  BY <1>2, <1>4, <1>5 DEF AtSkip, skip
<1>8. Decoding(c, m, n, p, f, f.at + f.hsize, 0) /\ Room(c, n, f, 0)
  BY <1>5, <1>6, <1>7 DEF Decoding, Position, Room, skip
<1> QED
  BY <1>4, <1>5, <1>8 DEF c, f, skip, SkipBegun

\* ZSTD1_decompressBegin: nothing is written, and the dictionary lies before it.
LEMMA Begun ==
  /\ DecompressBegin \in Context
  /\ LET d == DecompressBeginUsingDDict IN
     d \in Context /\ NoLap(d) /\ d.stage = "getFrameHeaderSize" /\ d.expected = HeaderPrefix
  /\ LET d == DecompressBeginUsingDict IN
     d \in Context /\ NoLap(d) /\ d.stage = "getFrameHeaderSize" /\ d.expected = HeaderPrefix
<1> DEFINE b == DecompressBegin
<1>1. FrameParams(0, 0, 0, FALSE) \in Params /\ Nothing \in Elements
  BY DEF FrameParams, Params, Nothing, Element, Elements
<1>2. /\ b \in Context /\ b.previousDstEnd = -1 /\ b.base = -1 /\ b.decodedSize = 0
      /\ b.expected = HeaderPrefix /\ b.stage = "getFrameHeaderSize"
  <2> DEFINE q == FrameParams(0, 0, 0, FALSE)
             e == Nothing
             null == -1
             st == "getFrameHeaderSize"
  <2>1. b = [expected |-> HeaderPrefix, stage |-> st, decodedSize |-> 0,
             previousDstEnd |-> null, base |-> null, vBase |-> null, dictEnd |-> null,
             headerSize |-> 0, params |-> q, at |-> e]
    BY DEF DecompressBegin, NULL
  <2>2. q \in Params /\ e \in Elements
    BY <1>1
  <2>t. null \in Int /\ HeaderPrefix \in Nat
    BY DEF HeaderPrefix
  <2>s. st \in ContextStages
    BY DEF ContextStages
  <2> HIDE DEF b, q, e, null, st
  <2>3. /\ b \in Context /\ b.previousDstEnd = null /\ b.base = null /\ b.decodedSize = 0
        /\ b.expected = HeaderPrefix /\ b.stage = st
    BY <2>1, <2>2, <2>t, <2>s DEF Context
  <2> QED
    BY <2>3 DEF null, st
<1>3. /\ DictSize \in Nat /\ DictBase \in Int /\ DictBase + DictSize = -2
      /\ DictBase = -2 - DictSize
  BY DictFacts DEF DictBase, NULL
<1> HIDE DEF b
<1>4. CASE DictSize = 0
  <2>1. DecompressBeginUsingDDict = b /\ DecompressBeginUsingDict = b
    BY <1>4 DEF DecompressBeginUsingDDict, DecompressBeginUsingDict, b
  <2>2. NoLap(b)
    BY <1>2, <1>4 DEF NoLap
  <2> QED
    BY <2>1, <2>2, <1>2 DEF b
<1>5. CASE DictSize # 0
  <2> DEFINE end == DictBase + DictSize
             x == [b EXCEPT !.base = DictBase, !.vBase = DictBase, !.dictEnd = end,
                            !.previousDstEnd = end]
             y == [b EXCEPT !.dictEnd = b.previousDstEnd,
                            !.vBase = DictBase - (b.previousDstEnd - b.base),
                            !.base = DictBase, !.previousDstEnd = end]
  <2>1. DecompressBeginUsingDDict = x /\ DecompressBeginUsingDict = y
    BY <1>5 DEF DecompressBeginUsingDDict, DecompressBeginUsingDict, b
  <2>2. end \in Int /\ end < 0 /\ end - DictBase = DictSize
        /\ DictBase - (b.previousDstEnd - b.base) \in Int /\ b.previousDstEnd \in Int
    BY <1>2, <1>3
  <2> HIDE DEF end
  <2>3. /\ x \in Context /\ x.decodedSize = 0 /\ x.previousDstEnd = end /\ x.base = DictBase
        /\ x.stage = "getFrameHeaderSize" /\ x.expected = HeaderPrefix
    BY <1>2, <1>3, <2>2 DEF Context
  <2>4. /\ y \in Context /\ y.decodedSize = 0 /\ y.previousDstEnd = end /\ y.base = DictBase
        /\ y.stage = "getFrameHeaderSize" /\ y.expected = HeaderPrefix
    <3> DEFINE v == DictBase - (b.previousDstEnd - b.base)
               pe == b.previousDstEnd
    <3>1. v \in Int /\ pe \in Int
      BY <2>2
    <3> HIDE DEF v, pe
    <3>2. LET z == [b EXCEPT !.dictEnd = pe, !.vBase = v, !.base = DictBase,
                             !.previousDstEnd = end] IN
          /\ z \in Context /\ z.decodedSize = 0 /\ z.previousDstEnd = end /\ z.base = DictBase
          /\ z.stage = "getFrameHeaderSize" /\ z.expected = HeaderPrefix
      BY <1>2, <1>3, <2>2, <3>1 DEF Context
    <3> QED
      BY <3>2 DEF v, pe
  <2> HIDE DEF x, y
  <2>5. NoLap(x) /\ NoLap(y)
    BY <2>2, <2>3, <2>4 DEF NoLap, end
  <2> QED
    BY <2>1, <2>3, <2>4, <2>5, <1>2 DEF b
<1> QED
  BY <1>4, <1>5

\* Where the next block goes when the buffer may start again (Wraps).
NextPlace(n, p, W) ==
  IF (p.frameContentSize = Unknown \/ n < p.frameContentSize) /\ W + p.blockSizeMax > n
  THEN 0 ELSE W

LEMMA Wrapped ==
  ASSUME NEW d \in Context, NEW f \in Frame, NEW n \in Nat, NEW m, NEW p \in Params,
         NEW P, NEW W \in Nat, W <= n, Decoding(d, m, n, p, f, P, W)
  PROVE  /\ NextPlace(n, p, W) \in Nat /\ NextPlace(n, p, W) <= n
         /\ Decoding(d, m, n, p, f, P, NextPlace(n, p, W))
         /\ Room(d, n, f, NextPlace(n, p, W))
<1> DEFINE V == NextPlace(n, p, W)
           prev == d.previousDstEnd
<1>1. V \in {0, W} /\ V \in Nat /\ V <= n
  BY DEF NextPlace
<1>2. CASE ~InBlocks(d)
  BY <1>1, <1>2 DEF Decoding, Room
<1>3. CASE InBlocks(d)
  <2> DEFINE block == BlockSizeMax(f)
             window == f.window
             fcs == f.fcs
  <2>1. f.kind # Skippable
    BY <1>3 DEF Decoding, Position, AtSkip, AtEnd, InBlocks
  <2>2. (n > 0 => History(d, m, n, f, W)) /\ Sized(p, n, f)
    BY <2>1, <1>3 DEF Decoding
  <2>3. block \in Nat /\ window \in Nat /\ Wildcopy \in Nat /\ fcs \in Nat \cup {Unknown}
        /\ prev \in Int
    BY BlockSizeMaxNat, FrameTypes, ConstantTypes, ContextTypes
  <2>4. p.frameContentSize = fcs /\ p.blockSizeMax = block
        /\ (FirstLapOnly(f, n) \/ n >= window + block + 2 * Wildcopy)
    BY <2>2 DEF Sized
  <2>5. V = IF (fcs = Unknown \/ n < fcs) /\ W + block > n THEN 0 ELSE W
    BY <2>4 DEF NextPlace
  <2>6. FirstLapOnly(f, n) <=> (fcs # Unknown /\ n >= fcs)
    BY DEF FirstLapOnly
  <2> HIDE DEF block, window, fcs, V
  <2>7. CASE FirstLapOnly(f, n) \/ W + block <= n
    <3>1. V = W
      BY <2>3, <2>5, <2>6, <2>7
    <3>2. Room(d, n, f, V)
      BY <3>1, <2>7 DEF Room, block
    <3> QED
      BY <3>1, <3>2, <1>1 DEF V
  <2>8. CASE ~FirstLapOnly(f, n) /\ ~(W + block <= n)
    <3>1. V = 0 /\ n >= window + block + 2 * Wildcopy /\ W + block > n
      BY <2>3, <2>4, <2>5, <2>6, <2>8 DEF Unknown
    <3>2. n > 0 => W # 0 /\ W >= window + Wildcopy
      BY <3>1, <2>3
    <3>3. n > 0 => History(d, m, n, f, 0)
      <4> SUFFICES ASSUME n > 0 PROVE History(d, m, n, f, 0)
        OBVIOUS
      <4>1. History(d, m, n, f, W) /\ W # 0 /\ W >= window + Wildcopy
        BY <2>2, <3>2
      <4>2. W = prev
        BY <4>1 DEF History, Continues
      <4>3. Continues(d, f, 0)
        BY <4>1, <4>2 DEF Continues, window
      <4> QED
        BY <4>1, <4>3, <2>8 DEF History
    <3>4. Room(d, n, f, 0)
      <4>1. 0 + block <= n
        BY <3>1, <2>3
      <4> QED
        BY <4>1 DEF Room, block
    <3>5. Decoding(d, m, n, p, f, P, 0)
      BY <2>1, <2>2, <3>3 DEF Decoding
    <3> QED
      BY <3>1, <3>4, <3>5, <1>1 DEF V
  <2> QED
    BY <2>7, <2>8
<1> QED
  BY <1>2, <1>3


-----------------------------------------------------------------------------
\* The steps.  First what all of them need.

LEMMA StateTypes ==
  ASSUME Types
  PROVE  /\ api \in Api /\ src \in Sources /\ ipos \in Nat /\ opos \in Nat /\ ret \in Int
         /\ dctx \in Context /\ outBuffSize \in Nat /\ mem \in [0 .. outBuffSize - 1 -> Int]
         /\ frame \in 0 .. Len(src) /\ lhSize \in Nat /\ inPos \in Nat
         /\ outStart \in Nat /\ outEnd \in Nat /\ hostageByte \in {0, 1}
         /\ inBuffSize \in Nat /\ fParams \in Params
         /\ SourceSize(src) \in Nat /\ OutputSize(src) \in Nat /\ Len(src) \in Nat \ {0}
         /\ dctx.expected \in Nat /\ dctx.decodedSize \in Nat
         /\ fParams.frameContentSize \in Nat \cup {Unknown}
<1>1. src \in Sources /\ dctx \in Context /\ lhSize \in Nat /\ fParams \in Params
  BY DEF Types, HeaderMax
<1>2. SourceSize(src) \in Nat /\ OutputSize(src) \in Nat /\ Len(src) \in Nat \ {0}
  <2>1. Len(src) \in Nat \ {0} /\ Len(src) \in 1 .. Len(src)
    BY <1>1, SourceTypes
  <2> QED
    BY <1>1, <2>1, SourceBound
<1>3. dctx.expected \in Nat /\ dctx.decodedSize \in Nat
  BY <1>1, ContextTypes
<1>4. fParams.frameContentSize \in Nat \cup {Unknown}
  BY <1>1 DEF Params
<1> QED
  BY <1>1, <1>2, <1>3, <1>4 DEF Types

LEMMA CallTypes ==
  ASSUME Types
  PROVE  /\ call.on \in BOOLEAN /\ call.more \in BOOLEAN /\ call.istart \in Nat
         /\ call.ip \in Nat /\ call.iend \in Nat /\ call.op \in Nat /\ call.oend \in Nat
BY DEF Types, CallRecord

LEMMA IdleFields ==
  Idle \in CallRecord /\ ~Idle.on
BY DEF Idle, CallRecord

\* The frame at hand.
LEMMA FrameAtHand ==
  ASSUME Types, frame > 0
  PROVE  /\ frame \in 1 .. Len(src) /\ ThisFrame \in Frame /\ ThisFrame = src[frame]
         /\ ThisFrame.at \in Nat /\ ThisFrame.hsize \in Nat /\ ThisFrame.out \in Nat
         /\ ThisFrame.content \in Nat /\ ThisFrame.skip \in Nat
         /\ FrameEnd(ThisFrame) \in Nat /\ FrameEnd(ThisFrame) <= SourceSize(src)
         /\ ThisFrame.at + ThisFrame.hsize <= FrameEnd(ThisFrame)
         /\ FrameOutEnd(ThisFrame) = ThisFrame.out + ThisFrame.content
         /\ FrameOutEnd(ThisFrame) <= OutputSize(src)
         /\ BlockSizeMax(ThisFrame) \in Nat
<1>1. frame \in 1 .. Len(src) /\ src \in Sources
  BY StateTypes
<1>2. src[frame] \in Frame
  BY <1>1, SourceTypes
<1>3. /\ FrameEnd(src[frame]) <= SourceSize(src) /\ FrameOutEnd(src[frame]) <= OutputSize(src)
      /\ src[frame].at + src[frame].hsize <= FrameEnd(src[frame])
  BY <1>1, SourceBound, FrameSize
<1> DEFINE f == src[frame]
<1> HIDE DEF f
<1>4. f \in Frame /\ FrameEnd(f) <= SourceSize(src) /\ FrameOutEnd(f) <= OutputSize(src)
      /\ f.at + f.hsize <= FrameEnd(f)
  BY <1>2, <1>3 DEF f
<1>5. /\ f.at \in Nat /\ f.hsize \in Nat /\ f.out \in Nat /\ f.content \in Nat
      /\ f.skip \in Nat /\ FrameEnd(f) \in Nat
  BY <1>4, FrameTypes
<1>6. FrameOutEnd(f) = f.out + f.content
  BY DEF FrameOutEnd
<1>7. BlockSizeMax(f) \in Nat
  BY <1>4, BlockSizeMaxNat
<1> QED
  BY <1>1, <1>4, <1>5, <1>6, <1>7 DEF f, ThisFrame

\* A step that does not return.
LEMMA NoReturnStep ==
  ASSUME IInv, call.on, api' = api, src' = src, ipos' = ipos, opos' = opos, ret' = ret,
         sources' = sources
  PROVE  /\ api' = "stream" /\ ~IsError(ret') /\ LoopInv' /\ RetInv'
<1>1. api = "stream" /\ ~IsError(ret) /\ ZeroMeansFrameDone
  BY DEF IInv, Bounds, RetInv
<1>2. LoopInv'
  BY <1>1 DEF LoopInv
<1>3. ZeroMeansFrameDone'
  BY <1>1 DEF ZeroMeansFrameDone, Whole
<1>4. ValidNeverFails' /\ ~IsError(ret')
  BY <1>1 DEF ValidNeverFails
<1> QED
  BY <1>1, <1>2, <1>3, <1>4 DEF RetInv

\* The decoder is in stage st, and so are its invariants.
LEMMA AtStage ==
  ASSUME IInv, NEW st \in Stages, In(st)
  PROVE  /\ Types /\ Bounds /\ call.on /\ call.more /\ api = "stream" /\ ~IsError(ret)
         /\ streamStage = st
         /\ Cur = call.ip /\ Done = call.op
         /\ call.istart = ipos /\ call.istart <= call.ip /\ call.ip <= call.iend
         /\ call.iend <= SourceSize(src) /\ opos <= call.op /\ call.op <= call.oend
         /\ st = "init" => InitStage
         /\ st = "loadHeader" => HeaderStage
         /\ st = "read" => ReadStage
         /\ st = "load" => LoadStage
         /\ st = "flush" => FlushStage
<1>1. call.on /\ call.more /\ streamStage = st /\ Types /\ Bounds /\ StreamInv
  BY DEF IInv, In
<1>2. api = "stream" /\ ~IsError(ret)
  BY <1>1 DEF Bounds
<1>3. Cur = call.ip /\ Done = call.op
  BY <1>1 DEF Cur, Done
<1>4. /\ st = "init" => InitStage
      /\ st = "loadHeader" => HeaderStage
      /\ st = "read" => ReadStage
      /\ st = "load" => LoadStage
      /\ st = "flush" => FlushStage
  BY <1>1, <1>2 DEF StreamInv, Stages
<1> QED
  BY <1>1, <1>2, <1>3, <1>4 DEF Bounds

\* The caller brings input and room: the decoder goes on where it was.
LEMMA CallStreamStep ==
  ASSUME IInv, NEW n \in InSizes, NEW k \in OutSizes, CallStream(n, k)
  PROVE  IInv'
<1> DEFINE end == Smaller(ipos + n, SourceSize(src))
<1>1. /\ ~call.on /\ api = "stream" /\ ~IsError(ret) /\ Types /\ Bounds
      /\ call' = [on |-> TRUE, istart |-> ipos, ip |-> ipos, iend |-> end,
                  op |-> opos, oend |-> opos + k, more |-> TRUE]
      /\ UNCHANGED <<userVars, ret, dctx, mem, zdsVars, buffVars, legacyVars, failures>>
  BY DEF IInv, CallStream
<1>2. n \in Nat /\ k \in Nat /\ ipos \in Nat /\ opos \in Nat /\ SourceSize(src) \in Nat
      /\ ipos <= SourceSize(src)
  BY <1>1, ConstantTypes, StateTypes DEF Bounds
<1>3. end \in Nat /\ ipos <= end /\ end <= SourceSize(src) /\ opos + k \in Nat /\ opos <= opos + k
  BY <1>2 DEF Smaller
<1> HIDE DEF end
<1>4. /\ call' \in CallRecord /\ call'.on /\ call'.more /\ call'.istart = ipos /\ call'.ip = ipos
      /\ call'.iend = end /\ call'.op = opos /\ call'.oend = opos + k
  <2> DEFINE o == opos + k
  <2>1. o \in Nat /\ call' = [on |-> TRUE, istart |-> ipos, ip |-> ipos, iend |-> end,
                              op |-> opos, oend |-> o, more |-> TRUE]
    BY <1>1, <1>3
  <2> HIDE DEF o
  <2>2. /\ call' \in CallRecord /\ call'.on /\ call'.more /\ call'.istart = ipos /\ call'.ip = ipos
        /\ call'.iend = end /\ call'.op = opos /\ call'.oend = o
    BY <2>1, <1>2, <1>3 DEF CallRecord
  <2> QED
    BY <2>2 DEF o
<1>5. Cur' = Cur /\ Done' = Done /\ Cur = ipos /\ Done = opos
  BY <1>1, <1>4 DEF Cur, Done
<1>u. /\ api' = api /\ src' = src /\ sources' = sources /\ ipos' = ipos /\ opos' = opos
      /\ ret' = ret /\ dctx' = dctx /\ mem' = mem /\ streamStage' = streamStage
      /\ frame' = frame /\ lhSize' = lhSize /\ inPos' = inPos /\ outStart' = outStart
      /\ outEnd' = outEnd /\ hostageByte' = hostageByte /\ inBuffSize' = inBuffSize
      /\ outBuffSize' = outBuffSize /\ fParams' = fParams /\ legacyVersion' = legacyVersion
      /\ previousLegacyVersion' = previousLegacyVersion /\ failures' = failures
  BY <1>1 DEF userVars, zdsVars, buffVars, legacyVars
<1>6. Types'
  <2>1. Types /\ call' \in CallRecord
    BY <1>1, <1>4
  <2> QED
    BY <2>1, <1>u DEF Types
<1>7. Bounds'
  <2>1. /\ ipos <= SourceSize(src) /\ outStart <= outBuffSize /\ outEnd <= outBuffSize
        /\ api = "stream" => inPos <= Larger(inBuffSize, fParams.frameContentSize)
    BY <1>1 DEF Bounds
  <2>2. /\ (ipos <= SourceSize(src))' /\ (outStart <= outBuffSize)' /\ (outEnd <= outBuffSize)'
        /\ (api = "stream" => inPos <= Larger(inBuffSize, fParams.frameContentSize))'
    BY <2>1, <1>u
  <2>3. /\ (api = "stream" /\ ~IsError(ret))'
        /\ call'.istart = ipos' /\ call'.istart <= call'.ip /\ call'.ip <= call'.iend
        /\ call'.iend <= SourceSize(src)' /\ opos' <= call'.op /\ call'.op <= call'.oend
    <3>1. api = "stream" /\ ~IsError(ret)
      BY <1>1
    <3>2. ipos <= ipos /\ opos <= opos
      BY <1>2
    <3> QED
      BY <3>1, <3>2, <1>3, <1>4, <1>u
  <2> QED
    BY <2>2, <2>3 DEF Bounds
<1>8. StreamInv'
  <2>1. ThisFrame' = ThisFrame /\ InRoom' = InRoom
    BY <1>u DEF ThisFrame, InRoom
  <2>2. CASE streamStage = "init"
    <3>1. Boundary(Cur, Done, 0)
      BY <1>1, <2>2 DEF IInv, StreamInv, InitStage
    <3>2. InitStage'
      <4>1. Boundary(Cur, Done, 0)'
        BY <3>1, <1>5, <1>u DEF Boundary
      <4> QED
        BY <4>1, <1>4, <1>5, <1>u DEF InitStage
    <3> QED
      BY <2>2, <3>2, <1>u DEF StreamInv
  <2>3. CASE streamStage = "loadHeader"
    <3>1. HeaderStage
      BY <1>1, <2>3 DEF IInv, StreamInv
    <3>2. frame # 0 => ThisFrame.at <= ipos
      <4>1. frame # 0 => frame > 0
        BY <1>1, StateTypes
      <4>2. frame # 0 => ThisFrame.at \in Nat /\ lhSize \in Nat /\ ipos = ThisFrame.at + lhSize
        BY <3>1, <1>1, <1>5, <4>1, FrameAtHand, StateTypes DEF HeaderStage
      <4> DEFINE at == ThisFrame.at
      <4>3. frame # 0 => at \in Nat /\ lhSize \in Nat /\ ipos = at + lhSize
        BY <4>2
      <4> HIDE DEF at
      <4>4. frame # 0 => at <= ipos
        BY <4>3
      <4> QED
        BY <4>4 DEF at
    <3>3. HeaderStage'
      BY <3>1, <3>2, <2>1, <1>4, <1>5, <1>u DEF HeaderStage
    <3> QED
      BY <2>3, <3>3, <1>u DEF StreamInv
  <2>4. CASE streamStage = "read"
    <3>1. ReadStage
      BY <1>1, <2>4 DEF IInv, StreamInv
    <3>2. ReadStage'
      BY <3>1, <2>1, <1>4, <1>5, <1>u DEF ReadStage, DecodingAt
    <3> QED
      BY <2>4, <3>2, <1>u DEF StreamInv
  <2>5. CASE streamStage = "load"
    <3>1. LoadStage
      BY <1>1, <2>5 DEF IInv, StreamInv
    <3>2. LoadStage'
      BY <3>1, <2>1, <1>4, <1>5, <1>u DEF LoadStage, DecodingAt
    <3> QED
      BY <2>5, <3>2, <1>u DEF StreamInv
  <2>6. CASE streamStage = "flush"
    <3>1. FlushStage
      BY <1>1, <2>6 DEF IInv, StreamInv
    <3>2. FlushStage'
      BY <3>1, <2>1, <1>1, <1>4, <1>5, <1>u DEF FlushStage, DecodingAt
    <3> QED
      BY <2>6, <3>2, <1>u DEF StreamInv
  <2> QED
    BY <1>1, <2>2, <2>3, <2>4, <2>5, <2>6 DEF Types, Stages
<1>9. LoopInv'
  BY <1>1, <1>u DEF LoopInv
<1>10. RetInv'
  <2>1. ZeroMeansFrameDone'
    BY <1>u DEF IInv, RetInv, ZeroMeansFrameDone, Whole
  <2>2. ~IsError(ret')
    BY <1>1, <1>u
  <2> QED
    BY <2>1, <2>2 DEF RetInv, ValidNeverFails
<1> QED
  BY <1>6, <1>7, <1>8, <1>9, <1>10 DEF IInv

\* The caller turns to another source.
LEMMA InitDStreamStep ==
  ASSUME IInv, NEW s \in Sources, InitDStream(s)
  PROVE  IInv'
<1>1. /\ ~call.on /\ Types /\ Bounds /\ sources < MaxSources
      /\ src' = s /\ sources' = sources + 1 /\ ipos' = 0 /\ opos' = 0 /\ ret' = NoReturn
      /\ streamStage' = "init" /\ frame' = 0
      /\ dctx' = IF api = "bufferless" THEN DecompressBeginUsingDict ELSE dctx
      /\ api' = api /\ call' = call /\ mem' = mem
      /\ lhSize' = lhSize /\ inPos' = inPos /\ outStart' = outStart
      /\ outEnd' = outEnd /\ hostageByte' = hostageByte /\ inBuffSize' = inBuffSize
      /\ outBuffSize' = outBuffSize /\ fParams' = fParams /\ legacyVersion' = legacyVersion
      /\ previousLegacyVersion' = previousLegacyVersion /\ failures' = failures
  BY DEF IInv, InitDStream, buffVars, legacyVars
<1>2. Len(s) \in Nat \ {0} /\ SourceSize(s) \in Nat
  <2>1. Len(s) \in Nat \ {0} /\ Len(s) \in 1 .. Len(s)
    BY SourceTypes
  <2> QED
    BY <2>1, SourceBound
<1>3. dctx' \in Context
  BY <1>1, Begun DEF Types
<1>4. sources' \in 1 .. MaxSources
  <2>1. sources \in 1 .. MaxSources /\ MaxSources \in Nat
    BY <1>1, ConstantTypes DEF Types
  <2> QED
    BY <2>1, <1>1
<1>5. Types'
  <2>1. 0 \in 0 .. Len(s) /\ "init" \in Stages /\ NoReturn \in Int /\ 0 \in Nat
    BY <1>2 DEF Stages, NoReturn
  <2> QED
    BY <1>1, <1>3, <1>4, <2>1 DEF Types
<1>6. Bounds'
  BY <1>1, <1>2 DEF Bounds
<1>7. Boundary(0, 0, 0)'
  <2>1. 0 \in 0 .. Len(s) /\ FramesSize(s, 0) = 0 /\ FramesContent(s, 0) = 0
    BY <1>2 DEF FramesSize, FramesContent
  <2> QED
    BY <2>1, <1>1 DEF Boundary
<1>8. StreamInv'
  <2>1. Cur' = 0 /\ Done' = 0
    BY <1>1 DEF Cur, Done
  <2>2. Boundary(Cur, Done, 0)'
    BY <1>7, <2>1
  <2>3. InitStage'
    BY <1>1, <2>2 DEF InitStage
  <2> QED
    BY <1>1, <2>3 DEF StreamInv
<1>9. ~IsError(ret') /\ ret' # 0
  BY <1>1 DEF NoReturn, IsError
<1>10. LoopInv'
  <2>1. api = "bufferless" => outEnd = 0 /\ dctx'.stage = "getFrameHeaderSize"
    BY <1>1, Begun DEF IInv, LoopInv
  <2>2. Boundary(ipos, opos, 0)'
    BY <1>1, <1>7
  <2> QED
    BY <1>1, <1>9, <2>1, <2>2 DEF LoopInv
<1>11. RetInv'
  BY <1>9 DEF RetInv, ZeroMeansFrameDone, ValidNeverFails
<1> QED
  BY <1>5, <1>6, <1>8, <1>10, <1>11 DEF IInv

\* What Types and Bounds say of the decoder itself.
Buffers ==
  /\ dctx \in Context /\ mem \in [0 .. outBuffSize - 1 -> Int]
  /\ streamStage \in Stages /\ frame \in 0 .. Len(src)
  /\ lhSize \in 0 .. HeaderMax /\ inPos \in Nat /\ outStart \in Nat /\ outEnd \in Nat
  /\ hostageByte \in {0, 1}
  /\ inBuffSize \in Nat /\ outBuffSize \in Nat /\ fParams \in Params
  /\ legacyVersion = 0 /\ previousLegacyVersion = 0 /\ failures \in 0 .. MaxAllocFail
  /\ outStart <= outBuffSize /\ outEnd <= outBuffSize
  /\ api = "stream" => inPos <= Larger(inBuffSize, fParams.frameContentSize)

LEMMA BuffersNow ==
  ASSUME Types, Bounds
  PROVE  Buffers
BY DEF Types, Bounds, Buffers

\* The record d of a call is c, moved on.
Moved(c, d, ip, op, more) ==
  /\ d \in CallRecord /\ d.on = c.on /\ d.istart = c.istart /\ d.iend = c.iend
  /\ d.oend = c.oend /\ d.ip = ip /\ d.op = op /\ d.more = more

LEMMA CallMoves ==
  ASSUME NEW c \in CallRecord, NEW x \in Nat, NEW y \in Nat
  PROVE  /\ Moved(c, c, c.ip, c.op, c.more)
         /\ Moved(c, [c EXCEPT !.ip = x], x, c.op, c.more)
         /\ Moved(c, [c EXCEPT !.ip = x, !.more = FALSE], x, c.op, FALSE)
         /\ Moved(c, [c EXCEPT !.more = FALSE], c.ip, c.op, FALSE)
         /\ Moved(c, [c EXCEPT !.op = y], c.ip, y, c.more)
         /\ Moved(c, [c EXCEPT !.op = y, !.more = FALSE], c.ip, y, FALSE)
         /\ Moved(c, [c EXCEPT !.ip = x, !.op = y, !.more = FALSE], x, y, FALSE)
BY DEF CallRecord, Moved

\* A step inside a call.
LEMMA RunningStep ==
  ASSUME IInv, call.on, api' = api, src' = src, ipos' = ipos, opos' = opos, ret' = ret,
         sources' = sources, NEW x \in Nat, NEW y \in Nat, NEW z \in BOOLEAN,
         Moved(call, call', x, y, z), call.ip <= x, x <= call.iend, call.op <= y, y <= call.oend,
         Buffers', StreamInv'
  PROVE  IInv'
<1>1. Types /\ Bounds
  BY DEF IInv
<1>2. /\ api' = "stream" /\ ~IsError(ret') /\ LoopInv' /\ RetInv'
  BY NoReturnStep
<1>3. /\ call.istart \in Nat /\ call.ip \in Nat /\ call.iend \in Nat /\ call.op \in Nat
      /\ call.oend \in Nat /\ opos \in Nat
  BY <1>1, CallTypes, StateTypes
<1>4. /\ call' \in CallRecord /\ call'.istart = call.istart /\ call'.iend = call.iend
      /\ call'.oend = call.oend /\ call'.ip = x /\ call'.op = y
  BY DEF Moved
<1>5. Types'
  <2>1. /\ api \in Api /\ src \in Sources /\ sources \in 1 .. MaxSources
        /\ ipos \in Nat /\ opos \in Nat /\ ret \in Int
    BY <1>1 DEF Types
  <2> QED
    BY <1>4, <2>1 DEF Types, Buffers
<1>6. Bounds'
  <2>1. /\ ipos <= SourceSize(src) /\ call.istart = ipos /\ call.istart <= call.ip
        /\ call.iend <= SourceSize(src) /\ opos <= call.op
    BY <1>1 DEF Bounds
  <2> DEFINE istart == call.istart
             ip == call.ip
             iend == call.iend
             op == call.op
             oend == call.oend
             size == SourceSize(src)
  <2>2. istart <= x /\ x <= iend /\ iend <= size /\ opos <= y /\ y <= oend
    <3>1. /\ istart \in Nat /\ ip \in Nat /\ op \in Nat /\ opos \in Nat
          /\ istart <= ip /\ ip <= x /\ x <= iend /\ opos <= op /\ op <= y /\ y <= oend
      BY <1>3, <2>1
    <3>2. iend <= size
      BY <2>1
    <3> HIDE DEF istart, ip, iend, op, oend
    <3> QED
      BY <3>1, <3>2
  <2>3. /\ (ipos <= SourceSize(src))' /\ call'.istart = ipos' /\ call'.istart <= call'.ip
        /\ call'.ip <= call'.iend /\ call'.iend <= SourceSize(src)' /\ opos' <= call'.op
        /\ call'.op <= call'.oend
    BY <1>4, <2>1, <2>2
  <2>4. /\ (outStart <= outBuffSize)' /\ (outEnd <= outBuffSize)'
        /\ (api = "stream" => inPos <= Larger(inBuffSize, fParams.frameContentSize))'
    BY DEF Buffers
  <2> QED
    BY <1>2, <2>3, <2>4 DEF Bounds
<1> QED
  BY <1>2, <1>5, <1>6 DEF IInv

\* A step that ends a call.
LEMMA ReturningStep ==
  ASSUME IInv, call.on, api' = api, src' = src, sources' = sources, call' = Idle,
         ipos' \in Nat, ipos' <= SourceSize(src), opos' \in Nat, ret' \in Int,
         Buffers', StreamInv', ZeroMeansFrameDone', ValidNeverFails',
         IsError(ret') => streamStage' # "flush"
  PROVE  IInv'
<1>1. Types /\ Bounds /\ api = "stream"
  BY DEF IInv, Bounds
<1>2. call' \in CallRecord /\ ~call'.on
  BY IdleFields
<1>3. Types'
  <2>1. api \in Api /\ src \in Sources /\ sources \in 1 .. MaxSources
    BY <1>1 DEF Types
  <2> QED
    BY <1>2, <2>1 DEF Types, Buffers
<1>4. Bounds'
  BY <1>2 DEF Bounds, Buffers
<1>5. LoopInv'
  BY <1>1 DEF LoopInv
<1>6. RetInv'
  BY <1>2 DEF RetInv
<1> QED
  BY <1>3, <1>4, <1>5, <1>6 DEF IInv

\* ZSTD1_resetDStream, at the first bytes of a frame or behind the last one.
LEMMA StartFrameStep ==
  ASSUME IInv, StartFrame
  PROVE  IInv'
<1>1. /\ Types /\ Bounds /\ call.on /\ call.more /\ api = "stream" /\ Cur = call.ip /\ Done = call.op
      /\ InitStage
  BY AtStage DEF StartFrame, Stages
<1>2. /\ api' = api /\ src' = src /\ sources' = sources /\ ipos' = ipos /\ opos' = opos
      /\ ret' = ret /\ call' = call /\ dctx' = dctx /\ mem' = mem
      /\ streamStage' = "loadHeader" /\ lhSize' = 0 /\ inPos' = 0 /\ outStart' = 0 /\ outEnd' = 0
      /\ legacyVersion' = 0 /\ hostageByte' = 0
      /\ frame' = IF Layout[src][call.ip].el = "header" THEN Layout[src][call.ip].frame ELSE 0
      /\ inBuffSize' = inBuffSize /\ outBuffSize' = outBuffSize /\ fParams' = fParams
      /\ previousLegacyVersion' = previousLegacyVersion /\ failures' = failures
  BY DEF StartFrame, ResetDStream, userVars, buffVars
<1>3. call.ip = call.istart /\ call.op = opos /\ Boundary(call.ip, call.op, 0)
  BY <1>1 DEF InitStage
<1>4. PICK i \in 0 .. Len(src) : call.ip = FramesSize(src, i) /\ call.op = FramesContent(src, i)
  BY <1>3 DEF Boundary
<1>t. src \in Sources /\ Len(src) \in Nat
  BY <1>1, StateTypes
<1>5. \/ frame' = 0 /\ call.ip = SourceSize(src) /\ call.op = OutputSize(src)
      \/ frame' \in 1 .. Len(src) /\ call.ip = src[frame'].at /\ call.op = src[frame'].out
  <2>1. CASE i = Len(src)
    <3>1. call.ip = SourceSize(src) /\ call.op = OutputSize(src)
      BY <1>4, <1>t, <2>1, NextFrame
    <3>2. Layout[src][call.ip] = Nothing
      BY <3>1, <1>t, NothingLeft
    <3>3. Layout[src][call.ip].el # "header"
      BY <3>2 DEF Nothing, Element
    <3> QED
      BY <1>2, <3>1, <3>3
  <2>2. CASE i # Len(src)
    <3>1. i \in 0 .. Len(src) /\ i < Len(src) /\ i + 1 \in 1 .. Len(src)
      BY <2>2, <1>t
    <3>2. call.ip = src[i + 1].at /\ call.op = src[i + 1].out
      BY <1>4, <1>t, <3>1, NextFrame
    <3>3. Layout[src][call.ip] = Element("header", i + 1, 0)
      BY <3>1, <3>2, <1>t, HeaderThere
    <3>4. Layout[src][call.ip].el = "header" /\ Layout[src][call.ip].frame = i + 1
      BY <3>3 DEF Element
    <3> QED
      BY <1>2, <3>1, <3>2, <3>4
  <2> QED
    BY <2>1, <2>2
<1>6. HeaderStage'
  <2>1. Cur' = call.ip /\ Done' = call.op /\ ThisFrame' = src[frame']
    BY <1>1, <1>2 DEF Cur, Done, ThisFrame
  <2>2. CASE frame' = 0
    <3>1. call.ip = SourceSize(src) /\ call.op = OutputSize(src)
      BY <2>2, <1>5
    <3> QED
      BY <3>1, <2>1, <2>2, <1>1, <1>2, <1>3 DEF HeaderStage
  <2>3. CASE frame' # 0
    <3>1. frame' \in 1 .. Len(src) /\ call.ip = src[frame'].at /\ call.op = src[frame'].out
      BY <2>3, <1>5
    <3>2. src[frame'] \in Frame
      BY <3>1, <1>t, SourceTypes
    <3> DEFINE f == src[frame']
               at == f.at
    <3> HIDE DEF f
    <3>3. at \in Nat /\ f.hsize \in Nat
      BY <3>2, FrameTypes DEF f
    <3>4. at + 0 = at /\ 0 <= f.hsize /\ at <= at
      BY <3>3
    <3>5. call'.on => at <= call'.istart /\ call'.more /\ call'.op = opos'
      <4>1. at = call.istart
        BY <3>1, <1>3 DEF f
      <4> QED
        BY <3>4, <4>1, <1>1, <1>2, <1>3
    <3>6. Cur' = at + 0 /\ Done' = f.out /\ ThisFrame' = f
      BY <2>1, <3>1, <3>4 DEF f
    <3> QED
      BY <3>4, <3>5, <3>6, <2>3, <1>2 DEF HeaderStage
  <2> QED
    BY <2>2, <2>3
<1>7. StreamInv'
  BY <1>2, <1>6 DEF StreamInv
<1>8. Buffers'
  <2>1. Buffers
    BY <1>1, BuffersNow
  <2>2. frame' \in 0 .. Len(src)
    BY <1>5, <1>t
  <2>3. 0 <= outBuffSize /\ 0 \in 0 .. HeaderMax /\ 0 \in Nat /\ "loadHeader" \in Stages
    BY <1>1, StateTypes DEF HeaderMax, Stages
  <2>4. 0 <= Larger(inBuffSize, fParams.frameContentSize)
    <3>1. inBuffSize \in Nat /\ fParams.frameContentSize \in Nat \cup {Unknown}
      BY <1>1, StateTypes
    <3> DEFINE fcs == fParams.frameContentSize
    <3> HIDE DEF fcs
    <3>2. 0 <= Larger(inBuffSize, fcs)
      BY <3>1 DEF Larger, fcs, Unknown
    <3> QED
      BY <3>2 DEF fcs
  <2> QED
    BY <1>2, <2>1, <2>2, <2>3, <2>4 DEF Buffers
<1>9. Moved(call, call', call.ip, call.op, call.more)
  BY <1>1, <1>2, CallMoves, Zenon DEF Types
<1>10. /\ call.ip \in Nat /\ call.op \in Nat /\ call.more \in BOOLEAN
       /\ call.ip <= call.ip /\ call.op <= call.op /\ call.ip <= call.iend /\ call.op <= call.oend
  BY <1>1, CallTypes DEF Bounds
<1> QED
  BY <1>1, <1>2, <1>7, <1>8, <1>9, <1>10, RunningStep

\* What the bytes in headerBuffer say, when they are those of the frame at hand.
LEMMA HeaderSays ==
  ASSUME CurrentOnly, Types, HeaderStage
  PROVE  /\ frame = 0 => Header.ret = HeaderPrefix /\ lhSize = 0
         /\ frame > 0 =>
              /\ Header.ret \in Nat /\ Header.params \in Params
              /\ Header.ret = 0 <=> lhSize = ThisFrame.hsize
              /\ Header.ret > 0 => lhSize < Header.ret /\ Header.ret <= ThisFrame.hsize
              /\ Header.ret = 0 => Header.params = HeaderParams(ThisFrame)
              /\ ThisFrame.kind \in {Zstd, Skippable}
<1>1. CASE frame = 0
  <2>1. lhSize = 0
    BY <1>1 DEF HeaderStage
  <2>2. Header = GetFrameHeader(src, frame, 0)
    BY <2>1 DEF Header, HeaderPrefix
  <2>3. GetFrameHeader(src, frame, 0).ret = HeaderPrefix
    BY DEF GetFrameHeader, HeaderPrefix
  <2> QED
    BY <1>1, <2>1, <2>2, <2>3
<1>2. CASE frame # 0
  <2>1. frame > 0
    BY <1>2, StateTypes
  <2>2. frame \in 1 .. Len(src) /\ ThisFrame = src[frame] /\ src \in Sources /\ lhSize \in Nat
    BY <2>1, FrameAtHand, StateTypes
  <2>3. lhSize <= src[frame].hsize
    BY <1>2, <2>2 DEF HeaderStage
  <2>4. src[frame].kind \in {Zstd, Skippable}
    BY <2>2 DEF CurrentOnly
  <2>5. Header = GetFrameHeader(src, frame, lhSize)
    BY <1>2 DEF Header
  <2>6. LET h == GetFrameHeader(src, frame, lhSize) IN
        /\ h.ret \in Nat /\ h.params \in Params
        /\ h.ret = 0 <=> lhSize = src[frame].hsize
        /\ h.ret > 0 => lhSize < h.ret /\ h.ret <= src[frame].hsize
        /\ h.ret = 0 => h.params = HeaderParams(src[frame])
    BY <2>2, <2>3, <2>4, HeaderResult
  <2> QED
    BY <1>2, <2>2, <2>4, <2>5, <2>6
<1> QED
  BY <1>1, <1>2

LEMMA LoadHeaderStep ==
  ASSUME CurrentOnly, IInv, LoadHeader
  PROVE  IInv'
<1> DEFINE wanted == Header.ret
           ip == call.ip
           iend == call.iend
           left == iend - ip
           fcs == fParams.frameContentSize
<1>1. /\ Types /\ Bounds /\ call.on /\ call.more /\ api = "stream" /\ Cur = call.ip /\ Done = call.op
      /\ HeaderStage /\ call.istart = ipos /\ call.istart <= ip /\ ip <= iend
      /\ iend <= SourceSize(src) /\ opos <= call.op /\ call.op <= call.oend /\ ~IsError(ret)
      /\ streamStage = "loadHeader"
  BY AtStage DEF LoadHeader, InHeader, Stages
<1>2. /\ wanted > 0
      /\ IF wanted - lhSize > left
         THEN /\ lhSize' = lhSize + left /\ ipos' = iend
              /\ ret' = Larger(HeaderPrefix + 1, wanted) - lhSize' + BlockHeader
              /\ call' = Idle
         ELSE /\ lhSize' = wanted /\ call' = [call EXCEPT !.ip = ip + (wanted - lhSize)]
              /\ ipos' = ipos /\ ret' = ret
      /\ api' = api /\ src' = src /\ sources' = sources /\ opos' = opos /\ dctx' = dctx
      /\ mem' = mem /\ streamStage' = streamStage /\ frame' = frame /\ inPos' = inPos
      /\ outStart' = outStart /\ outEnd' = outEnd /\ hostageByte' = hostageByte
      /\ inBuffSize' = inBuffSize /\ outBuffSize' = outBuffSize /\ fParams' = fParams
      /\ legacyVersion' = legacyVersion /\ previousLegacyVersion' = previousLegacyVersion
      /\ failures' = failures
  BY DEF LoadHeader, buffVars, legacyVars
<1>3. /\ ip \in Nat /\ iend \in Nat /\ lhSize \in Nat /\ SourceSize(src) \in Nat /\ ipos \in Nat
      /\ call.op \in Nat /\ call.oend \in Nat /\ opos \in Nat /\ frame \in Nat
  BY <1>1, StateTypes, CallTypes DEF Types
<1>4. wanted \in Nat /\ lhSize < wanted /\ wanted <= HeaderMax
      /\ (frame # 0 => wanted <= ThisFrame.hsize)
  <2>1. CASE frame = 0
    BY <2>1, <1>1, HeaderSays DEF HeaderPrefix, HeaderMax
  <2>2. CASE frame # 0
    <3>1. frame > 0
      BY <2>2, <1>3
    <3>2. wanted \in Nat /\ lhSize < wanted /\ wanted <= ThisFrame.hsize
      BY <3>1, <1>1, <1>2, HeaderSays
    <3>3. ThisFrame.hsize \in 0 .. HeaderMax
      BY <3>1, <1>1, FrameAtHand, FrameTypes
    <3> DEFINE hsize == ThisFrame.hsize
    <3>4. wanted <= hsize /\ hsize \in 0 .. HeaderMax
      BY <3>2, <3>3
    <3> HIDE DEF wanted, hsize
    <3>5. wanted <= HeaderMax
      BY <3>2, <3>4 DEF HeaderMax
    <3> QED
      BY <3>2, <3>5 DEF wanted
  <2> QED
    BY <2>1, <2>2
<1>5. /\ outStart = 0 /\ outEnd = 0 /\ inPos = 0 /\ hostageByte = 0 /\ call.op = opos
      /\ frame = 0 => lhSize = 0 /\ ip = SourceSize(src) /\ call.op = OutputSize(src)
      /\ frame # 0 => /\ ip = ThisFrame.at + lhSize /\ call.op = ThisFrame.out
                      /\ ThisFrame.at <= call.istart /\ ThisFrame.at \in Nat
  <2>1. frame # 0 => frame > 0
    BY <1>3
  <2> QED
    BY <2>1, <1>1, FrameAtHand DEF HeaderStage
<1>6. left \in Nat /\ ip + left = iend /\ (frame = 0 => left = 0)
  <2> DEFINE size == SourceSize(src)
  <2>1. ip <= iend /\ iend <= size /\ size \in Nat /\ ip \in Nat /\ iend \in Nat
        /\ (frame = 0 => ip = size)
    BY <1>1, <1>3, <1>5
  <2> HIDE DEF ip, iend, size
  <2> QED
    BY <2>1
<1>7. Buffers
  BY <1>1, BuffersNow
<1>8. Buffers' <=> lhSize' \in 0 .. HeaderMax
  BY <1>2, <1>7 DEF Buffers
<1>9. ThisFrame' = ThisFrame
  BY <1>2 DEF ThisFrame
<1>10. CASE wanted - lhSize > left
  <2>1. /\ lhSize' = lhSize + left /\ ipos' = iend /\ call' = Idle
        /\ ret' = Larger(HeaderPrefix + 1, wanted) - lhSize' + BlockHeader
    BY <1>2, <1>10
  <2> HIDE DEF wanted, left, ip, iend
  <2>2. lhSize' \in Nat /\ lhSize' < wanted /\ lhSize' <= HeaderMax
    BY <2>1, <1>3, <1>4, <1>6, <1>10 DEF HeaderMax
  <2>3. ret' \in Int /\ ret' > 0 /\ ~IsError(ret')
    BY <2>1, <2>2, <1>4 DEF Larger, HeaderPrefix, BlockHeader, IsError
  <2>4. Cur' = iend /\ Done' = opos
    BY <2>1, <1>2, IdleFields DEF Cur, Done
  <2>5. HeaderStage'
    <3>1. CASE frame = 0
      <4>1. lhSize' = 0 /\ Cur' = SourceSize(src) /\ Done' = OutputSize(src)
        BY <3>1, <2>1, <2>4, <1>3, <1>5, <1>6
      <4> QED
        BY <3>1, <4>1, <2>1, <1>2, <1>5, IdleFields DEF HeaderStage
    <3>2. CASE frame # 0
      <4> DEFINE f == ThisFrame
                 at == f.at
                 hsize == f.hsize
      <4>1. ip = at + lhSize /\ at \in Nat /\ call.op = f.out /\ call.op = opos
        BY <3>2, <1>5
      <4>2. hsize \in Nat /\ wanted <= hsize
        BY <3>2, <1>1, <1>3, <1>4, FrameAtHand
      <4> HIDE DEF f, at, hsize
      <4>3. Cur' = at + lhSize' /\ lhSize' <= hsize
        <5>1. at + lhSize' = iend
          BY <4>1, <2>1, <1>3, <1>6
        <5>2. lhSize' <= hsize
          BY <4>2, <2>2, <1>4
        <5> QED
          BY <5>1, <5>2, <2>4
      <4>4. Done' = f.out
        BY <4>1, <2>4
      <4>5. ThisFrame' = f /\ ~call'.on
        BY <1>9, <2>1, IdleFields DEF f
      <4> QED
        BY <3>2, <4>3, <4>4, <4>5, <1>2, <1>5 DEF HeaderStage, at, hsize
    <3> QED
      BY <3>1, <3>2
  <2>6. StreamInv'
    BY <2>5, <1>1, <1>2 DEF StreamInv
  <2>7. Buffers'
    BY <2>2, <1>8
  <2>8. ZeroMeansFrameDone' /\ ValidNeverFails'
    BY <2>3 DEF ZeroMeansFrameDone, ValidNeverFails
  <2>9. ipos' \in Nat /\ ipos' <= SourceSize(src) /\ opos' \in Nat
    BY <2>1, <1>1, <1>2, <1>3 DEF iend
  <2> QED
    BY <2>1, <2>3, <2>6, <2>7, <2>8, <2>9, <1>1, <1>2, ReturningStep
<1>11. CASE ~(wanted - lhSize > left)
  <2> DEFINE x == ip + (wanted - lhSize)
  <2>1. /\ lhSize' = wanted /\ call' = [call EXCEPT !.ip = x] /\ ipos' = ipos /\ ret' = ret
    BY <1>2, <1>11
  <2>2. x \in Nat /\ ip <= x /\ x <= iend
    <3> HIDE DEF ip, iend, wanted
    <3> QED
      BY <1>3, <1>4, <1>6, <1>11
  <2>n. frame # 0
    <3> HIDE DEF wanted, left
    <3> QED
      BY <1>3, <1>4, <1>5, <1>6, <1>11
  <2> DEFINE f == ThisFrame
             at == f.at
             hsize == f.hsize
  <2>3. at + wanted = x /\ wanted <= hsize
    <3>1. ip = at + lhSize /\ at \in Nat /\ lhSize \in Nat /\ wanted \in Nat /\ wanted <= hsize
      BY <2>n, <1>3, <1>4, <1>5
    <3> HIDE DEF ip, wanted, at, hsize
    <3> QED
      BY <3>1
  <2> HIDE DEF x, wanted
  <2>4. Moved(call, call', x, call.op, call.more)
    <3>1. call \in CallRecord
      BY <1>1 DEF Types
    <3>2. Moved(call, [call EXCEPT !.ip = x], x, call.op, call.more)
      BY <3>1, <2>2, <1>3, CallMoves, Zenon
    <3> QED
      BY <3>2, <2>1
  <2>5. call'.on /\ call'.more /\ call'.ip = x /\ call'.op = call.op /\ call'.istart = call.istart
    BY <2>4, <1>1 DEF Moved
  <2>6. Cur' = x /\ Done' = call.op
    BY <2>5 DEF Cur, Done
  <2>7. HeaderStage'
    <3>1. /\ Cur' = at + lhSize' /\ lhSize' <= hsize /\ Done' = f.out /\ at <= call'.istart
          /\ call'.op = opos'
      BY <2>n, <2>1, <2>3, <2>5, <2>6, <1>2, <1>5
    <3>2. ThisFrame' = f
      BY <1>9
    <3> HIDE DEF f
    <3> QED
      BY <2>n, <3>1, <3>2, <2>5, <1>2, <1>5 DEF HeaderStage
  <2>8. StreamInv'
    BY <2>7, <1>1, <1>2 DEF StreamInv
  <2>9. Buffers'
    BY <2>1, <1>3, <1>4, <1>8 DEF HeaderMax
  <2>10. call.op <= call.op /\ call.more \in BOOLEAN /\ call.op <= call.oend
    BY <1>1, <1>3, CallTypes
  <2> QED
    BY <2>1, <2>2, <2>4, <2>8, <2>9, <2>10, <1>1, <1>2, <1>3, RunningStep
<1> QED
  BY <1>10, <1>11

\* All of the header is there.
LEMMA HeaderComplete ==
  ASSUME CurrentOnly, IInv, InHeader, Header.ret = 0
  PROVE  /\ Types /\ Bounds /\ call.on /\ call.more /\ api = "stream" /\ ~IsError(ret)
         /\ streamStage = "loadHeader"
         /\ frame \in 1 .. Len(src) /\ src \in Sources
         /\ lhSize = ThisFrame.hsize /\ Header.params = HeaderParams(ThisFrame)
         /\ ThisFrame.kind \in {Zstd, Skippable}
         /\ outStart = 0 /\ outEnd = 0 /\ inPos = 0 /\ hostageByte = 0
         /\ call.ip = ThisFrame.at + ThisFrame.hsize /\ call.op = ThisFrame.out
         /\ ThisFrame.at <= call.istart /\ call.istart <= call.ip /\ call.ip <= call.iend
         /\ call.op <= call.oend /\ Cur = call.ip /\ Done = call.op
<1>1. /\ Types /\ Bounds /\ call.on /\ call.more /\ api = "stream" /\ ~IsError(ret)
      /\ Cur = call.ip /\ Done = call.op /\ streamStage = "loadHeader"
      /\ HeaderStage /\ call.istart <= call.ip /\ call.ip <= call.iend /\ call.op <= call.oend
  BY AtStage DEF InHeader, Stages
<1>2. frame > 0
  <2>1. frame # 0
    BY <1>1, HeaderSays DEF HeaderPrefix
  <2> QED
    BY <2>1, <1>1, StateTypes
<1>3. /\ lhSize = ThisFrame.hsize /\ Header.params = HeaderParams(ThisFrame)
      /\ ThisFrame.kind \in {Zstd, Skippable}
  BY <1>1, <1>2, HeaderSays
<1>4. frame \in 1 .. Len(src) /\ src \in Sources
  BY <1>1, <1>2, FrameAtHand, StateTypes
<1>5. /\ outStart = 0 /\ outEnd = 0 /\ inPos = 0 /\ hostageByte = 0
      /\ call.ip = ThisFrame.at + ThisFrame.hsize /\ call.op = ThisFrame.out
      /\ ThisFrame.at <= call.istart
  <2>1. frame # 0
    BY <1>2
  <2> QED
    BY <2>1, <1>1, <1>3 DEF HeaderStage
<1> QED
  BY <1>1, <1>3, <1>4, <1>5

\* All of frame f is there, from byte p of the source on.
LEMMA FrameFound ==
  ASSUME NEW s \in Sources, NEW i \in 1 .. Len(s), s[i].kind = Zstd, NEW p \in Nat,
         NEW end \in Nat, s[i].at <= p, p <= s[i].at + s[i].hsize,
         ~IsError(FindFrameCompressedSize(s, p, end))
  PROVE  /\ p = s[i].at /\ FindFrameCompressedSize(s, p, end) = s[i].size
         /\ s[i].at + s[i].size <= end /\ Layout[s][p].frame = i
<1> DEFINE f == s[i]
           at == f.at
           hsize == f.hsize
           size == f.size
           last == FrameEnd(f)
           e == Layout[s][p]
           found == FindFrameCompressedSize(s, p, end)
<1>1. f.kind # Skippable
  BY DEF Zstd, Skippable
<1>2. /\ f \in Frame /\ at + hsize + BlockHeader <= last
  BY <1>1, FrameSize
<1>3. at \in Nat /\ hsize \in Nat /\ size \in Nat /\ last \in Nat /\ last = at + size
  <2> HIDE DEF f
  <2> QED
    BY <1>2, FrameTypes DEF FrameEnd
<1>4. e.el = "header"
  <2> SUFFICES ASSUME e.el # "header" PROVE FALSE
    OBVIOUS
  <2>1. found = Error.prefix_unknown
    BY DEF FindFrameCompressedSize
  <2>2. IsError(found)
    BY <2>1 DEF Error, IsError
  <2> QED
    BY <2>2
<1>5. p < last
  <2>1. at + hsize + BlockHeader <= last /\ p <= at + hsize
    BY <1>2
  <2> HIDE DEF at, hsize, last
  <2> QED
    BY <2>1, <1>3 DEF BlockHeader
<1>6. ~(at < p)
  BY <1>4, <1>5, NoHeader
<1>7. p = at
  <2>1. at <= p
    OBVIOUS
  <2> HIDE DEF at
  <2> QED
    BY <2>1, <1>3, <1>6
<1>8. e = Element("header", i, 0)
  BY <1>7, HeaderThere
<1>9. e.frame = i
  BY <1>8 DEF Element
<1>10. found = IF size > end - p THEN Error.srcSize_wrong ELSE size
  <2>1. s[e.frame] = f
    BY <1>9
  <2> HIDE DEF f
  <2> QED
    BY <2>1, <1>1, <1>4 DEF FindFrameCompressedSize
<1>11. ~(size > end - p)
  <2> SUFFICES ASSUME size > end - p PROVE FALSE
    OBVIOUS
  <2>1. found = Error.srcSize_wrong
    BY <1>10
  <2>2. IsError(found)
    BY <2>1 DEF Error, IsError
  <2> QED
    BY <2>2
<1>12. at + size <= end
  <2> HIDE DEF at, size
  <2> QED
    BY <1>3, <1>7, <1>11
<1> QED
  BY <1>7, <1>9, <1>10, <1>11, <1>12

\* A frame of known size finds room for all its blocks.
LEMMA FrameDecodes ==
  ASSUME NEW s \in Sources, NEW i \in 1 .. Len(s), s[i].kind = Zstd, s[i].fcs # Unknown,
         NEW cap \in Int, cap >= s[i].fcs
  PROVE  DecompressFrame(s[i], cap) = s[i].content
<1> DEFINE f == s[i]
           out == f.out
           content == f.content
<1>1. f \in Frame /\ FrameOfBlocks(f)
  <2>1. f.kind # Skippable
    BY DEF Zstd, Skippable
  <2> QED
    BY <2>1, KindFacts
<1>2. f.fcs = content
  <2>1. 1 \in 1 .. Len(f.blocks)
    BY <1>1, FirstBlock
  <2> HIDE DEF f
  <2>2. f.fcs \in {Unknown, f.content}
    BY <1>1, <2>1, BlockSizes
  <2> QED
    BY <2>2 DEF f
<1>3. out \in Nat /\ content \in Nat /\ FrameOutEnd(f) = out + content
      /\ DOMAIN f.blocks = 1 .. Len(f.blocks)
  BY <1>1, FrameTypes DEF FrameOutEnd
<1>4. cap >= content
  BY <1>2
<1>5. ASSUME NEW b \in 1 .. Len(f.blocks)
      PROVE  ~(f.blocks[b].out - f.out + f.blocks[b].rsize > cap)
  <2> DEFINE bout == f.blocks[b].out
             rsize == f.blocks[b].rsize
  <2>1. f.blocks[b] \in Block /\ bout + rsize <= out + content
    BY <1>1, <1>3, BlockPlaces
  <2>2. bout \in Nat /\ rsize \in Nat
    BY <2>1, BlockTypes
  <2> HIDE DEF f, out, content, bout, rsize
  <2>3. ~(bout - out + rsize > cap)
    BY <2>1, <2>2, <1>3, <1>4
  <2> QED
    BY <2>3 DEF bout, rsize, out
<1>6. ~\E b \in DOMAIN f.blocks : f.blocks[b].out - f.out + f.blocks[b].rsize > cap
  BY <1>3, <1>5
<1>7. f.fcs \in {Unknown, f.content}
  BY <1>2
<1> QED
  BY <1>6, <1>7 DEF DecompressFrame

LEMMA SinglePassStep ==
  ASSUME CurrentOnly, IInv, SinglePass
  PROVE  IInv'
<1> DEFINE f == ThisFrame
           q == Header.params
           room == call.oend - call.op
           size == SinglePassSize
           d == DecompressFrame(src[Layout[src][call.istart].frame], room)
           istart == call.istart
           at == f.at
           hsize == f.hsize
           content == f.content
           out == f.out
           fcs == f.fcs
<1>1. InHeader /\ Header.ret = 0 /\ ~IsError(size)
  BY DEF SinglePass
<1>2. /\ Types /\ Bounds /\ call.on /\ call.more /\ api = "stream" /\ ~IsError(ret)
      /\ frame \in 1 .. Len(src) /\ src \in Sources
      /\ q = HeaderParams(f) /\ f.kind \in {Zstd, Skippable}
      /\ outStart = 0 /\ outEnd = 0 /\ inPos = 0 /\ hostageByte = 0
      /\ call.ip = at + hsize /\ call.op = out
      /\ at <= istart /\ istart <= call.ip /\ call.ip <= call.iend /\ call.op <= call.oend
  BY <1>1, HeaderComplete
<1>3. /\ f \in Frame /\ f = src[frame] /\ at \in Nat /\ hsize \in Nat /\ out \in Nat
      /\ content \in Nat /\ istart \in Nat /\ call.iend \in Nat /\ call.op \in Nat
      /\ call.oend \in Nat /\ FrameOutEnd(f) = out + content
  BY <1>2, FrameAtHand, CallTypes
<1>4. /\ q.frameContentSize # 0 /\ q.windowSize # 0 /\ q.frameContentSize # Unknown
      /\ room >= q.frameContentSize
      /\ size = FindFrameCompressedSize(src, istart, call.iend)
  <2> DEFINE fits == /\ q.frameContentSize # 0 /\ q.windowSize # 0
                     /\ q.frameContentSize # Unknown /\ room >= q.frameContentSize
  <2>1. size = IF fits THEN FindFrameCompressedSize(src, istart, call.iend) ELSE Error.GENERIC
    BY DEF SinglePassSize
  <2>2. IsError(Error.GENERIC)
    BY DEF Error, IsError
  <2> HIDE DEF size, fits
  <2>3. fits
    BY <2>1, <2>2, <1>1
  <2> QED
    BY <2>1, <2>3 DEF fits
<1>5. f.kind = Zstd /\ q \in Params /\ q.frameContentSize = fcs
  <2> HIDE DEF f, q
  <2>1. f.kind # Skippable
    BY <1>2, <1>3, <1>4, HeaderParamsFields
  <2> QED
    BY <2>1, <1>2, <1>3, HeaderParamsFields
<1>6. /\ istart = at /\ size = f.size /\ at + f.size <= call.iend
      /\ Layout[src][istart].frame = frame
  <2>1. istart <= at + hsize
    BY <1>2
  <2>2. ~IsError(FindFrameCompressedSize(src, istart, call.iend))
    BY <1>1, <1>4
  <2>3. src[frame].kind = Zstd /\ src[frame].at <= istart /\ istart <= src[frame].at + src[frame].hsize
    BY <1>2, <1>3, <1>5, <2>1
  <2>4. /\ istart = src[frame].at
        /\ FindFrameCompressedSize(src, istart, call.iend) = src[frame].size
        /\ src[frame].at + src[frame].size <= call.iend /\ Layout[src][istart].frame = frame
    BY <2>2, <2>3, <1>2, <1>3, FrameFound
  <2> QED
    BY <2>4, <1>3, <1>4
<1>7. d = content
  <2>1. room \in Int /\ room >= fcs /\ fcs # Unknown
    BY <1>3, <1>4, <1>5
  <2>2. DecompressFrame(src[frame], room) = src[frame].content
    <3> HIDE DEF room
    <3> QED
      BY <2>1, <1>2, <1>3, <1>5, FrameDecodes
  <2> QED
    BY <2>2, <1>3, <1>6
<1>8. /\ call' = [call EXCEPT !.ip = istart + size, !.op = call.op + d, !.more = FALSE]
      /\ dctx' = [DecompressBeginUsingDDict EXCEPT !.expected = 0]
      /\ streamStage' = "init" /\ fParams' = q
      /\ api' = api /\ src' = src /\ sources' = sources /\ ipos' = ipos /\ opos' = opos
      /\ ret' = ret /\ mem' = mem /\ frame' = frame /\ lhSize' = lhSize /\ inPos' = inPos
      /\ outStart' = outStart /\ outEnd' = outEnd /\ hostageByte' = hostageByte
      /\ inBuffSize' = inBuffSize /\ outBuffSize' = outBuffSize
      /\ legacyVersion' = legacyVersion /\ previousLegacyVersion' = previousLegacyVersion
      /\ failures' = failures
  <2>1. ~IsError(d)
    BY <1>3, <1>7 DEF IsError
  <2> QED
    BY <2>1 DEF SinglePass, userVars, legacyVars
<1> DEFINE x == istart + size
           y == call.op + d
<1>9. /\ x = FrameEnd(f) /\ y = FrameOutEnd(f) /\ x \in Nat /\ y \in Nat
      /\ call.ip <= x /\ x <= call.iend /\ call.op <= y /\ y <= call.oend
  <2>1. x = FrameEnd(f)
    BY <1>6 DEF FrameEnd
  <2>2. y = FrameOutEnd(f)
    BY <1>2, <1>3, <1>7
  <2>3. FrameEnd(f) \in Nat /\ at + hsize <= FrameEnd(f) /\ FrameEnd(f) <= call.iend
    BY <1>2, <1>6, FrameAtHand DEF FrameEnd
  <2>4. out + content <= call.oend
    <3>1. room >= content
      <4>1. fcs \in {Unknown, content}
        <5>1. f.kind # Skippable
          BY <1>5 DEF Zstd, Skippable
        <5>2. FrameOfBlocks(f)
          BY <5>1, <1>2, <1>3, KindFacts
        <5>3. 1 \in 1 .. Len(f.blocks)
          BY <5>2, <1>3, FirstBlock
        <5> HIDE DEF f
        <5>4. f.fcs \in {Unknown, f.content}
          BY <1>3, <5>2, <5>3, BlockSizes
        <5> QED
          BY <5>4
      <4> QED
        BY <4>1, <1>4, <1>5
    <3> DEFINE oend == call.oend
    <3>2. oend - out >= content /\ oend \in Nat /\ out \in Nat /\ content \in Nat
      BY <3>1, <1>2, <1>3
    <3> HIDE DEF oend, out, content
    <3>3. out + content <= oend
      BY <3>2
    <3> QED
      BY <3>3 DEF oend
  <2>5. FrameOutEnd(f) \in Nat /\ out <= out + content
    <3>1. out \in Nat /\ content \in Nat /\ FrameOutEnd(f) = out + content
      BY <1>3
    <3> HIDE DEF out, content
    <3> QED
      BY <3>1
  <2> QED
    BY <2>1, <2>2, <2>3, <2>4, <2>5, <1>2, <1>3
<1> HIDE DEF x, y, size, d, q, f
<1>10. Moved(call, call', x, y, FALSE)
  <2>1. call \in CallRecord
    BY <1>2 DEF Types
  <2>2. Moved(call, [call EXCEPT !.ip = x, !.op = y, !.more = FALSE], x, y, FALSE)
    BY <2>1, <1>9, CallMoves, Zenon
  <2> QED
    BY <2>2, <1>8 DEF x, y
<1>11. dctx' \in Context /\ dctx'.expected = 0
  <2> DEFINE b == DecompressBeginUsingDDict
  <2>1. b \in Context
    BY Begun
  <2> HIDE DEF b
  <2>2. [b EXCEPT !.expected = 0] \in Context /\ [b EXCEPT !.expected = 0].expected = 0
    BY <2>1 DEF Context
  <2> QED
    BY <2>2, <1>8 DEF b
<1>12. InitStage'
  <2>1. call'.on /\ ~call'.more /\ Cur' = x /\ Done' = y
    <3>1. call'.on /\ ~call'.more /\ call'.ip = x /\ call'.op = y
      BY <1>2, <1>10 DEF Moved
    <3> QED
      BY <3>1 DEF Cur, Done
  <2>2. x + 0 = x
    BY <1>9
  <2>3. Boundary(Cur + hostageByte, Done, 1)'
    <3>1. x = FramesSize(src, frame) /\ y = FramesContent(src, frame)
      <4>1. frame \in 0 .. Len(src) /\ frame > 0
        BY <1>2
      <4> QED
        BY <4>1, <1>2, <1>3, <1>9, NextFrame
    <3>2. Cur' + hostageByte' = x
      BY <2>1, <2>2, <1>2, <1>8
    <3> QED
      BY <3>1, <3>2, <2>1, <1>2, <1>8 DEF Boundary
  <2> QED
    BY <2>1, <2>3, <1>2, <1>8, <1>11 DEF InitStage
<1>13. StreamInv'
  BY <1>8, <1>12 DEF StreamInv
<1>14. Buffers'
  <2>1. Buffers
    BY <1>2, BuffersNow
  <2>2. 0 <= Larger(inBuffSize, q.frameContentSize)
    <3> DEFINE w == q.frameContentSize
    <3>1. w \in Nat \cup {Unknown} /\ inBuffSize \in Nat
      BY <1>2, <1>5, StateTypes DEF Params
    <3> HIDE DEF w
    <3>2. 0 <= Larger(inBuffSize, w)
      BY <3>1 DEF Larger, Unknown
    <3> QED
      BY <3>2 DEF w
  <2>3. "init" \in Stages
    BY DEF Stages
  <2> QED
    BY <2>1, <2>2, <2>3, <1>2, <1>5, <1>8, <1>11 DEF Buffers
<1> QED
  BY <1>2, <1>8, <1>9, <1>10, <1>13, <1>14, RunningStep

\* The buffers ZSTD1_decompressStream has for frame f are large enough.
LEMMA BuffersFit ==
  ASSUME NEW f \in Frame, f.kind = Skippable => SkippableFrame(f), NEW q,
         q = [HeaderParams(f) EXCEPT !.windowSize = Larger(@, WindowMin)]
  PROVE  /\ q \in Params /\ q.frameContentSize = HeaderParams(f).frameContentSize
         /\ f.kind = Skippable => q.frameContentSize = f.skip
         /\ q.windowSize = Larger(f.window, WindowMin)
         /\ Larger(q.blockSizeMax, Checksum) \in Nat
         /\ Larger(q.blockSizeMax, Checksum) >= BlockSizeMax(f)
         /\ Larger(q.blockSizeMax, Checksum) >= Checksum
         /\ DecodingBufferSizeMin(q.windowSize, q.frameContentSize) \in Nat
         /\ \A n \in Nat : /\ f.kind # Skippable
                           /\ n >= DecodingBufferSizeMin(q.windowSize, q.frameContentSize)
                           => Sized(q, n, f)
<1> DEFINE h == HeaderParams(f)
           window == f.window
           w == Larger(window, WindowMin)
           block == BlockSizeMax(f)
           fcs == f.fcs
<1>1. /\ h \in Params
      /\ f.kind = Skippable => /\ h.windowSize = 0 /\ h.frameContentSize = f.skip
                               /\ h.blockSizeMax = 0
      /\ f.kind # Skippable => /\ h.windowSize = window /\ h.frameContentSize = fcs
                               /\ h.blockSizeMax = block
  BY HeaderParamsFields
<1>2. window \in Nat /\ WindowMin \in Nat /\ block \in Nat /\ block <= window
      /\ fcs \in Nat \cup {Unknown} /\ f.skip \in Nat
  BY FrameTypes, ConstantTypes, BlockSizeMaxNat
<1>3. f.kind = Skippable => window = 0 /\ block = 0
  <2>1. f.kind = Skippable => window = 0
    BY DEF SkippableFrame
  <2> HIDE DEF window, block
  <2> QED
    BY <2>1, <1>2
<1>4. h.windowSize = window /\ h.blockSizeMax = block
  BY <1>1, <1>3
<1>5. w \in Nat /\ window <= w
  <2> HIDE DEF window
  <2> QED
    BY <1>2 DEF Larger
<1>6. /\ q \in Params /\ q.frameContentSize = h.frameContentSize /\ q.blockSizeMax = block
      /\ q.windowSize = w
  <2>1. q = [h EXCEPT !.windowSize = w]
    BY <1>4
  <2> HIDE DEF h, w, block
  <2> QED
    BY <2>1, <1>1, <1>4, <1>5 DEF Params
<1>7. /\ Larger(q.blockSizeMax, Checksum) \in Nat
      /\ Larger(q.blockSizeMax, Checksum) >= block
      /\ Larger(q.blockSizeMax, Checksum) >= Checksum
  <2> DEFINE z == q.blockSizeMax
  <2>1. z = block /\ block \in Nat
    BY <1>2, <1>6
  <2> HIDE DEF z, block
  <2>2. Larger(z, Checksum) \in Nat /\ Larger(z, Checksum) >= block /\ Larger(z, Checksum) >= Checksum
    BY <2>1 DEF Larger, Checksum
  <2> QED
    BY <2>2 DEF z
<1>8. CASE f.kind # Skippable
  <2>1. q.frameContentSize = fcs /\ q.blockSizeMax = block
    BY <1>1, <1>6, <1>8
  <2>2. /\ DecodingBufferSizeMin(w, fcs) \in Nat
        /\ \A n \in Nat : n >= DecodingBufferSizeMin(w, fcs) =>
             FirstLapOnly(f, n) \/ n >= f.window + BlockSizeMax(f) + 2 * Wildcopy
    BY <1>5, BufferSize
  <2>3. \A n \in Nat : n >= DecodingBufferSizeMin(w, fcs) => Sized(q, n, f)
    BY <2>1, <2>2 DEF Sized
  <2> HIDE DEF w, fcs, block, h
  <2> QED
    BY <1>6, <1>7, <1>8, <2>1, <2>2, <2>3 DEF w, block, h
<1>9. CASE f.kind = Skippable
  <2>1. q.frameContentSize = f.skip
    BY <1>1, <1>6, <1>9
  <2>2. DecodingBufferSizeMin(q.windowSize, q.frameContentSize) \in Nat
    <3> DEFINE skip == f.skip
               needed == w + Smaller(w, BlockMax) + 2 * Wildcopy
    <3>1. skip \in Nat /\ BlockMax \in Nat /\ Wildcopy \in Nat
      BY <1>2, ConstantTypes
    <3>2. needed \in Nat
      <4> HIDE DEF w
      <4> QED
        BY <1>5, <3>1 DEF Smaller
    <3>3. DecodingBufferSizeMin(w, skip) = IF skip = Unknown THEN needed ELSE Smaller(skip, needed)
      BY DEF DecodingBufferSizeMin
    <3> HIDE DEF needed, w, skip
    <3>4. DecodingBufferSizeMin(w, skip) \in Nat
      BY <3>1, <3>2, <3>3 DEF Smaller
    <3> QED
      BY <3>4, <2>1, <1>6 DEF skip
  <2> HIDE DEF w, fcs, block, h
  <2> QED
    BY <1>6, <1>7, <1>9, <2>1, <2>2 DEF w, block, h
<1> QED
  BY <1>8, <1>9

\* The context of a frame that is begun with buffers of its size.
FirstContext(s, i) ==
  LET d == DecompressBeginUsingDDict IN
  IF s[i].kind = Skippable THEN SkipBegun(d, s[i]) ELSE ToBlockHeader(DecodeFrameHeader(s, d, i))

LEMMA FrameBegun ==
  ASSUME NEW s \in Sources, NEW i \in 1 .. Len(s), s[i].kind \in {Zstd, Skippable},
         NEW q \in Params, s[i].kind = Skippable => q.frameContentSize = s[i].skip,
         NEW n \in Nat, NEW m \in [0 .. n - 1 -> Int],
         s[i].kind # Skippable => Sized(q, n, s[i])
  PROVE  LET c == FirstContext(s, i) IN
         /\ c \in Context /\ c.decodedSize = 0
         /\ Decoding(c, m, n, q, s[i], s[i].at + s[i].hsize, 0)
         /\ Room(c, n, s[i], 0)
<1> DEFINE d == DecompressBeginUsingDDict
           c == FirstContext(s, i)
<1>1. d \in Context /\ NoLap(d) /\ d.decodedSize = 0
  BY Begun DEF NoLap
<1> HIDE DEF d
<1>2. CASE s[i].kind = Skippable
  <2>1. c = SkipBegun(d, s[i])
    BY <1>2 DEF d, FirstContext
  <2>q. q.frameContentSize = s[i].skip
    BY <1>2
  <2>2. LET z == SkipBegun(d, s[i]) IN
        /\ z \in Context /\ z.decodedSize = 0 /\ z.at = d.at /\ z.stage = "skipFrame"
        /\ Decoding(z, m, n, q, s[i], s[i].at + s[i].hsize, 0)
        /\ Room(z, n, s[i], 0)
    BY <2>q, <1>1, <1>2, BeginSkip, Zenon
  <2> QED
    BY <2>1, <2>2
<1>3. CASE s[i].kind = Zstd
  <2>0. s[i].kind # Skippable
    BY <1>3 DEF Zstd, Skippable
  <2>1. c = ToBlockHeader(DecodeFrameHeader(s, d, i))
    BY <2>0 DEF d, FirstContext
  <2>2. LET z == ToBlockHeader(DecodeFrameHeader(s, d, i)) IN
        /\ z \in Context /\ z.decodedSize = 0 /\ z.expected > 0 /\ z.stage # "skipFrame"
        /\ Decoding(z, m, n, q, s[i], s[i].at + s[i].hsize, 0)
        /\ Room(z, n, s[i], 0)
    BY <1>1, <1>3, <2>0, BeginBlocks
  <2> QED
    BY <2>1, <2>2
<1> QED
  BY <1>2, <1>3

LEMMA ConsumeHeaderStep ==
  ASSUME CurrentOnly, IInv, ConsumeHeader
  PROVE  IInv'
<1> DEFINE f == ThisFrame
           q == [Header.params EXCEPT !.windowSize = Larger(@, WindowMin)]
           neededIn == Larger(q.blockSizeMax, Checksum)
           neededOut == DecodingBufferSizeMin(q.windowSize, q.frameContentSize)
           P == f.at + f.hsize
           fits == ~(inBuffSize < neededIn \/ outBuffSize < neededOut)
<1>1. InHeader /\ Header.ret = 0
  BY DEF ConsumeHeader
<1>2. /\ Types /\ Bounds /\ call.on /\ call.more /\ api = "stream" /\ ~IsError(ret)
      /\ frame \in 1 .. Len(src) /\ src \in Sources
      /\ Header.params = HeaderParams(f) /\ f.kind \in {Zstd, Skippable}
      /\ outStart = 0 /\ outEnd = 0 /\ inPos = 0 /\ hostageByte = 0
      /\ call.ip = P /\ call.op = f.out /\ streamStage = "loadHeader"
      /\ call.ip <= call.iend /\ call.op <= call.oend /\ Cur = call.ip /\ Done = call.op
  BY <1>1, HeaderComplete
<1>3. f \in Frame /\ f = src[frame] /\ (f.kind = Skippable => SkippableFrame(f))
  BY <1>2, FrameAtHand, KindFacts
<1>4. /\ q \in Params
      /\ f.kind = Skippable => q.frameContentSize = f.skip
      /\ q.windowSize = Larger(f.window, WindowMin)
      /\ neededIn \in Nat /\ neededIn >= BlockSizeMax(f) /\ neededIn >= Checksum
      /\ neededOut \in Nat
      /\ \A n \in Nat : f.kind # Skippable /\ n >= neededOut => Sized(q, n, f)
  <2> HIDE DEF f
  <2>1. q = [HeaderParams(f) EXCEPT !.windowSize = Larger(@, WindowMin)]
    BY <1>2
  <2> HIDE DEF q
  <2> QED
    BY <2>1, <1>3, BuffersFit
<1> HIDE DEF q, neededIn, neededOut
<1>5. /\ dctx' = FirstContext(src, frame)
      /\ fParams' = q
      /\ frame' = frame /\ lhSize' = lhSize /\ inPos' = inPos /\ outStart' = outStart
      /\ outEnd' = outEnd /\ hostageByte' = hostageByte /\ legacyVersion' = legacyVersion
      /\ previousLegacyVersion' = previousLegacyVersion
  BY DEF ConsumeHeader, q, legacyVars, FirstContext, SkipBegun
<1>6. \/ /\ q.windowSize > MaxWindowSize
         /\ ret' = Error.windowTooLarge /\ call' = Idle /\ UNCHANGED userVars
         /\ UNCHANGED <<streamStage, mem, inBuffSize, outBuffSize, failures>>
      \/ /\ inBuffSize' = neededIn /\ outBuffSize' = neededOut /\ mem' = FreshBuffer(neededOut)
         /\ streamStage' = "read" /\ UNCHANGED <<userVars, call, ret, failures>>
      \/ /\ failures < MaxAllocFail /\ failures' = failures + 1
         /\ inBuffSize' = 0 /\ outBuffSize' = 0 /\ mem' = FreshBuffer(0)
         /\ ret' = Error.memory_allocation /\ call' = Idle /\ UNCHANGED userVars
         /\ UNCHANGED streamStage
      \/ /\ fits /\ streamStage' = "read"
         /\ UNCHANGED <<userVars, call, ret, mem, inBuffSize, outBuffSize, failures>>
  <2>1. \/ q.windowSize > MaxWindowSize
        \/ q.windowSize <= MaxWindowSize /\ ~fits
        \/ ~(q.windowSize > MaxWindowSize) /\ ~(q.windowSize <= MaxWindowSize /\ ~fits)
    OBVIOUS
  <2>2. ~(q.windowSize > MaxWindowSize) => q.windowSize <= MaxWindowSize
    <3> DEFINE w == q.windowSize
    <3>1. w \in Nat /\ MaxWindowSize \in Nat
      BY <1>4, ConstantTypes DEF Params
    <3> HIDE DEF w
    <3>2. ~(w > MaxWindowSize) => w <= MaxWindowSize
      BY <3>1
    <3> QED
      BY <3>2 DEF w
  <2>0. (CASE q.windowSize > MaxWindowSize ->
              Fail(Error.windowTooLarge)
              /\ UNCHANGED <<streamStage, mem, inBuffSize, outBuffSize, failures>>
         [] q.windowSize <= MaxWindowSize
            /\ (inBuffSize < neededIn \/ outBuffSize < neededOut) ->
              \/ /\ inBuffSize' = neededIn /\ outBuffSize' = neededOut
                 /\ mem' = FreshBuffer(neededOut)
                 /\ streamStage' = "read"
                 /\ UNCHANGED <<userVars, call, ret, failures>>
              \/ /\ failures < MaxAllocFail /\ failures' = failures + 1
                 /\ inBuffSize' = 0 /\ outBuffSize' = 0 /\ mem' = FreshBuffer(0)
                 /\ Fail(Error.memory_allocation)
                 /\ UNCHANGED streamStage
         [] OTHER ->
              /\ streamStage' = "read"
              /\ UNCHANGED <<userVars, call, ret, mem, inBuffSize, outBuffSize, failures>>)
    BY DEF ConsumeHeader, q, neededIn, neededOut
  <2>3. CASE q.windowSize > MaxWindowSize
    BY <2>0, <2>3 DEF Fail
  <2>4. CASE ~(q.windowSize > MaxWindowSize) /\ ~fits
    <3>1. q.windowSize <= MaxWindowSize
      BY <2>2, <2>4
    <3> QED
      BY <2>0, <2>4, <3>1 DEF Fail
  <2>5. CASE ~(q.windowSize > MaxWindowSize) /\ fits
    BY <2>0, <2>5
  <2> QED
    BY <2>3, <2>4, <2>5
<1>7. Buffers
  BY <1>2, BuffersNow
<1>8. \A size \in Nat : 0 <= Larger(size, q.frameContentSize)
  <2> DEFINE w == q.frameContentSize
  <2>1. w \in Nat \cup {Unknown}
    BY <1>4 DEF Params
  <2> HIDE DEF w
  <2>2. \A size \in Nat : 0 <= Larger(size, w)
    BY <2>1 DEF Larger, Unknown
  <2> QED
    BY <2>2 DEF w
<1>9. ASSUME NEW n \in Nat, NEW m \in [0 .. n - 1 -> Int], f.kind # Skippable => n >= neededOut
      PROVE  /\ dctx' \in Context /\ dctx'.decodedSize = 0
             /\ Decoding(dctx', m, n, q, f, P, 0)
             /\ Room(dctx', n, f, 0)
  <2>1. src[frame].kind # Skippable => Sized(q, n, src[frame])
    BY <1>3, <1>4, <1>9
  <2>2. src[frame].kind \in {Zstd, Skippable}
        /\ (src[frame].kind = Skippable => q.frameContentSize = src[frame].skip)
    BY <1>2, <1>3, <1>4
  <2>3. /\ dctx' \in Context /\ dctx'.decodedSize = 0
        /\ Decoding(dctx', m, n, q, src[frame], src[frame].at + src[frame].hsize, 0)
        /\ Room(dctx', n, src[frame], 0)
    BY <1>2, <1>4, <1>5, <2>1, <2>2, FrameBegun
  <2> QED
    BY <2>3, <1>3
<1>10. ASSUME NEW n \in Nat PROVE FreshBuffer(n) \in [0 .. n - 1 -> Int]
  BY DEF FreshBuffer
<1>11. dctx' \in Context
  <2>1. /\ neededOut \in Nat /\ FreshBuffer(neededOut) \in [0 .. neededOut - 1 -> Int]
        /\ neededOut >= neededOut
    BY <1>4, <1>10
  <2> QED
    BY <2>1, <1>9
<1>12. ASSUME /\ streamStage' = "read" /\ UNCHANGED <<userVars, call, ret, failures>>
              /\ inBuffSize' >= neededIn /\ outBuffSize' >= neededOut
              /\ inBuffSize' \in Nat /\ outBuffSize' \in Nat
              /\ mem' \in [0 .. outBuffSize' - 1 -> Int]
       PROVE  IInv'
  <2>u. /\ api' = api /\ src' = src /\ sources' = sources /\ ipos' = ipos /\ opos' = opos
        /\ call' = call /\ ret' = ret /\ failures' = failures
    BY <1>12 DEF userVars
  <2>1. /\ dctx' \in Context /\ dctx'.decodedSize = 0
        /\ Decoding(dctx', mem', outBuffSize', q, f, P, 0)
        /\ Room(dctx', outBuffSize', f, 0)
    BY <1>9, <1>12
  <2>2. Cur' = P /\ Done' = f.out /\ ThisFrame' = f
    BY <2>u, <1>2, <1>5 DEF Cur, Done, ThisFrame
  <2>3. P + 0 = P /\ f.out + 0 = f.out
    BY <1>2, FrameAtHand
  <2>4. InRoom'
    <3>1. inBuffSize' >= BlockSizeMax(f) /\ inBuffSize' >= Checksum
      <4> DEFINE b == BlockSizeMax(f)
      <4>1. b \in Nat /\ neededIn >= b
        BY <1>3, <1>4, BlockSizeMaxNat
      <4> HIDE DEF b
      <4>2. inBuffSize' >= b /\ inBuffSize' >= Checksum
        BY <4>1, <1>4, <1>12 DEF Checksum
      <4> QED
        BY <4>2 DEF b
    <3> QED
      BY <2>2, <3>1 DEF InRoom
  <2>5. ReadStage'
    <3>1. (frame > 0 /\ inPos = 0 /\ outEnd = outStart /\ hostageByte = 0)'
      BY <1>2, <1>5
    <3>2. Cur' + hostageByte' = P /\ outStart' = 0
      BY <1>2, <1>5, <2>2, <2>3
    <3>3. DecodingAt(Cur + hostageByte, outStart)'
      BY <2>1, <2>2, <3>2, <1>5 DEF DecodingAt
    <3>4. Room(dctx, outBuffSize, ThisFrame, outStart)'
      BY <2>1, <2>2, <3>2
    <3>5. Done' = f.out + dctx'.decodedSize
      BY <2>1, <2>2, <2>3
    <3>6. ~(call'.on /\ ~call'.more)
      BY <2>u, <1>2
    <3> HIDE DEF f
    <3> QED
      BY <2>2, <2>4, <3>1, <3>3, <3>4, <3>5, <3>6 DEF ReadStage
  <2>6. StreamInv'
    BY <1>12, <2>5 DEF StreamInv
  <2>7. Buffers'
    <3>1. "read" \in Stages /\ (outStart <= outBuffSize)' /\ (outEnd <= outBuffSize)'
          /\ inPos' <= Larger(inBuffSize', q.frameContentSize)
      BY <1>2, <1>5, <1>8, <1>12 DEF Stages
    <3> QED
      BY <3>1, <2>1, <2>u, <1>4, <1>5, <1>7, <1>12 DEF Buffers
  <2>8. Moved(call, call', call.ip, call.op, call.more)
    BY <1>2, <2>u, CallMoves, Zenon DEF Types
  <2>9. /\ call.ip \in Nat /\ call.op \in Nat /\ call.more \in BOOLEAN
        /\ call.ip <= call.ip /\ call.op <= call.op
    BY <1>2, CallTypes
  <2> QED
    BY <1>2, <2>u, <2>6, <2>7, <2>8, <2>9, RunningStep
<1>13. ASSUME call' = Idle, UNCHANGED userVars, IsError(ret'), ret' \in Int, ValidNeverFails', Buffers',
              streamStage' = "loadHeader"
       PROVE  IInv'
  <2>1. /\ api' = api /\ src' = src /\ sources' = sources /\ ipos' = ipos /\ opos' = opos
    BY <1>13 DEF userVars
  <2>2. ipos \in Nat /\ opos \in Nat /\ ipos <= SourceSize(src)
    BY <1>2, StateTypes DEF Bounds
  <2>3. StreamInv'
    BY <1>13 DEF StreamInv
  <2>4. ZeroMeansFrameDone'
    BY <1>13 DEF ZeroMeansFrameDone, IsError
  <2> QED
    BY <1>2, <1>13, <2>1, <2>2, <2>3, <2>4, ReturningStep
<1>14. CASE /\ q.windowSize > MaxWindowSize
            /\ ret' = Error.windowTooLarge /\ call' = Idle /\ UNCHANGED userVars
            /\ UNCHANGED <<streamStage, mem, inBuffSize, outBuffSize, failures>>
  <2>1. IsError(ret') /\ ret' \in Int
    BY <1>14 DEF Error, IsError
  <2>2. ValidNeverFails'
    <3>1. frame \in DOMAIN src /\ Larger(src[frame].window, WindowMin) > MaxWindowSize
      BY <1>2, <1>3, <1>4, <1>14, SourceTypes
    <3>2. src' = src
      BY <1>14 DEF userVars
    <3> QED
      BY <3>1, <3>2, <1>14 DEF ValidNeverFails
  <2>3. Buffers'
    <3>1. inPos' <= Larger(inBuffSize', q.frameContentSize)
      BY <1>2, <1>5, <1>7, <1>8, <1>14 DEF Buffers
    <3>2. src' = src /\ api' = api
      BY <1>14 DEF userVars
    <3> QED
      BY <3>1, <3>2, <1>4, <1>5, <1>7, <1>11, <1>14 DEF Buffers
  <2>4. streamStage' = "loadHeader"
    BY <1>2, <1>14
  <2> QED
    BY <1>13, <1>14, <2>1, <2>2, <2>3, <2>4
<1>15. CASE /\ inBuffSize' = neededIn /\ outBuffSize' = neededOut /\ mem' = FreshBuffer(neededOut)
            /\ streamStage' = "read" /\ UNCHANGED <<userVars, call, ret, failures>>
  <2>1. neededIn >= neededIn /\ neededOut >= neededOut
    BY <1>4
  <2> QED
    BY <1>4, <1>10, <1>12, <1>15, <2>1
<1>16. CASE /\ failures < MaxAllocFail /\ failures' = failures + 1
            /\ inBuffSize' = 0 /\ outBuffSize' = 0 /\ mem' = FreshBuffer(0)
            /\ ret' = Error.memory_allocation /\ call' = Idle /\ UNCHANGED userVars
            /\ UNCHANGED streamStage
  <2>1. IsError(ret') /\ ret' \in Int
    BY <1>16 DEF Error, IsError
  <2>2. failures' \in 0 .. MaxAllocFail /\ failures' > 0
    <3>1. failures \in 0 .. MaxAllocFail /\ MaxAllocFail \in Nat
      BY <1>7, ConstantTypes DEF Buffers
    <3> QED
      BY <3>1, <1>16
  <2>3. ValidNeverFails'
    BY <1>16, <2>2 DEF ValidNeverFails
  <2>4. Buffers'
    <3>1. inPos' <= Larger(inBuffSize', q.frameContentSize)
      BY <1>2, <1>5, <1>8, <1>16
    <3>2. src' = src /\ api' = api
      BY <1>16 DEF userVars
    <3>3. mem' \in [0 .. outBuffSize' - 1 -> Int]
      BY <1>10, <1>16
    <3>4. (outStart <= outBuffSize)' /\ (outEnd <= outBuffSize)'
          /\ inBuffSize' \in Nat /\ outBuffSize' \in Nat
      BY <1>2, <1>5, <1>16
    <3> QED
      BY <3>1, <3>2, <3>3, <3>4, <2>2, <1>4, <1>5, <1>7, <1>11, <1>16 DEF Buffers
  <2>5. streamStage' = "loadHeader"
    BY <1>2, <1>16
  <2> QED
    BY <1>13, <1>16, <2>1, <2>3, <2>4, <2>5
<1>17. CASE /\ fits /\ streamStage' = "read"
            /\ UNCHANGED <<userVars, call, ret, mem, inBuffSize, outBuffSize, failures>>
  <2>1. inBuffSize \in Nat /\ outBuffSize \in Nat /\ mem \in [0 .. outBuffSize - 1 -> Int]
    BY <1>7 DEF Buffers
  <2>2. inBuffSize >= neededIn /\ outBuffSize >= neededOut
    BY <2>1, <1>4, <1>17
  <2> QED
    BY <1>12, <1>17, <2>1, <2>2
<1> QED
  BY <1>6, <1>14, <1>15, <1>16, <1>17

\* What ZSTD1_decompressContinue gave is used: P is the place of what it was given.
LEMMA TookStep ==
  ASSUME IInv, call.on, call.more, frame > 0, InRoom, outEnd = outStart, hostageByte = 0,
         Done = ThisFrame.out + dctx.decodedSize, NEW P \in Nat, NEW r, NEW skipped \in BOOLEAN,
         Continued(dctx, outBuffSize, fParams, ThisFrame, P, outStart, r.d, r.m, r.ret),
         Took(r, skipped), NEW x \in Nat, x = P + dctx.expected, call.ip < x, x <= call.iend,
         call' = [call EXCEPT !.ip = x], inPos' = 0, outStart' = outStart,
         api' = api, src' = src, sources' = sources, ipos' = ipos, opos' = opos, ret' = ret,
         frame' = frame, lhSize' = lhSize, hostageByte' = hostageByte, fParams' = fParams,
         inBuffSize' = inBuffSize, outBuffSize' = outBuffSize, legacyVersion' = legacyVersion,
         previousLegacyVersion' = previousLegacyVersion, failures' = failures
  PROVE  IInv'
<1> DEFINE f == ThisFrame
           n == outBuffSize
           c == r.d
           k == r.m
           size == r.ret
           out == f.out
           dec == dctx.decodedSize
<1>1. Types /\ Bounds /\ api = "stream" /\ ~IsError(ret)
  BY DEF IInv, Bounds
<1>2. /\ size \in Nat /\ c \in Context /\ k \in [0 .. n - 1 -> Int] /\ outStart + size <= n
      /\ Decoding(c, k, n, fParams, f, P + dctx.expected, outStart + size)
      /\ c.decodedSize = dec + size
      /\ Bytes(k, outStart, outStart + size, (out + dec) - outStart)
      /\ size = 0 => Room(c, n, f, outStart)
  BY DEF Continued
<1>3. dctx' = c /\ mem' = k
  BY DEF Took
<1>t. /\ n \in Nat /\ outStart \in Nat /\ out \in Nat /\ dec \in Nat /\ call.ip \in Nat
      /\ call.op \in Nat /\ call.oend \in Nat /\ call.istart \in Nat /\ call.istart <= call.ip
      /\ inBuffSize \in Nat
  BY <1>1, StateTypes, FrameAtHand, CallTypes DEF Bounds
<1>4. Moved(call, call', x, call.op, call.more)
  BY <1>1, <1>t, CallMoves, Zenon DEF Types
<1>5. call'.on /\ call'.more /\ call'.ip = x /\ call'.op = call.op /\ call'.istart = call.istart
  BY <1>4 DEF Moved
<1>6. Cur' = x /\ Done' = out + dec /\ ThisFrame' = f
  <2>1. Done = call.op
    BY DEF Done
  <2> QED
    BY <1>5, <2>1 DEF Cur, Done, ThisFrame
<1> HIDE DEF f, n, c, k, size, out, dec
<1>7. InRoom'
  BY <1>6 DEF InRoom, f
<1>8. Cur' + hostageByte' = P + dctx.expected
  BY <1>6
<1>9. Buffers
  BY <1>1, BuffersNow
<1>10. 0 <= Larger(inBuffSize, fParams.frameContentSize)
  <2> DEFINE w == fParams.frameContentSize
  <2>1. w \in Nat \cup {Unknown}
    BY <1>1, StateTypes
  <2> HIDE DEF w
  <2>2. 0 <= Larger(inBuffSize, w)
    BY <2>1, <1>t DEF Larger, Unknown
  <2> QED
    BY <2>2 DEF w
<1>11. dctx' \in Context /\ mem' \in [0 .. outBuffSize' - 1 -> Int]
  BY <1>2, <1>3 DEF n
<1>12. CASE size = 0 /\ ~skipped
  <2>1. streamStage' = "read" /\ outEnd' = outEnd
    BY <1>12 DEF Took, size
  <2>2. outStart + size = outStart /\ c.decodedSize = dec
    BY <1>2, <1>12, <1>t
  <2>3. ReadStage'
    <3>1. DecodingAt(Cur + hostageByte, outStart)'
      BY <1>2, <1>3, <1>6, <1>8, <2>2 DEF DecodingAt, n
    <3>2. Room(dctx, outBuffSize, ThisFrame, outStart)'
      BY <1>2, <1>3, <1>6, <1>12 DEF n
    <3>3. (Done = ThisFrame.out + dctx.decodedSize)'
      BY <1>3, <1>6, <2>2 DEF out
    <3> QED
      BY <1>5, <1>7, <2>1, <3>1, <3>2, <3>3 DEF ReadStage
  <2>4. StreamInv'
    BY <2>1, <2>3 DEF StreamInv
  <2>5. Buffers'
    BY <1>9, <1>10, <1>11, <2>1 DEF Buffers, Stages
  <2>6. x <= call.iend /\ call.ip <= x /\ call.op <= call.op /\ call.op <= call.oend
    BY <1>1, <1>t DEF Bounds
  <2> QED
    BY <1>t, <1>4, <2>4, <2>5, <2>6, RunningStep
<1>13. CASE ~(size = 0 /\ ~skipped)
  <2>1. streamStage' = "flush" /\ outEnd' = outStart + size
    BY <1>13 DEF Took, size
  <2>2. /\ outStart <= outStart + size /\ (outStart + size) - outStart = size
        /\ (out + dec) + size = out + (dec + size) /\ out <= out + dec
        /\ outStart + size \in Nat
    <3>1. outStart \in Nat /\ size \in Nat /\ out \in Nat /\ dec \in Nat
      BY <1>2, <1>t
    <3> QED
      BY <3>1
  <2>3. FlushStage'
    <3>1. DecodingAt(Cur + hostageByte, outEnd)'
      BY <1>2, <1>3, <1>6, <1>8, <2>1 DEF DecodingAt, n
    <3>2. (Done + (outEnd - outStart) = ThisFrame.out + dctx.decodedSize)'
      BY <1>2, <1>3, <1>6, <2>1, <2>2 DEF out
    <3>3. Bytes(mem, outStart, outEnd, Done - outStart)'
      BY <1>2, <1>3, <1>6, <2>1
    <3>4. (ThisFrame.out <= Done)' /\ (outStart <= outEnd)'
      BY <1>6, <2>1, <2>2 DEF out
    <3>5. call'.on /\ call'.more /\ call'.istart < call'.ip
      BY <1>5, <1>t
    <3> QED
      BY <1>7, <3>1, <3>2, <3>3, <3>4, <3>5 DEF FlushStage
  <2>4. StreamInv'
    BY <2>1, <2>3 DEF StreamInv
  <2>5. Buffers'
    <3>1. outEnd' \in Nat /\ outEnd' <= outBuffSize'
      BY <1>2, <2>1, <2>2 DEF n
    <3> QED
      BY <1>9, <1>10, <1>11, <2>1, <3>1 DEF Buffers, Stages
  <2>6. x <= call.iend /\ call.ip <= x /\ call.op <= call.op /\ call.op <= call.oend
    BY <1>1, <1>t DEF Bounds
  <2> QED
    BY <1>t, <1>4, <2>4, <2>5, <2>6, RunningStep
<1> QED
  BY <1>12, <1>13

LEMMA ReadDirectStep ==
  ASSUME IInv, ReadDirect
  PROVE  IInv'
<1> DEFINE skipped == IsSkipFrame(dctx)
           ex == dctx.expected
           ip == call.ip
           cap == IF skipped THEN 0 ELSE outBuffSize - outStart
           r == DecompressContinue(src, dctx, mem, outStart, cap, ip, ex)
<1>1. /\ Types /\ Bounds /\ call.on /\ call.more /\ Cur = ip /\ Done = call.op /\ ReadStage
  BY AtStage DEF ReadDirect, Stages
<1>2. ex > 0 /\ call.iend - ip >= ex
  BY DEF ReadDirect
<1>t. /\ ip \in Nat /\ ex \in Nat /\ call.iend \in Nat /\ outStart \in Nat /\ outBuffSize \in Nat
      /\ hostageByte \in {0, 1} /\ src \in Sources /\ dctx \in Context /\ fParams \in Params
      /\ mem \in [0 .. outBuffSize - 1 -> Int] /\ outStart <= outBuffSize
  BY <1>1, StateTypes, CallTypes DEF Bounds
<1>3. /\ frame > 0 /\ inPos = 0 /\ outEnd = outStart /\ InRoom /\ hostageByte = 0
      /\ Done = ThisFrame.out + dctx.decodedSize
      /\ DecodingAt(ip, outStart) /\ Room(dctx, outBuffSize, ThisFrame, outStart)
  <2>1. hostageByte = 0
    <3>1. hostageByte = 1 => ex = 0
      BY <1>1 DEF ReadStage
    <3> HIDE DEF ex
    <3> QED
      BY <3>1, <1>2, <1>t
  <2>2. ip + 0 = ip
    BY <1>t
  <2> HIDE DEF ip
  <2> QED
    BY <1>1, <2>1, <2>2 DEF ReadStage
<1>4. frame \in 1 .. Len(src) /\ ThisFrame = src[frame]
  BY <1>1, <1>3, FrameAtHand
<1>5. Continued(dctx, outBuffSize, fParams, src[frame], ip, outStart, r.d, r.m, r.ret)
  <2>1. Decoding(dctx, mem, outBuffSize, fParams, src[frame], ip, outStart)
        /\ Room(dctx, outBuffSize, src[frame], outStart)
    BY <1>3, <1>4 DEF DecodingAt
  <2>2. dctx.stage \in {"decompressBlock", "decompressLastBlock"} => cap = outBuffSize - outStart
    BY DEF IsSkipFrame
  <2>3. dctx.expected > 0
    BY <1>2
  <2> HIDE DEF cap, ip
  <2>4. LET z == DecompressContinue(src, dctx, mem, outStart, cap, ip, dctx.expected) IN
        Continued(dctx, outBuffSize, fParams, src[frame], ip, outStart, z.d, z.m, z.ret)
    BY <1>t, <1>4, <2>1, <2>2, <2>3, Continue
  <2> QED
    BY <2>4
<1>6. /\ IF IsError(r.ret)
         THEN Fail(r.ret) /\ UNCHANGED <<dctx, mem, streamStage, outEnd>>
         ELSE /\ Took(r, skipped) /\ call' = [call EXCEPT !.ip = ip + ex]
              /\ UNCHANGED <<userVars, ret>>
      /\ UNCHANGED <<frame, lhSize, inPos, outStart, hostageByte, buffVars, legacyVars, failures>>
  BY DEF ReadDirect
<1>7. ~IsError(r.ret)
  <2>1. r.ret \in Nat
    BY <1>5 DEF Continued
  <2> HIDE DEF r
  <2> QED
    BY <2>1 DEF IsError
<1> DEFINE x == ip + ex
<1>8. x \in Nat /\ ip < x /\ x <= call.iend
  <2> DEFINE iend == call.iend
  <2>1. ip \in Nat /\ ex \in Nat /\ iend \in Nat /\ ex > 0 /\ iend - ip >= ex
    BY <1>t, <1>2
  <2> HIDE DEF ip, ex, iend
  <2>2. x \in Nat /\ ip < x /\ x <= iend
    BY <2>1
  <2> QED
    BY <2>2 DEF iend
<1>9. /\ Took(r, skipped) /\ call' = [call EXCEPT !.ip = x]
      /\ api' = api /\ src' = src /\ sources' = sources /\ ipos' = ipos /\ opos' = opos
      /\ ret' = ret /\ frame' = frame /\ lhSize' = lhSize /\ inPos' = inPos
      /\ outStart' = outStart /\ hostageByte' = hostageByte
      /\ inBuffSize' = inBuffSize /\ outBuffSize' = outBuffSize /\ fParams' = fParams
      /\ legacyVersion' = legacyVersion /\ previousLegacyVersion' = previousLegacyVersion
      /\ failures' = failures
  <2> HIDE DEF r
  <2> QED
    BY <1>6, <1>7 DEF userVars, buffVars, legacyVars
<1>10. skipped \in BOOLEAN
  BY DEF IsSkipFrame
<1>11. Continued(dctx, outBuffSize, fParams, ThisFrame, ip, outStart, r.d, r.m, r.ret)
  BY <1>4, <1>5
<1> HIDE DEF r, skipped
<1> QED
  BY <1>1, <1>3, <1>t, <1>8, <1>9, <1>10, <1>11, TookStep

\* The frame is over, or the call.
LEMMA ReadStopsStep ==
  ASSUME IInv, ReadStops
  PROVE  IInv'
<1>1. /\ Types /\ Bounds /\ call.on /\ call.more /\ Cur = call.ip /\ Done = call.op /\ ReadStage
      /\ call.ip <= call.iend /\ call.op <= call.oend
  BY AtStage DEF ReadStops, Stages
<1>2. /\ call' = [call EXCEPT !.more = FALSE]
      /\ streamStage' = IF dctx.expected = 0 THEN "init" ELSE "read"
      /\ api' = api /\ src' = src /\ sources' = sources /\ ipos' = ipos /\ opos' = opos
      /\ ret' = ret /\ dctx' = dctx /\ mem' = mem /\ frame' = frame /\ lhSize' = lhSize
      /\ inPos' = inPos /\ outStart' = outStart /\ outEnd' = outEnd
      /\ hostageByte' = hostageByte
      /\ inBuffSize' = inBuffSize /\ outBuffSize' = outBuffSize /\ fParams' = fParams
      /\ legacyVersion' = legacyVersion /\ previousLegacyVersion' = previousLegacyVersion
      /\ failures' = failures
  BY DEF ReadStops, userVars, buffVars, legacyVars
<1>t. /\ call.ip \in Nat /\ call.op \in Nat /\ call.iend \in Nat /\ call.oend \in Nat
      /\ dctx.expected \in Nat /\ src \in Sources /\ hostageByte \in {0, 1} /\ dctx \in Context
  BY <1>1, StateTypes, CallTypes
<1>le. call.ip <= call.ip /\ call.op <= call.op
  BY <1>t
<1>3. Moved(call, call', call.ip, call.op, FALSE)
  BY <1>1, <1>2, <1>t, CallMoves, Zenon DEF Types
<1>4. call'.on /\ ~call'.more /\ call'.ip = call.ip /\ call'.op = call.op
  BY <1>1, <1>3 DEF Moved
<1>5. Cur' = Cur /\ Done' = Done /\ ThisFrame' = ThisFrame /\ InRoom' = InRoom
  BY <1>1, <1>2, <1>4 DEF Cur, Done, ThisFrame, InRoom
<1>6. /\ frame > 0 /\ inPos = 0 /\ outEnd = outStart /\ InRoom
      /\ DecodingAt(Cur + hostageByte, outStart)
      /\ Done = ThisFrame.out + dctx.decodedSize
  BY <1>1 DEF ReadStage
<1>7. StreamInv'
  <2>1. CASE dctx.expected = 0
    <3>1. frame \in 1 .. Len(src) /\ ThisFrame = src[frame]
          /\ FrameOutEnd(ThisFrame) = ThisFrame.out + ThisFrame.content
      BY <1>1, <1>6, FrameAtHand
    <3>2. Cur + hostageByte = FrameEnd(src[frame]) /\ dctx.decodedSize = src[frame].content
      <4>1. Decoding(dctx, mem, outBuffSize, fParams, src[frame], Cur + hostageByte, outStart)
        BY <1>6, <3>1 DEF DecodingAt
      <4>2. Cur + hostageByte \in Nat
        BY <1>1, <1>t
      <4> QED
        BY <4>1, <4>2, <3>1, <2>1, <1>t, Ended
    <3>3. Done = FrameOutEnd(src[frame])
      BY <1>6, <3>1, <3>2
    <3>4. FramesSize(src, frame) = FrameEnd(src[frame])
          /\ FramesContent(src, frame) = FrameOutEnd(src[frame])
      <4>1. frame \in 0 .. Len(src) /\ frame > 0
        BY <3>1
      <4> QED
        BY <4>1, <1>t, NextFrame
    <3>5. Boundary(Cur + hostageByte, Done, 1)'
      BY <3>1, <3>2, <3>3, <3>4, <1>2, <1>5 DEF Boundary
    <3>6. hostageByte = 1 => DecodingAt(Cur + 1, outStart)
      BY <1>6
    <3>7. (hostageByte = 1 => DecodingAt(Cur + 1, outStart))'
      BY <3>6, <1>2, <1>5 DEF DecodingAt
    <3>8. (frame > 0 /\ inPos = 0 /\ outEnd = outStart /\ InRoom
           /\ Done = ThisFrame.out + dctx.decodedSize /\ dctx.expected = 0)'
      BY <1>2, <1>5, <1>6, <2>1
    <3>9. InitStage'
      BY <1>4, <3>5, <3>7, <3>8 DEF InitStage
    <3> QED
      BY <1>2, <2>1, <3>9 DEF StreamInv
  <2>2. CASE dctx.expected # 0
    <3>1. dctx.expected > 0
      <4> DEFINE ex == dctx.expected
      <4>1. ex \in Nat /\ ex # 0
        BY <1>t, <2>2
      <4> HIDE DEF ex
      <4>2. ex > 0
        BY <4>1
      <4> QED
        BY <4>2 DEF ex
    <3>2. ReadStage'
      BY <3>1, <1>1, <1>2, <1>5 DEF ReadStage, DecodingAt
    <3> QED
      BY <1>2, <2>2, <3>2 DEF StreamInv
  <2> QED
    BY <2>1, <2>2
<1>8. Buffers'
  <2>1. Buffers /\ streamStage' \in Stages
    BY <1>1, <1>2, BuffersNow DEF Stages
  <2> QED
    BY <1>2, <2>1 DEF Buffers
<1> QED
  BY <1>1, <1>2, <1>3, <1>7, <1>8, <1>t, <1>le, RunningStep

LEMMA StartLoadStep ==
  ASSUME IInv, StartLoad
  PROVE  IInv'
<1>1. /\ Types /\ Bounds /\ call.on /\ call.more /\ Cur = call.ip /\ Done = call.op /\ ReadStage
      /\ call.ip <= call.iend /\ call.op <= call.oend
  BY AtStage DEF StartLoad, Stages
<1>2. /\ dctx.expected > call.iend - call.ip /\ call.ip < call.iend
      /\ call' = call /\ streamStage' = "load"
      /\ api' = api /\ src' = src /\ sources' = sources /\ ipos' = ipos /\ opos' = opos
      /\ ret' = ret /\ dctx' = dctx /\ mem' = mem /\ frame' = frame /\ lhSize' = lhSize
      /\ inPos' = inPos /\ outStart' = outStart /\ outEnd' = outEnd
      /\ hostageByte' = hostageByte
      /\ inBuffSize' = inBuffSize /\ outBuffSize' = outBuffSize /\ fParams' = fParams
      /\ legacyVersion' = legacyVersion /\ previousLegacyVersion' = previousLegacyVersion
      /\ failures' = failures
  BY DEF StartLoad, userVars, buffVars, legacyVars
<1>t. /\ call.ip \in Nat /\ call.op \in Nat /\ call.iend \in Nat /\ call.oend \in Nat
      /\ dctx.expected \in Nat /\ hostageByte \in {0, 1} /\ call.more \in BOOLEAN
  BY <1>1, StateTypes, CallTypes
<1>le. call.ip <= call.ip /\ call.op <= call.op
  BY <1>t
<1>3. dctx.expected > 0
  <2> DEFINE ex == dctx.expected
             ip == call.ip
             iend == call.iend
  <2>1. ex \in Nat /\ ip \in Nat /\ iend \in Nat /\ ex > iend - ip /\ ip < iend
    BY <1>t, <1>2
  <2> HIDE DEF ex, ip, iend
  <2>2. ex > 0
    BY <2>1
  <2> QED
    BY <2>2 DEF ex
<1>4. /\ frame > 0 /\ inPos = 0 /\ outEnd = outStart /\ InRoom /\ hostageByte = 0
      /\ DecodingAt(Cur - 0, outStart) /\ Room(dctx, outBuffSize, ThisFrame, outStart)
      /\ Done = ThisFrame.out + dctx.decodedSize
  <2>1. hostageByte = 0
    <3>1. hostageByte = 1 => dctx.expected = 0
      BY <1>1 DEF ReadStage
    <3>2. ~(dctx.expected = 0)
      BY <1>3
    <3> QED
      BY <1>t, <3>1, <3>2
  <2>2. Cur + 0 = Cur - 0
    BY <1>1, <1>t
  <2> QED
    BY <1>1, <2>1, <2>2 DEF ReadStage
<1>5. Cur' = Cur /\ Done' = Done /\ ThisFrame' = ThisFrame /\ InRoom' = InRoom
  BY <1>2 DEF Cur, Done, ThisFrame, InRoom
<1>6. LoadStage'
  <2>1. inPos < dctx.expected /\ inPos <= Cur
    BY <1>1, <1>3, <1>4, <1>t
  <2> QED
    BY <2>1, <1>2, <1>4, <1>5 DEF LoadStage, DecodingAt
<1>7. StreamInv'
  BY <1>2, <1>6 DEF StreamInv
<1>8. Buffers'
  <2>1. Buffers /\ streamStage' \in Stages
    BY <1>1, <1>2, BuffersNow DEF Stages
  <2> QED
    BY <1>2, <2>1 DEF Buffers
<1>9. Moved(call, call', call.ip, call.op, call.more)
  BY <1>1, <1>2, <1>t, CallMoves, Zenon DEF Types
<1> QED
  BY <1>1, <1>2, <1>7, <1>8, <1>9, <1>t, <1>le, RunningStep

\* Part of what is expected is gathered, or the rest of it.
LEMMA LoadStep ==
  ASSUME IInv, Load
  PROVE  IInv'
<1> DEFINE skipped == IsSkipFrame(dctx)
           ex == dctx.expected
           ip == call.ip
           iend == call.iend
           toLoad == ex - inPos
           loaded == Smaller(toLoad, iend - ip)
           P == ip - inPos
           cap == outBuffSize - outStart
           place == ip + (loaded - ex)
           r == DecompressContinue(src, dctx, mem, outStart, cap, place, ex)
<1>1. /\ Types /\ Bounds /\ call.on /\ call.more /\ Cur = ip /\ Done = call.op /\ LoadStage
      /\ ip <= iend /\ call.op <= call.oend
  BY AtStage DEF Load, Stages
<1>t. /\ ip \in Nat /\ ex \in Nat /\ iend \in Nat /\ outStart \in Nat /\ outBuffSize \in Nat
      /\ inPos \in Nat /\ inBuffSize \in Nat /\ call.op \in Nat /\ call.oend \in Nat
      /\ src \in Sources /\ dctx \in Context /\ fParams \in Params
      /\ mem \in [0 .. outBuffSize - 1 -> Int] /\ outStart <= outBuffSize
  BY <1>1, StateTypes, CallTypes DEF Bounds
<1>2. /\ frame > 0 /\ inPos < ex /\ inPos <= ip /\ outEnd = outStart /\ InRoom
      /\ hostageByte = 0 /\ Done = ThisFrame.out + dctx.decodedSize
      /\ DecodingAt(P, outStart) /\ Room(dctx, outBuffSize, ThisFrame, outStart)
  BY <1>1 DEF LoadStage
<1>3. frame \in 1 .. Len(src) /\ ThisFrame = src[frame] /\ BlockSizeMax(ThisFrame) \in Nat
  BY <1>1, <1>2, FrameAtHand
<1>4. Decoding(dctx, mem, outBuffSize, fParams, src[frame], P, outStart)
  BY <1>2, <1>3 DEF DecodingAt
<1>5. P \in Nat /\ toLoad \in Nat /\ toLoad > 0 /\ loaded \in Nat /\ loaded <= toLoad
      /\ loaded <= iend - ip /\ toLoad <= ex
  <2> HIDE DEF ip, ex, iend
  <2> QED
    BY <1>1, <1>2, <1>t DEF Smaller
<1>6. /\ ~skipped => ex <= inBuffSize
      /\ skipped => ex = fParams.frameContentSize
  <2>p. src \in Sources /\ dctx \in Context /\ frame \in 1 .. Len(src) /\ P \in Nat
    BY <1>3, <1>5, <1>t
  <2>1. /\ dctx.stage # "skipFrame" => ex <= Larger(BlockSizeMax(src[frame]), Checksum)
        /\ dctx.stage = "skipFrame" => ex = fParams.frameContentSize
    <3> HIDE DEF P
    <3> QED
      BY <2>p, <1>4, Inside, Zenon
  <2> DEFINE b == BlockSizeMax(ThisFrame)
  <2>2. b \in Nat /\ inBuffSize >= b /\ inBuffSize >= Checksum
        /\ (dctx.stage # "skipFrame" => ex <= Larger(b, Checksum))
    BY <1>2, <1>3, <2>1 DEF InRoom
  <2> HIDE DEF b, ex
  <2>3. dctx.stage # "skipFrame" => ex <= inBuffSize
    BY <2>2, <1>t DEF Larger, Checksum
  <2> QED
    BY <2>1, <2>3 DEF IsSkipFrame, ex
<1>7. skipped \/ toLoad <= inBuffSize - inPos
  <2> HIDE DEF skipped, ex
  <2> QED
    BY <1>6, <1>t
<1>8. Buffers
  BY <1>1, BuffersNow
<1>u. /\ api' = api /\ src' = src /\ sources' = sources /\ frame' = frame /\ lhSize' = lhSize
      /\ outStart' = outStart /\ hostageByte' = hostageByte /\ inBuffSize' = inBuffSize
      /\ outBuffSize' = outBuffSize /\ fParams' = fParams /\ legacyVersion' = legacyVersion
      /\ previousLegacyVersion' = previousLegacyVersion /\ failures' = failures
  <2>1. UNCHANGED <<frame, lhSize, outStart, hostageByte, buffVars, legacyVars, failures>>
    BY DEF Load
  <2>2. UNCHANGED userVars
    <3>1. (CASE ~skipped /\ toLoad > inBuffSize - inPos ->
                /\ Fail(Error.corruption_detected)
                /\ UNCHANGED <<dctx, mem, streamStage, inPos, outEnd>>
           [] loaded < toLoad /\ (skipped \/ toLoad <= inBuffSize - inPos) ->
                /\ call' = [call EXCEPT !.ip = @ + loaded, !.more = FALSE]
                /\ inPos' = inPos + loaded
                /\ UNCHANGED <<userVars, ret, dctx, mem, streamStage, outEnd>>
           [] loaded = toLoad /\ (skipped \/ toLoad <= inBuffSize - inPos) ->
                IF IsError(r.ret)
                THEN /\ Fail(r.ret)
                     /\ inPos' = inPos + loaded
                     /\ UNCHANGED <<dctx, mem, streamStage, outEnd>>
                ELSE /\ Took(r, skipped)
                     /\ inPos' = 0
                     /\ call' = [call EXCEPT !.ip = @ + loaded]
                     /\ UNCHANGED <<userVars, ret>>)
      BY DEF Load
    <3>2. loaded < toLoad \/ loaded = toLoad
      BY <1>5
    <3> HIDE DEF loaded, toLoad, r, skipped
    <3> QED
      BY <3>1, <3>2, <1>7 DEF Fail
  <2> QED
    BY <2>1, <2>2 DEF userVars, buffVars, legacyVars
<1>9. CASE loaded < toLoad
  <2>1. /\ call' = [call EXCEPT !.ip = ip + loaded, !.more = FALSE]
        /\ inPos' = inPos + loaded
        /\ UNCHANGED <<userVars, ret, dctx, mem, streamStage, outEnd>>
    <3>1. ~(~skipped /\ toLoad > inBuffSize - inPos) /\ ~(loaded = toLoad)
      <4> HIDE DEF skipped, ex, loaded
      <4> QED
        BY <1>5, <1>7, <1>9, <1>t
    <3> QED
      BY <3>1, <1>7, <1>9 DEF Load
  <2> DEFINE x == ip + loaded
             pos == inPos + loaded
  <2>2. x \in Nat /\ ip <= x /\ x <= iend /\ pos \in Nat /\ pos < ex /\ pos <= x /\ x - pos = P
    <3> HIDE DEF ip, ex, iend, loaded
    <3> QED
      BY <1>1, <1>2, <1>5, <1>9, <1>t
  <2>3. Moved(call, call', x, call.op, FALSE)
    <3>1. call \in CallRecord
      BY <1>1 DEF Types
    <3> HIDE DEF x
    <3>2. Moved(call, [call EXCEPT !.ip = x, !.more = FALSE], x, call.op, FALSE)
      BY <3>1, <2>2, <1>t, CallMoves, Zenon
    <3> QED
      BY <3>2, <2>1 DEF x
  <2> HIDE DEF x, pos, P, skipped, loaded, toLoad
  <2>4. call'.on /\ ~call'.more /\ call'.ip = x /\ call'.op = call.op
    BY <2>3, <1>1 DEF Moved
  <2>u. /\ inPos' = pos /\ dctx' = dctx /\ mem' = mem /\ streamStage' = streamStage
        /\ outEnd' = outEnd /\ ret' = ret /\ ipos' = ipos /\ opos' = opos
    BY <2>1 DEF pos, userVars
  <2>5. Cur' = x /\ Done' = Done /\ ThisFrame' = ThisFrame /\ InRoom' = InRoom
    BY <2>4, <1>1, <1>u DEF Cur, Done, ThisFrame, InRoom
  <2>6. LoadStage'
    <3>1. DecodingAt(Cur - inPos, outStart)'
      BY <2>2, <2>5, <2>u, <1>2, <1>u DEF DecodingAt
    <3>2. (inPos < dctx.expected /\ inPos <= Cur)'
      BY <2>2, <2>5, <2>u
    <3>3. (frame > 0 /\ outEnd = outStart /\ hostageByte = 0)'
      BY <2>u, <1>2, <1>u
    <3>4. (InRoom /\ Room(dctx, outBuffSize, ThisFrame, outStart)
           /\ Done = ThisFrame.out + dctx.decodedSize)'
      BY <2>5, <2>u, <1>2, <1>u
    <3> QED
      BY <3>1, <3>2, <3>3, <3>4 DEF LoadStage
  <2>7. StreamInv'
    <3>1. streamStage' = "load"
      BY <2>u DEF Load, In
    <3> QED
      BY <3>1, <2>6 DEF StreamInv
  <2>8. Buffers'
    <3>1. pos <= Larger(inBuffSize, fParams.frameContentSize)
      <4> DEFINE fcs == fParams.frameContentSize
      <4>1. fcs \in Nat \cup {Unknown}
        BY <1>1, StateTypes
      <4>2. (~skipped => ex <= inBuffSize) /\ (skipped => ex = fcs)
        BY <1>6
      <4> HIDE DEF ex, fcs
      <4>3. pos <= Larger(inBuffSize, fcs)
        BY <2>2, <4>1, <4>2, <1>t DEF Larger, Unknown
      <4> QED
        BY <4>3 DEF fcs
    <3> QED
      BY <3>1, <2>2, <2>u, <1>u, <1>8 DEF Buffers
  <2>9. call.op <= call.op
    BY <1>t
  <2> QED
    BY <2>2, <2>3, <2>7, <2>8, <2>9, <2>u, <1>1, <1>t, <1>u, RunningStep
<1>10. CASE ~(loaded < toLoad)
  <2>1. loaded = toLoad /\ place = P
    <3> HIDE DEF ip, iend, ex
    <3>1. loaded = toLoad
      BY <1>5, <1>10
    <3>2. ip + (toLoad - ex) = P
      BY <1>t
    <3> QED
      BY <3>1, <3>2
  <2>2. Continued(dctx, outBuffSize, fParams, src[frame], P, outStart, r.d, r.m, r.ret)
    <3>1. LET z == DecompressContinue(src, dctx, mem, outStart, cap, P, dctx.expected) IN
          Continued(dctx, outBuffSize, fParams, src[frame], P, outStart, z.d, z.m, z.ret)
      <4>1. ex > 0
        <5> HIDE DEF ex
        <5> QED
          BY <1>2, <1>t
      <4>2. dctx.expected > 0 /\ Room(dctx, outBuffSize, src[frame], outStart)
        BY <4>1, <1>2, <1>3
      <4> HIDE DEF P, ex
      <4> QED
        BY <4>2, <1>3, <1>4, <1>5, <1>t, Continue
    <3> HIDE DEF place
    <3> QED
      BY <3>1, <2>1
  <2>3. ~IsError(r.ret)
    <3>1. r.ret \in Nat
      BY <2>2 DEF Continued
    <3> HIDE DEF r
    <3> QED
      BY <3>1 DEF IsError
  <2> DEFINE x == ip + loaded
  <2>4. /\ Took(r, skipped) /\ inPos' = 0 /\ call' = [call EXCEPT !.ip = x]
        /\ UNCHANGED <<userVars, ret>>
    <3>1. ~(~skipped /\ toLoad > inBuffSize - inPos) /\ ~(loaded < toLoad)
      <4> HIDE DEF skipped, ex, loaded
      <4> QED
        BY <1>5, <1>7, <1>10, <1>t
    <3>2. (CASE ~skipped /\ toLoad > inBuffSize - inPos ->
                /\ Fail(Error.corruption_detected)
                /\ UNCHANGED <<dctx, mem, streamStage, inPos, outEnd>>
           [] loaded < toLoad /\ (skipped \/ toLoad <= inBuffSize - inPos) ->
                /\ call' = [call EXCEPT !.ip = @ + loaded, !.more = FALSE]
                /\ inPos' = inPos + loaded
                /\ UNCHANGED <<userVars, ret, dctx, mem, streamStage, outEnd>>
           [] loaded = toLoad /\ (skipped \/ toLoad <= inBuffSize - inPos) ->
                IF IsError(r.ret)
                THEN /\ Fail(r.ret)
                     /\ inPos' = inPos + loaded
                     /\ UNCHANGED <<dctx, mem, streamStage, outEnd>>
                ELSE /\ Took(r, skipped)
                     /\ inPos' = 0
                     /\ call' = [call EXCEPT !.ip = @ + loaded]
                     /\ UNCHANGED <<userVars, ret>>)
      BY DEF Load
    <3> HIDE DEF r, loaded, toLoad, skipped
    <3> QED
      BY <3>1, <3>2, <2>1, <2>3, <1>7
  <2>5. x \in Nat /\ x = P + dctx.expected /\ ip < x /\ x <= iend
    <3> HIDE DEF ip, iend
    <3>1. x \in Nat /\ x = P + ex /\ ip < x /\ x <= iend
      <4>1. inPos \in Nat /\ inPos < ex /\ toLoad = ex - inPos
        BY <1>2, <1>t
      <4> HIDE DEF ex, toLoad, loaded, r, place, cap, skipped
      <4> QED
        BY <4>1, <2>1, <1>5, <1>t
    <3> QED
      BY <3>1
  <2>6. skipped \in BOOLEAN
    BY DEF IsSkipFrame
  <2>7. Continued(dctx, outBuffSize, fParams, ThisFrame, P, outStart, r.d, r.m, r.ret)
    BY <2>2, <1>3
  <2>8. ipos' = ipos /\ opos' = opos /\ ret' = ret
    BY <2>4 DEF userVars
  <2> HIDE DEF r, skipped, P, x
  <2> QED
    BY <2>4, <2>5, <2>6, <2>7, <2>8, <1>1, <1>2, <1>5, <1>u, TookStep
<1> QED
  BY <1>9, <1>10

\* Output is flushed; when all of it is, the buffer may start again.
LEMMA FlushStep ==
  ASSUME IInv, Flush
  PROVE  IInv'
<1> DEFINE op == call.op
           oend == call.oend
           flushed == Smaller(oend - op, outEnd - outStart)
           full == outStart + flushed
           n == outBuffSize
           f == ThisFrame
           dec == dctx.decodedSize
           out == f.out
           y == op + flushed
<1>1. /\ Types /\ Bounds /\ call.on /\ call.more /\ Cur = call.ip /\ Done = op /\ FlushStage
      /\ call.ip <= call.iend /\ op <= oend /\ streamStage = "flush"
  BY AtStage DEF Flush, Stages
<1>t. /\ op \in Nat /\ oend \in Nat /\ outStart \in Nat /\ outEnd \in Nat /\ n \in Nat
      /\ call.ip \in Nat /\ call.iend \in Nat /\ hostageByte \in {0, 1} /\ dctx \in Context
      /\ dec \in Nat /\ fParams \in Params /\ outEnd <= n /\ call.more \in BOOLEAN
      /\ src \in Sources
  BY <1>1, StateTypes, CallTypes DEF Bounds
<1>2. /\ frame > 0 /\ inPos = 0 /\ outStart <= outEnd /\ InRoom
      /\ DecodingAt(Cur + hostageByte, outEnd)
      /\ op + (outEnd - outStart) = out + dec /\ out <= op
      /\ Bytes(mem, outStart, outEnd, op - outStart)
      /\ hostageByte = 1 => dctx.expected = 0
      /\ dctx.expected = 0 /\ hostageByte = 0 => call.istart < call.ip
  BY <1>1 DEF FlushStage
<1>3. f \in Frame /\ out \in Nat
  BY <1>1, <1>2, FrameAtHand
<1>4. /\ flushed \in Nat /\ full \in Nat /\ outStart <= full /\ full <= outEnd
      /\ y \in Nat /\ op <= y /\ y <= oend
      /\ y + (outEnd - full) = out + dec /\ out <= y /\ y - full = op - outStart
  <2> HIDE DEF op, oend, out, dec
  <2> QED
    BY <1>1, <1>2, <1>3, <1>t DEF Smaller
<1>u. /\ api' = api /\ src' = src /\ sources' = sources /\ ipos' = ipos /\ opos' = opos
      /\ ret' = ret /\ dctx' = dctx /\ mem' = mem /\ frame' = frame /\ lhSize' = lhSize
      /\ inPos' = inPos /\ hostageByte' = hostageByte
      /\ inBuffSize' = inBuffSize /\ outBuffSize' = outBuffSize /\ fParams' = fParams
      /\ legacyVersion' = legacyVersion /\ previousLegacyVersion' = previousLegacyVersion
      /\ failures' = failures
  BY DEF Flush, userVars, buffVars, legacyVars
<1>5. IF full = outEnd
      THEN /\ streamStage' = "read"
           /\ IF Wraps(full) THEN outStart' = 0 /\ outEnd' = 0
              ELSE outStart' = full /\ outEnd' = outEnd
           /\ call' = [call EXCEPT !.op = y]
      ELSE /\ outStart' = full
           /\ call' = [call EXCEPT !.op = y, !.more = FALSE]
           /\ streamStage' = streamStage /\ outEnd' = outEnd
  BY DEF Flush
<1>6. Buffers
  BY <1>1, BuffersNow
<1>c. call \in CallRecord
  BY <1>1 DEF Types
<1>s. ThisFrame' = f /\ InRoom' = InRoom
  BY <1>u DEF ThisFrame, InRoom
<1>d. Decoding(dctx, mem, n, fParams, f, Cur + hostageByte, outEnd)
  BY <1>2 DEF DecodingAt
<1> HIDE DEF f, n, dec, out, flushed, y, full
<1>7. CASE full = outEnd
  <2> DEFINE V == NextPlace(n, fParams, outEnd)
  <2>1. streamStage' = "read" /\ outStart' = V /\ outEnd' = V
    BY <1>5, <1>7 DEF NextPlace, Wraps, n
  <2>2. /\ V \in Nat /\ V <= n
        /\ Decoding(dctx, mem, n, fParams, f, Cur + hostageByte, V)
        /\ Room(dctx, n, f, V)
    BY <1>d, <1>t, <1>3, Wrapped
  <2> HIDE DEF V
  <2>3. Moved(call, call', call.ip, y, call.more)
    <3>1. call' = [call EXCEPT !.op = y]
      BY <1>5, <1>7
    <3> QED
      BY <3>1, <1>c, <1>t, <1>4, CallMoves, Zenon
  <2>4. call'.on /\ call'.more /\ call'.ip = call.ip /\ call'.op = y
    BY <2>3, <1>1 DEF Moved
  <2>5. Cur' = Cur /\ Done' = y
    BY <2>4, <1>1 DEF Cur, Done
  <2>6. y = out + dec
    BY <1>4, <1>7, <1>t
  <2>7. ReadStage'
    <3>1. DecodingAt(Cur + hostageByte, outStart)'
      BY <2>1, <2>2, <2>5, <1>s, <1>u DEF DecodingAt, n
    <3>2. Room(dctx, outBuffSize, ThisFrame, outStart)'
      BY <2>1, <2>2, <1>s, <1>u DEF n
    <3>3. (Done = ThisFrame.out + dctx.decodedSize)'
      BY <2>5, <2>6, <1>s, <1>u DEF out, dec
    <3> QED
      BY <2>1, <2>4, <3>1, <3>2, <3>3, <1>2, <1>s, <1>u DEF ReadStage
  <2>8. StreamInv'
    BY <2>1, <2>7 DEF StreamInv
  <2>9. Buffers'
    BY <2>1, <2>2, <1>6, <1>u DEF Buffers, Stages, n
  <2>10. call.ip <= call.ip
    BY <1>t
  <2> QED
    BY <2>3, <2>8, <2>9, <2>10, <1>1, <1>t, <1>4, <1>u, RunningStep
<1>8. CASE full # outEnd
  <2>1. streamStage' = "flush" /\ outStart' = full /\ outEnd' = outEnd
    BY <1>1, <1>5, <1>8
  <2>3. Moved(call, call', call.ip, y, FALSE)
    <3>1. call' = [call EXCEPT !.op = y, !.more = FALSE]
      BY <1>5, <1>8
    <3> QED
      BY <3>1, <1>c, <1>t, <1>4, CallMoves, Zenon
  <2>4. call'.on /\ call'.ip = call.ip /\ call'.op = y /\ call'.istart = call.istart
    BY <2>3, <1>1 DEF Moved
  <2>5. Cur' = Cur /\ Done' = y
    BY <2>4, <1>1 DEF Cur, Done
  <2>6. Bytes(mem, full, outEnd, y - full)
    <3>1. \A a \in full .. outEnd - 1 : a \in outStart .. outEnd - 1
      BY <1>4, <1>t
    <3>2. y - full = op - outStart
      BY <1>4
    <3> HIDE DEF op
    <3> QED
      BY <3>1, <3>2, <1>2 DEF Bytes
  <2>7. FlushStage'
    <3>1. DecodingAt(Cur + hostageByte, outEnd)'
      BY <2>1, <2>5, <1>d, <1>s, <1>u DEF DecodingAt, n
    <3>2. (Done + (outEnd - outStart) = ThisFrame.out + dctx.decodedSize)'
      BY <2>1, <2>5, <1>4, <1>s, <1>u DEF out, dec
    <3>3. (ThisFrame.out <= Done /\ outStart <= outEnd /\ outStart # outEnd)'
      BY <2>1, <2>5, <1>4, <1>8, <1>s DEF out
    <3>4. Bytes(mem, outStart, outEnd, Done - outStart)'
      BY <2>1, <2>5, <2>6, <1>u
    <3> QED
      BY <2>4, <3>1, <3>2, <3>3, <3>4, <1>2, <1>s, <1>u DEF FlushStage
  <2>8. StreamInv'
    BY <2>1, <2>7 DEF StreamInv
  <2>9. Buffers'
    <3>1. full \in Nat /\ full <= n
      BY <1>4, <1>t
    <3> QED
      BY <2>1, <3>1, <1>6, <1>u DEF Buffers, Stages, n
  <2>10. call.ip <= call.ip
    BY <1>t
  <2> QED
    BY <2>3, <2>8, <2>9, <2>10, <1>1, <1>t, <1>4, <1>u, RunningStep
<1> QED
  BY <1>7, <1>8


\* The call returns: what was read and written is the caller's to see.
LEMMA ReturnStep ==
  ASSUME IInv, Return, streamStage # "loadHeader"
  PROVE  IInv'
<1> DEFINE ip == call.ip
           iend == call.iend
           ex == dctx.expected
           h == hostageByte
           size == SourceSize(src)
<1>1. call.on /\ ~call.more /\ Types /\ Bounds /\ api = "stream" /\ ~IsError(ret)
  BY DEF IInv, Bounds, Return
<1>u. /\ opos' = call.op /\ call' = Idle
      /\ api' = api /\ src' = src /\ sources' = sources /\ dctx' = dctx /\ mem' = mem
      /\ frame' = frame /\ lhSize' = lhSize /\ inPos' = inPos
      /\ outStart' = outStart /\ outEnd' = outEnd
      /\ inBuffSize' = inBuffSize /\ outBuffSize' = outBuffSize /\ fParams' = fParams
      /\ legacyVersion' = legacyVersion /\ previousLegacyVersion' = previousLegacyVersion
      /\ failures' = failures
  BY DEF Return, buffVars, legacyVars
<1>t. /\ ip \in Nat /\ iend \in Nat /\ ex \in Nat /\ h \in {0, 1} /\ size \in Nat
      /\ call.op \in Nat /\ inPos \in Nat /\ src \in Sources /\ dctx \in Context
      /\ ip <= iend /\ iend <= size /\ call.istart \in Nat /\ call.istart <= ip
  BY <1>1, StateTypes, CallTypes DEF Bounds
<1>2. /\ Cur = ip /\ Done = call.op /\ Cur' = ipos' /\ Done' = call.op
      /\ ThisFrame' = ThisFrame /\ InRoom' = InRoom /\ ~call'.on
  BY <1>1, <1>u, IdleFields DEF Cur, Done, ThisFrame, InRoom
<1>3. (CASE streamStage = "init" -> InitStage
         [] streamStage = "loadHeader" -> HeaderStage
         [] streamStage = "read" -> ReadStage
         [] streamStage = "load" -> LoadStage
         [] streamStage = "flush" -> FlushStage)
  BY <1>1 DEF IInv, StreamInv
<1>4. streamStage \in {"init", "read", "load", "flush"}
  BY <1>1 DEF Types, Stages
<1>5. /\ streamStage = "init" => InitStage
      /\ streamStage = "read" => ReadStage
      /\ streamStage = "load" => LoadStage
      /\ streamStage = "flush" => FlushStage
  BY <1>3
<1>6. /\ streamStage = "init" => ex = 0 /\ outEnd = outStart
      /\ streamStage = "read" => ex > 0 /\ inPos = 0
      /\ streamStage = "load" => inPos < ex
      /\ streamStage = "flush" => outStart # outEnd /\ inPos = 0
  BY <1>1, <1>5 DEF InitStage, ReadStage, LoadStage, FlushStage
<1>7. Buffers
  BY <1>1, BuffersNow
<1>8. ASSUME streamStage' \in Stages, hostageByte' \in {0, 1} PROVE Buffers'
  BY <1>7, <1>8, <1>u DEF Buffers
<1>9. \/ ex > 0 /\ ipos' = ip /\ ret' = Hint /\ hostageByte' = h /\ streamStage' = streamStage
      \/ /\ ex = 0 /\ outEnd = outStart /\ h = 0
         /\ ipos' = ip /\ ret' = 0 /\ hostageByte' = h /\ streamStage' = streamStage
      \/ /\ ex = 0 /\ outEnd = outStart /\ h = 1 /\ ip >= iend
         /\ ipos' = ip /\ ret' = 1 /\ streamStage' = "read" /\ hostageByte' = h
      \/ /\ ex = 0 /\ outEnd = outStart /\ h = 1 /\ ~(ip >= iend)
         /\ ipos' = ip + 1 /\ ret' = 0 /\ hostageByte' = h /\ streamStage' = streamStage
      \/ /\ ex = 0 /\ outEnd # outStart
         /\ ipos' = (IF h = 0 THEN ip - 1 ELSE ip)
         /\ hostageByte' = 1 /\ ret' = 1 /\ streamStage' = streamStage
  <2>1. (CASE ex > 0 ->
                ipos' = ip /\ ret' = Hint /\ hostageByte' = h /\ streamStage' = streamStage
          [] ex = 0 /\ outEnd = outStart /\ h = 0 ->
                ipos' = ip /\ ret' = 0 /\ hostageByte' = h /\ streamStage' = streamStage
          [] ex = 0 /\ outEnd = outStart /\ h = 1 ->
                IF ip >= iend
                THEN ipos' = ip /\ ret' = 1 /\ streamStage' = "read" /\ hostageByte' = h
                ELSE ipos' = ip + 1 /\ ret' = 0 /\ hostageByte' = h /\ streamStage' = streamStage
          [] ex = 0 /\ outEnd # outStart ->
                /\ ipos' = (IF h = 0 THEN ip - 1 ELSE ip)
                /\ hostageByte' = 1 /\ ret' = 1 /\ streamStage' = streamStage)
    BY DEF Return
  <2>2. ex > 0 \/ ex = 0
    <3>1. ex \in Nat
      BY <1>t
    <3> HIDE DEF ex
    <3> QED
      BY <3>1
  <2>3. ~(ex > 0 /\ ex = 0)
    OBVIOUS
  <2>4. h = 0 \/ h = 1
    BY <1>t
  <2> HIDE DEF ex, h, ip, iend
  <2> QED
    BY <2>1, <2>2, <2>3, <2>4
<1>b. streamStage = "init" => \E i \in 1 .. Len(src) : ip + h = FramesSize(src, i)
                                                     /\ call.op = FramesContent(src, i)
  BY <1>1, <1>2, <1>5 DEF InitStage, Boundary
<1>10. CASE ex > 0
  <2>1. ipos' = ip /\ ret' = Hint /\ hostageByte' = h /\ streamStage' = streamStage
    <3> HIDE DEF ex, h, ip, iend
    <3> QED
      BY <1>9, <1>10
  <2>2. streamStage # "init" /\ inPos < ex
    <3> HIDE DEF ex
    <3> QED
      BY <1>4, <1>6, <1>10
  <2>3. ret' \in Int /\ ret' > 0 /\ ~IsError(ret')
    <3> DEFINE more == IF dctx.stage = "decompressBlock" THEN BlockHeader ELSE 0
    <3>1. ret' = ex + more - inPos /\ more \in Nat
      BY <2>1 DEF Hint, BlockHeader
    <3> HIDE DEF ex, more
    <3> QED
      BY <3>1, <2>2, <1>t DEF IsError
  <2>4. Cur' = Cur /\ Done' = Done
    BY <2>1, <1>2
  <2>5. StreamInv'
    <3>1. CASE streamStage = "read"
      <4>1. ReadStage'
        BY <3>1, <2>1, <2>4, <1>2, <1>5, <1>u DEF ReadStage, DecodingAt
      <4> QED
        BY <4>1, <3>1, <2>1 DEF StreamInv
    <3>2. CASE streamStage = "load"
      <4>1. LoadStage'
        BY <3>2, <2>1, <2>4, <1>2, <1>5, <1>u DEF LoadStage, DecodingAt
      <4> QED
        BY <4>1, <3>2, <2>1 DEF StreamInv
    <3>3. CASE streamStage = "flush"
      <4>1. dctx'.expected # 0
        BY <1>u, <1>10
      <4>2. FlushStage'
        BY <4>1, <3>3, <2>1, <2>4, <1>1, <1>2, <1>5, <1>6, <1>u DEF FlushStage, DecodingAt
      <4> QED
        BY <4>2, <3>3, <2>1 DEF StreamInv
    <3> QED
      BY <3>1, <3>2, <3>3, <2>2, <1>4
  <2>6. ZeroMeansFrameDone' /\ ValidNeverFails'
    BY <2>3 DEF ZeroMeansFrameDone, ValidNeverFails
  <2>7. Buffers'
    BY <2>1, <1>4, <1>8, <1>t DEF Stages
  <2>8. ipos' \in Nat /\ ipos' <= SourceSize(src) /\ opos' \in Nat
    <3>1. ipos' = ip /\ opos' = call.op
      BY <2>1, <1>u
    <3>2. ip <= size
      <4> HIDE DEF ip, iend, size
      <4> QED
        BY <1>t
    <3> QED
      BY <3>1, <3>2, <1>t
  <2> QED
    BY <2>3, <2>5, <2>6, <2>7, <2>8, <1>1, <1>u, ReturningStep
<1>11. CASE ex = 0 /\ outEnd = outStart
  <2>1. streamStage = "init" /\ InitStage
    <3>1. streamStage = "init"
      <4> HIDE DEF ex
      <4> QED
        BY <1>4, <1>6, <1>11, <1>t
    <3> QED
      BY <3>1, <1>5
  <2>2. PICK i \in 1 .. Len(src) : ip + h = FramesSize(src, i) /\ call.op = FramesContent(src, i)
    BY <2>1, <1>b
  <2>3. \/ streamStage' = "init" /\ ipos' = ip + h /\ ret' = 0
        \/ streamStage' = "read" /\ ipos' = ip /\ ret' = 1 /\ h = 1
    <3> HIDE DEF ex, h, ip, iend
    <3> QED
      BY <1>9, <1>11, <2>1, <1>t
  <2>4. hostageByte' = h
    <3> HIDE DEF ex, h, ip, iend
    <3> QED
      BY <1>9, <1>11
  <2>5. ~IsError(ret') /\ ret' \in Int
    BY <2>3 DEF IsError
  <2>6. FramesSize(src, i) \in Nat /\ FramesSize(src, i) <= SourceSize(src)
    <3>1. i \in 0 .. Len(src) /\ i > 0 /\ Len(src) \in Nat
      BY <1>1, StateTypes
    <3>2. FramesSize(src, i) \in Nat /\ FramesSize(src, i) = FrameEnd(src[i])
      BY <3>1, <1>t, NextFrame
    <3>3. FrameEnd(src[i]) <= SourceSize(src)
      BY <1>t, SourceBound
    <3> QED
      BY <3>2, <3>3
  <2>7. ipos' \in Nat /\ ipos' <= SourceSize(src) /\ opos' \in Nat
    <3>1. opos' \in Nat
      BY <1>u, <1>t
    <3>2. ip <= size
      <4> HIDE DEF ip, iend, size
      <4> QED
        BY <1>t
    <3> QED
      BY <3>1, <3>2, <2>2, <2>3, <2>6, <1>t
  <2>8. CASE streamStage' = "init"
    <3>1. ipos' = ip + h /\ ret' = 0
      BY <2>3, <2>8
    <3>2. ZeroMeansFrameDone'
      BY <3>1, <2>2, <1>u DEF ZeroMeansFrameDone, Whole
    <3>3. InitStage'
      <4>1. i \in 0 .. Len(src)
        OBVIOUS
      <4>2. Boundary(Cur, Done, 0)'
        BY <4>1, <3>1, <2>2, <1>2, <1>u DEF Boundary
      <4> QED
        BY <4>2, <1>2 DEF InitStage
    <3>4. StreamInv'
      BY <2>8, <3>3 DEF StreamInv
    <3>5. Buffers'
      BY <2>4, <2>8, <1>8, <1>t DEF Stages
    <3>6. ValidNeverFails'
      BY <2>5 DEF ValidNeverFails
    <3> QED
      BY <3>2, <3>4, <3>5, <3>6, <2>5, <2>7, <1>1, <1>u, ReturningStep
  <2>9. CASE streamStage' = "read"
    <3>1. ipos' = ip /\ ret' = 1 /\ h = 1
      BY <2>3, <2>9
    <3>2. /\ frame > 0 /\ inPos = 0 /\ InRoom
          /\ DecodingAt(Cur + 1, outStart) /\ Done = ThisFrame.out + dctx.decodedSize
      BY <3>1, <2>1, <1>1 DEF InitStage
    <3>3. Room(dctx, outBuffSize, ThisFrame, outStart)
      <4>1. frame \in 1 .. Len(src) /\ ThisFrame = src[frame]
        BY <3>2, <1>1, FrameAtHand
      <4>2. Decoding(dctx, mem, outBuffSize, fParams, src[frame], Cur + 1, outStart)
        BY <3>2, <4>1 DEF DecodingAt
      <4>4. Cur + 1 \in Nat
        BY <1>2, <1>t
      <4>3. ~InBlocks(dctx)
        BY <4>1, <4>2, <4>4, <1>11, <1>t, Ended
      <4> QED
        BY <4>3 DEF Room
    <3>4. Cur' = Cur /\ Done' = Done
      BY <3>1, <1>2
    <3>5. ReadStage'
      BY <3>1, <3>2, <3>3, <3>4, <2>4, <1>2, <1>11, <1>u DEF ReadStage, DecodingAt
    <3>6. StreamInv'
      BY <2>9, <3>5 DEF StreamInv
    <3>7. Buffers'
      BY <2>4, <2>9, <1>8, <1>t DEF Stages
    <3>8. ZeroMeansFrameDone' /\ ValidNeverFails'
      BY <2>5, <3>1 DEF ZeroMeansFrameDone, ValidNeverFails
    <3> QED
      BY <3>6, <3>7, <3>8, <2>5, <2>7, <1>1, <1>u, ReturningStep
  <2> QED
    BY <2>3, <2>8, <2>9
<1>12. CASE ex = 0 /\ outEnd # outStart
  <2>1. streamStage = "flush" /\ FlushStage
    <3>1. streamStage = "flush"
      <4>1. inPos \in Nat /\ ~(ex > 0)
        BY <1>12, <1>t
      <4> HIDE DEF ex
      <4>2. ~(inPos < ex)
        BY <4>1, <1>12
      <4> QED
        BY <4>1, <4>2, <1>4, <1>6, <1>12
    <3> QED
      BY <3>1, <1>5
  <2>2. /\ ipos' = (IF h = 0 THEN ip - 1 ELSE ip)
        /\ hostageByte' = 1 /\ ret' = 1 /\ streamStage' = streamStage
    <3> HIDE DEF ex, h, ip, iend
    <3> QED
      BY <1>9, <1>12
  <2>3. h = 0 => call.istart < ip
    BY <2>1, <1>12 DEF FlushStage
  <2>4. ipos' \in Nat /\ ipos' + 1 = ip + h /\ ipos' <= size
    <3> DEFINE is == call.istart
    <3>1. is \in Nat /\ (h = 0 => is < ip)
      BY <2>3, <1>t
    <3> HIDE DEF h, ip, iend, is, size
    <3> QED
      BY <3>1, <2>2, <1>t
  <2>5. Cur' + hostageByte' = Cur + hostageByte
    BY <2>2, <2>4, <1>2
  <2>6. FlushStage'
    <3>1. DecodingAt(Cur + hostageByte, outEnd)'
      BY <2>1, <2>5, <1>2, <1>u DEF FlushStage, DecodingAt
    <3>2. (dctx.expected = 0 /\ hostageByte = 1)'
      BY <2>2, <1>12, <1>u
    <3> QED
      BY <3>1, <3>2, <2>1, <1>2, <1>12, <1>u DEF FlushStage
  <2>7. StreamInv'
    BY <2>1, <2>2, <2>6 DEF StreamInv
  <2>8. Buffers'
    BY <2>1, <2>2, <1>8 DEF Stages
  <2>9. ZeroMeansFrameDone' /\ ValidNeverFails' /\ ret' \in Int /\ ~IsError(ret')
    BY <2>2 DEF ZeroMeansFrameDone, ValidNeverFails, IsError
  <2>10. opos' \in Nat
    BY <1>u, <1>t
  <2> QED
    BY <2>4, <2>7, <2>8, <2>9, <2>10, <1>1, <1>u, ReturningStep
<1> QED
  <2>1. ex > 0 \/ ex = 0
    <3>1. ex \in Nat
      BY <1>t
    <3> HIDE DEF ex
    <3> QED
      BY <3>1
  <2> QED
    BY <2>1, <1>10, <1>11, <1>12


\* All of this lies inside the source.
LEMMA InsideSource ==
  ASSUME NEW s \in Sources, NEW i \in 1 .. Len(s), NEW d \in Context, NEW m, NEW n, NEW p,
         NEW P \in Nat, NEW W, Decoding(d, m, n, p, s[i], P, W)
  PROVE  /\ P <= SourceSize(s) /\ s[i].out + d.decodedSize \in Nat /\ d.expected \in Nat
         /\ d.expected = 0 => /\ P = FramesSize(s, i)
                              /\ s[i].out + d.decodedSize = FramesContent(s, i)
<1> DEFINE f == s[i]
           ex == d.expected
           end == FrameEnd(f)
           size == SourceSize(s)
           dec == d.decodedSize
           out == f.out
<1>1. /\ P + ex <= end /\ ex \in Nat /\ dec \in Nat
      /\ end \in Nat /\ out \in Nat /\ end <= size /\ size \in Nat
  <2>1. f \in Frame
    BY SourceTypes
  <2> QED
    BY <2>1, Inside, ContextTypes, FrameTypes, SourceBound
<1>2. ex = 0 => P = end /\ dec = f.content
  <2> SUFFICES ASSUME ex = 0 PROVE P = end /\ dec = f.content
    OBVIOUS
  <2>1. P = end
    BY Ended, Zenon
  <2>2. dec = f.content
    BY Ended, Zenon
  <2> QED
    BY <2>1, <2>2
<1>3. FramesSize(s, i) = end /\ FramesContent(s, i) = out + f.content
  <2>1. i \in 0 .. Len(s) /\ i > 0
    BY SourceTypes
  <2> QED
    BY <2>1, NextFrame DEF FrameOutEnd
<1> HIDE DEF f, ex, end, size, dec, out
<1>4. P <= size /\ out + dec \in Nat /\ ex \in Nat
  BY <1>1
<1> QED
  BY <1>2, <1>3, <1>4 DEF f, ex, end, size, dec, out


\* No frame is a legacy one, so their decoders are never begun.
LEMMA NoLegacyStep ==
  ASSUME CurrentOnly, IInv
  PROVE  ~LegacyDetect /\ ~LegacyStep /\ ~LegacyReturn
<1>1. ~LegacyDetect
  <2> SUFFICES ASSUME InHeader, IsError(Header.ret) PROVE FALSE
    BY DEF LegacyDetect
  <2>1. Types /\ HeaderStage
    BY AtStage DEF InHeader, Stages
  <2>2. frame \in Nat
    BY <2>1 DEF Types
  <2>3. Header.ret \in Nat
    <3>1. frame = 0 \/ frame > 0
      BY <2>2
    <3> QED
      BY <3>1, <2>1, HeaderSays DEF HeaderPrefix
  <2> DEFINE h == Header.ret
  <2>4. h \in Nat /\ IsError(h)
    BY <2>3
  <2> HIDE DEF h
  <2> QED
    BY <2>4 DEF IsError
<1>2. ~LegacyStep
  <2>1. ~(legacyVersion > 0)
    BY DEF IInv, Types
  <2> QED
    BY <2>1 DEF LegacyStep, InLegacy
<1>3. ~LegacyReturn
  <2> SUFFICES ASSUME call.on, ~call.more, streamStage = "loadHeader" PROVE FALSE
    BY DEF LegacyReturn
  <2>1. api = "stream" /\ ~IsError(ret)
    BY DEF IInv, Bounds
  <2>2. HeaderStage
    BY <2>1 DEF IInv, StreamInv
  <2> QED
    BY <2>2 DEF HeaderStage
<1> QED
  BY <1>1, <1>2, <1>3

\* A turn of the bufferless loop, in frame i.
LEMMA LoopStep ==
  ASSUME IInv, api = "bufferless", api' = api, src' = src, sources' = sources, call' = call,
         streamStage' = streamStage, frame' = frame, lhSize' = lhSize, inPos' = inPos,
         outEnd' = outEnd, hostageByte' = hostageByte, inBuffSize' = inBuffSize,
         legacyVersion' = legacyVersion, previousLegacyVersion' = previousLegacyVersion,
         failures' = failures,
         ipos' \in Nat, ipos' <= SourceSize(src), opos' \in Nat, ret' \in Nat,
         dctx' \in Context, outBuffSize' \in Nat, mem' \in [0 .. outBuffSize' - 1 -> Int],
         outStart' \in Nat, outStart' <= outBuffSize', fParams' \in Params,
         NEW i \in 1 .. Len(src), InHeaderOf(i)' \/ InFrame(i)', ret' = 0 => Whole(i)'
  PROVE  IInv'
<1>1. Types /\ Bounds /\ streamStage = "init" /\ outEnd = 0 /\ ~call.on
  <2>1. Types /\ Bounds /\ LoopInv
    BY DEF IInv
  <2>2. streamStage = "init" /\ outEnd = 0
    BY <2>1 DEF LoopInv
  <2>3. ~call.on
    BY <2>1 DEF Bounds
  <2> QED
    BY <2>1, <2>2, <2>3
<1>3. ~IsError(ret') /\ ret' \in Int
  <2>1. ret' \in Nat
    OBVIOUS
  <2> QED
    BY <2>1 DEF IsError
<1>2. Types'
  <2>1. /\ api \in Api /\ src \in Sources /\ sources \in 1 .. MaxSources /\ call \in CallRecord
        /\ streamStage \in Stages /\ frame \in 0 .. Len(src) /\ lhSize \in 0 .. HeaderMax
        /\ inPos \in Nat /\ outEnd \in Nat /\ hostageByte \in {0, 1} /\ inBuffSize \in Nat
        /\ legacyVersion = 0 /\ previousLegacyVersion = 0 /\ failures \in 0 .. MaxAllocFail
    BY <1>1 DEF Types
  <2> QED
    BY <1>3, <2>1 DEF Types
<1>4. Bounds'
  <2>1. 0 <= outBuffSize'
    OBVIOUS
  <2> QED
    BY <1>1, <2>1 DEF Bounds
<1>5. LoopInv'
  <2>1. \E j \in 1 .. Len(src') : InHeaderOf(j)' \/ InFrame(j)'
    OBVIOUS
  <2> QED
    BY <1>1, <1>3, <2>1 DEF LoopInv
<1>6. RetInv'
  BY <1>3 DEF RetInv, ZeroMeansFrameDone, ValidNeverFails
<1>7. StreamInv'
  BY DEF StreamInv
<1> QED
  BY <1>2, <1>4, <1>5, <1>6, <1>7 DEF IInv

\* Where it leaves the context in the frame, and the buffer starts again if need be.
LEMMA LoopInFrameStep ==
  ASSUME IInv, api = "bufferless", api' = api, src' = src, sources' = sources, call' = call,
         streamStage' = streamStage, frame' = frame, lhSize' = lhSize, inPos' = inPos,
         outEnd' = outEnd, hostageByte' = hostageByte, inBuffSize' = inBuffSize,
         outBuffSize' = outBuffSize, fParams' = fParams,
         legacyVersion' = legacyVersion, previousLegacyVersion' = previousLegacyVersion,
         failures' = failures, NEW i \in 1 .. Len(src), NEW W \in Nat, W <= outBuffSize,
         dctx' \in Context, mem' \in [0 .. outBuffSize - 1 -> Int], ipos' \in Nat,
         Decoding(dctx', mem', outBuffSize, fParams, src[i], ipos', W),
         dctx'.stage = "skipFrame" => dctx'.at = Element("header", i, 0),
         opos' = src[i].out + dctx'.decodedSize,
         ret' = dctx'.expected, outStart' = NextPlace(outBuffSize, fParams, W)
  PROVE  IInv'
<1> DEFINE n == outBuffSize
           f == src[i]
<1>1. Types
  BY DEF IInv
<1>2. src \in Sources /\ n \in Nat /\ fParams \in Params
  BY <1>1, StateTypes
<1>3. f \in Frame
  BY <1>2, SourceTypes
<1>4. /\ outStart' \in Nat /\ outStart' <= n
      /\ Decoding(dctx', mem', n, fParams, f, ipos', outStart') /\ Room(dctx', n, f, outStart')
  <2> HIDE DEF f
  <2>1. Decoding(dctx', mem', n, fParams, f, ipos', W)
    BY DEF f
  <2> QED
    BY <2>1, <1>2, <1>3, Wrapped
<1>5. InFrame(i)'
  BY <1>4 DEF InFrame
<1>6. /\ ipos' <= SourceSize(src) /\ f.out + dctx'.decodedSize \in Nat /\ dctx'.expected \in Nat
      /\ dctx'.expected = 0 => /\ ipos' = FramesSize(src, i)
                               /\ f.out + dctx'.decodedSize = FramesContent(src, i)
  BY <1>2, <1>4, InsideSource
<1>7. ipos' <= SourceSize(src) /\ opos' \in Nat /\ ret' \in Nat
  BY <1>6
<1>8. ret' = 0 => Whole(i)'
  BY <1>6 DEF Whole
<1> HIDE DEF f
<1> QED
  BY <1>2, <1>4, <1>5, <1>7, <1>8, LoopStep


\* The header of frame i, all of which is there.
LEMMA WholeHeader ==
  ASSUME NEW s \in Sources, NEW i \in 1 .. Len(s), s[i].kind \in {Zstd, Skippable}
  PROVE  LET h == GetFrameHeader(s, i, s[i].size) IN h.ret = 0 /\ h.params = HeaderParams(s[i])
<1> DEFINE f == s[i]
           hsize == f.hsize
           n == f.size
           q == HeaderParams(f)
<1>1. /\ f \in Frame /\ hsize >= 5 /\ hsize \in Nat /\ n \in Nat /\ f.at \in Nat
      /\ f.at + hsize <= f.at + n
      /\ f.kind = Skippable => hsize = SkipHeader
  BY KindFacts, FrameSize, FrameTypes DEF FrameEnd, SkippableFrame
<1>2. ~(n < HeaderPrefix) /\ ~(n < hsize) /\ (f.kind = Skippable => ~(n < SkipHeader))
  <2> DEFINE at == f.at
  <2>1. at \in Nat /\ at + hsize <= at + n
    BY <1>1
  <2> HIDE DEF hsize, n, f, at
  <2>2. ~(n < hsize)
    BY <2>1, <1>1
  <2> QED
    BY <2>2, <1>1 DEF HeaderPrefix
<1>3. CASE f.kind = Skippable
  <2>1. q = FrameParams(0, f.skip, 0, FALSE)
    BY <1>3 DEF HeaderParams
  <2> HIDE DEF q
  <2> QED
    BY <2>1, <1>2, <1>3 DEF GetFrameHeader, q
<1>4. CASE f.kind # Skippable
  <2>1. q = FrameParams(f.window, f.fcs, Smaller(f.window, BlockMax), f.cksum) /\ f.kind = Zstd
    BY <1>4 DEF HeaderParams, BlockSizeMax
  <2> HIDE DEF q
  <2> QED
    BY <2>1, <1>2, <1>4 DEF GetFrameHeader, q
<1> QED
  BY <1>3, <1>4

\* The context when the first bytes of the header of frame i have been read.
HeaderBegun(s, d, i) ==
  IF s[i].kind = Skippable
  THEN [d EXCEPT !.expected = SkipHeader - HeaderPrefix, !.at = Element("header", i, 0),
                 !.stage = "decodeSkippableHeader"]
  ELSE [d EXCEPT !.headerSize = s[i].hsize, !.expected = s[i].hsize - HeaderPrefix,
                 !.at = Element("header", i, 0), !.stage = "decodeFrameHeader"]

LEMMA HeaderBegunFields ==
  ASSUME NEW s \in Sources, NEW i \in 1 .. Len(s), s[i].kind \in {Zstd, Skippable},
         NEW d \in Context, NoLap(d)
  PROVE  LET c == HeaderBegun(s, d, i) IN
         /\ c \in Context /\ NoLap(c) /\ c.at = Element("header", i, 0) /\ c.expected > 0
         /\ s[i].kind = Skippable => /\ c.stage = "decodeSkippableHeader"
                                     /\ c.expected = SkipHeader - HeaderPrefix
         /\ s[i].kind # Skippable => /\ c.stage = "decodeFrameHeader"
                                     /\ c.expected = s[i].hsize - HeaderPrefix
<1> DEFINE f == s[i]
           hsize == f.hsize
           ex == hsize - HeaderPrefix
           e == Element("header", i, 0)
           c == HeaderBegun(s, d, i)
<1>1. hsize \in Nat /\ (f.kind # Skippable => ex \in Nat /\ ex > 0)
  <2>1. f \in Frame /\ (f.kind # Skippable => FrameOfBlocks(f))
    BY KindFacts
  <2>2. hsize \in Nat
    BY <2>1, FrameTypes
  <2>3. f.kind # Skippable => hsize >= 6
    BY <2>1 DEF FrameOfBlocks
  <2> HIDE DEF hsize
  <2> QED
    BY <2>2, <2>3 DEF HeaderPrefix
<1>2. e \in Elements /\ e = Element("header", i, 0)
  <2>1. i \in Nat
    BY SourceTypes
  <2> QED
    BY <2>1 DEF Element, Elements
<1>3. SkipHeader - HeaderPrefix \in Nat /\ SkipHeader - HeaderPrefix > 0
  BY DEF SkipHeader, HeaderPrefix
<1>4. CASE f.kind = Skippable
  <2> DEFINE x == SkipHeader - HeaderPrefix
  <2>1. c = [d EXCEPT !.expected = x, !.at = e, !.stage = "decodeSkippableHeader"]
    BY <1>4 DEF HeaderBegun
  <2>x. x \in Nat /\ x > 0
    BY <1>3
  <2> HIDE DEF c, e, x
  <2>2. /\ c \in Context /\ c.at = e /\ c.expected = x /\ c.stage = "decodeSkippableHeader"
        /\ c.decodedSize = d.decodedSize /\ c.previousDstEnd = d.previousDstEnd /\ c.base = d.base
    BY <2>1, <2>x, <1>2 DEF Context, ContextStages
  <2>3. NoLap(c)
    BY <2>2 DEF NoLap
  <2> QED
    BY <2>2, <2>3, <2>x, <1>2, <1>4 DEF c, x
<1>5. CASE f.kind # Skippable
  <2>1. c = [d EXCEPT !.headerSize = hsize, !.expected = ex, !.at = e, !.stage = "decodeFrameHeader"]
    BY <1>5 DEF HeaderBegun
  <2>x. ex \in Nat /\ ex > 0 /\ hsize \in Nat
    BY <1>1, <1>5
  <2> HIDE DEF c, e, ex, hsize
  <2>2. /\ c \in Context /\ c.at = e /\ c.expected = ex /\ c.stage = "decodeFrameHeader"
        /\ c.decodedSize = d.decodedSize /\ c.previousDstEnd = d.previousDstEnd /\ c.base = d.base
    BY <2>1, <2>x, <1>2 DEF Context, ContextStages
  <2>3. NoLap(c)
    BY <2>2 DEF NoLap
  <2> QED
    BY <2>2, <2>3, <2>x, <1>2, <1>5 DEF c, ex, hsize
<1> QED
  BY <1>4, <1>5

LEMMA ContinueBegin ==
  ASSUME NEW s \in Sources, NEW i \in 1 .. Len(s), NEW d \in Context,
         d.stage = "getFrameHeaderSize", d.expected = HeaderPrefix, NEW m, NEW W
  PROVE  DecompressContinue(s, d, m, W, 0, s[i].at, d.expected)
           = [ret |-> 0, d |-> HeaderBegun(s, d, i), m |-> m]
<1> DEFINE e == Element("header", i, 0)
           f == s[i]
           x == d.expected
<1>1. Layout[s][f.at] = e
  BY HeaderThere
<1>2. e.el = "header" /\ e.frame = i /\ ~(0 > 0)
  BY DEF Element
<1> HIDE DEF e, x
<1>3. CASE f.kind = Skippable
  <2>1. DecompressContinue(s, d, m, W, 0, f.at, x)
          = [ret |-> 0, d |-> [d EXCEPT !.expected = SkipHeader - x, !.at = e,
                                        !.stage = "decodeSkippableHeader"], m |-> m]
    BY <1>1, <1>2, <1>3 DEF DecompressContinue, x
  <2> QED
    BY <2>1, <1>3 DEF HeaderBegun, e, x
<1>4. CASE f.kind # Skippable
  <2>1. DecompressContinue(s, d, m, W, 0, f.at, x)
          = [ret |-> 0, d |-> [d EXCEPT !.headerSize = f.hsize, !.expected = f.hsize - x,
                                        !.at = e, !.stage = "decodeFrameHeader"], m |-> m]
    BY <1>1, <1>2, <1>4 DEF DecompressContinue, x
  <2> QED
    BY <2>1, <1>4 DEF HeaderBegun, e, x
<1> QED
  BY <1>3, <1>4 DEF x

\* The rest of the header has been read.
LEMMA ContinueHeader ==
  ASSUME NEW s \in Sources, NEW i \in 1 .. Len(s), NEW d \in Context,
         d.at = Element("header", i, 0), NEW m, NEW W \in Nat, NEW P \in Nat
  PROVE  LET r == DecompressContinue(s, d, m, W, 0, P, d.expected) IN
         /\ d.stage = "decodeFrameHeader" =>
              r = [ret |-> 0, d |-> ToBlockHeader(DecodeFrameHeader(s, d, i)), m |-> m]
         /\ d.stage = "decodeSkippableHeader" =>
              r = [ret |-> 0, d |-> SkipBegun(d, s[i]), m |-> m]
<1>1. d.at.frame = i
  BY DEF Element
<1>2. ~(0 > 0)
  OBVIOUS
<1>3. CASE d.stage = "decodeFrameHeader"
  BY <1>1, <1>2, <1>3, Zenon DEF DecompressContinue
<1>4. CASE d.stage = "decodeSkippableHeader"
  BY <1>1, <1>2, <1>4, Zenon DEF DecompressContinue, SkipBegun
<1> QED
  BY <1>3, <1>4


\* A turn of the bufferless loop: r is what ZSTD1_decompressContinue gives.
LEMMA LoopKeeps ==
  ASSUME BufferlessStep
  PROVE  /\ api = "bufferless" /\ ipos < SourceSize(src) /\ ~IsError(ret)
         /\ api' = api /\ src' = src /\ sources' = sources /\ call' = call
         /\ streamStage' = streamStage /\ frame' = frame /\ lhSize' = lhSize /\ inPos' = inPos
         /\ outEnd' = outEnd /\ hostageByte' = hostageByte /\ inBuffSize' = inBuffSize
         /\ legacyVersion' = legacyVersion /\ previousLegacyVersion' = previousLegacyVersion
         /\ failures' = failures
BY Zenon DEF BufferlessStep, legacyVars

LoopCap == IF dctx.stage \in {"decompressBlock", "decompressLastBlock"}
           THEN outBuffSize - outStart ELSE 0

LEMMA LoopContinues ==
  ASSUME BufferlessStep, dctx.stage # "getFrameHeaderSize", NEW r,
         r = DecompressContinue(src, dctx, mem, outStart, LoopCap, ipos, dctx.expected),
         ~IsError(r.ret)
  PROVE  /\ ret' = r.d.expected /\ ipos' = ipos + dctx.expected /\ opos' = opos + r.ret
         /\ dctx' = r.d /\ mem' = r.m /\ outBuffSize' = outBuffSize /\ fParams' = fParams
         /\ outStart' = NextPlace(outBuffSize, fParams, outStart + r.ret)
<1>1. r = DecompressContinue(src, dctx, mem, outStart,
                             IF dctx.stage \in {"decompressBlock", "decompressLastBlock"}
                             THEN outBuffSize - outStart ELSE 0, ipos, dctx.expected)
  BY DEF LoopCap
<1>2. /\ IF IsError(r.ret) THEN ret' = r.ret /\ UNCHANGED <<ipos, opos>>
         ELSE ret' = r.d.expected /\ ipos' = ipos + dctx.expected /\ opos' = opos + r.ret
      /\ dctx' = r.d /\ mem' = r.m
      /\ outStart' = IF IsError(r.ret) THEN outStart
                     ELSE IF Wraps(outStart + r.ret) THEN 0 ELSE outStart + r.ret
      /\ UNCHANGED <<outBuffSize, fParams>>
  BY <1>1 DEF BufferlessStep
<1> QED
  BY <1>2 DEF NextPlace, Wraps

\* At the beginning of a frame.
LEMMA LoopBegins ==
  ASSUME BufferlessStep, dctx.stage = "getFrameHeaderSize", NEW j,
         Layout[src][ipos] = Element("header", j, 0), NEW h,
         h = GetFrameHeader(src, j, src[j].size), ~IsError(h.ret), NEW b,
         b = DecompressBeginUsingDict, b.stage = "getFrameHeaderSize", NEW r,
         r = DecompressContinue(src, b, mem, outStart, 0, ipos, b.expected), ~IsError(r.ret)
  PROVE  LET size == DecodingBufferSizeMin(h.params.windowSize, h.params.frameContentSize) IN
         /\ ret' = r.d.expected /\ ipos' = ipos + b.expected /\ opos' = opos + r.ret
         /\ dctx' = r.d /\ mem' = FreshBuffer(size) /\ outBuffSize' = size
         /\ fParams' = h.params /\ outStart' = 0
<1> DEFINE e == Layout[src][ipos]
           size == DecodingBufferSizeMin(h.params.windowSize, h.params.frameContentSize)
<1>1. e.frame = j
  BY DEF Element
<1>2. /\ IF IsError(r.ret) THEN ret' = r.ret /\ UNCHANGED <<ipos, opos>>
         ELSE ret' = r.d.expected /\ ipos' = ipos + b.expected /\ opos' = opos + r.ret
      /\ dctx' = r.d
      /\ IF ~IsError(r.ret)
         THEN /\ mem' = FreshBuffer(size) /\ outBuffSize' = size /\ fParams' = h.params
              /\ outStart' = 0
         ELSE mem' = r.m /\ UNCHANGED <<outBuffSize, fParams>>
  BY <1>1 DEF BufferlessStep
<1> QED
  BY <1>2


\* The caller's positions do not go back.
Forward == ipos' >= ipos /\ opos' >= opos

LEMMA LoopFrameStep ==
  ASSUME IInv, BufferlessStep, NEW i \in 1 .. Len(src), InFrame(i),
         dctx.stage # "getFrameHeaderSize"
  PROVE  IInv' /\ Forward
<1> DEFINE n == outBuffSize
           P == ipos
           W == outStart
           f == src[i]
           r == DecompressContinue(src, dctx, mem, W, LoopCap, P, dctx.expected)
           V == outStart + r.ret
<1>1. Types /\ Bounds
  BY DEF IInv
<1>2. /\ src \in Sources /\ n \in Nat /\ fParams \in Params /\ dctx \in Context
      /\ mem \in [0 .. outBuffSize - 1 -> Int] /\ P \in Nat /\ W \in Nat /\ W <= n /\ opos \in Nat
  BY <1>1, StateTypes DEF Bounds
<1>3. /\ Decoding(dctx, mem, n, fParams, f, P, W) /\ Room(dctx, n, f, W)
      /\ opos = f.out + dctx.decodedSize
  BY DEF InFrame
<1>4. dctx.expected > 0 \/ dctx.stage = "skipFrame"
  <2>1. f \in Frame
    BY <1>2, SourceTypes
  <2>2. \/ AtSkip(dctx, f, P) \/ AtBlock(dctx, f, P) \/ AtData(dctx, f, P)
        \/ AtChecksum(dctx, f, P)
    BY <1>3 DEF Decoding, Position, AtEnd
  <2>3. AtBlock(dctx, f, P) => dctx.expected > 0
    BY DEF AtBlock, BlockHeader
  <2>4. AtChecksum(dctx, f, P) => dctx.expected > 0
    BY DEF AtChecksum, Checksum
  <2>5. AtData(dctx, f, P) => dctx.expected > 0
    <3> SUFFICES ASSUME NEW b \in 1 .. Len(f.blocks), dctx.expected = f.blocks[b].csize,
                        f.blocks[b].csize > 0
                 PROVE  dctx.expected > 0
      BY DEF AtData
    <3> QED
      OBVIOUS
  <2> QED
    BY <2>2, <2>3, <2>4, <2>5 DEF AtSkip
<1>5. dctx.stage \in {"decompressBlock", "decompressLastBlock"} => LoopCap = n - W
  BY DEF LoopCap
<1>6. Continued(dctx, n, fParams, f, P, W, r.d, r.m, r.ret)
  BY <1>2, <1>3, <1>4, <1>5, Continue
<1> HIDE DEF r, f
<1>7. /\ r.ret \in Nat /\ r.d \in Context /\ r.m \in [0 .. n - 1 -> Int] /\ W + r.ret <= n
      /\ Decoding(r.d, r.m, n, fParams, f, P + dctx.expected, W + r.ret)
      /\ r.d.decodedSize = dctx.decodedSize + r.ret /\ r.d.stage # "skipFrame"
  BY <1>6 DEF Continued
<1>8. ~IsError(r.ret)
  <2>1. r.ret \in Nat
    BY <1>7
  <2> QED
    BY <2>1 DEF IsError
<1>9. /\ ret' = r.d.expected /\ ipos' = P + dctx.expected /\ opos' = opos + r.ret
      /\ dctx' = r.d /\ mem' = r.m /\ outBuffSize' = outBuffSize /\ fParams' = fParams
      /\ outStart' = NextPlace(outBuffSize, fParams, V)
  BY <1>8, LoopContinues DEF r
<1>10. opos' = f.out + dctx'.decodedSize
  <2> DEFINE out == f.out
             dec == dctx.decodedSize
             a == r.ret
  <2>1. /\ out \in Nat /\ dec \in Nat /\ a \in Nat /\ opos' = (out + dec) + a
        /\ dctx'.decodedSize = dec + a
    <3>1. f \in Frame
      BY <1>2, SourceTypes DEF f
    <3> QED
      BY <3>1, <1>2, <1>3, <1>7, <1>9, FrameTypes, ContextTypes
  <2>2. (out + dec) + a = out + (dec + a)
    <3>1. out \in Nat /\ dec \in Nat /\ a \in Nat
      BY <2>1
    <3> HIDE DEF out, dec, a
    <3> QED
      BY <3>1
  <2> QED
    BY <2>1, <2>2
<1>11. ipos' \in Nat
  BY <1>2, <1>9, ContextTypes
<1>12. V \in Nat /\ V <= outBuffSize
  BY <1>2, <1>7
<1>13. /\ dctx' \in Context /\ mem' \in [0 .. outBuffSize - 1 -> Int]
       /\ Decoding(dctx', mem', outBuffSize, fParams, src[i], ipos', V)
       /\ dctx'.stage # "skipFrame"
  BY <1>7, <1>9 DEF f
<1>14. Forward
  <2> DEFINE ex == dctx.expected
             a == r.ret
  <2>1. /\ ex \in Nat /\ a \in Nat /\ ipos \in Nat /\ opos \in Nat
        /\ ipos' = ipos + ex /\ opos' = opos + a
    BY <1>2, <1>7, <1>9, ContextTypes
  <2> HIDE DEF ex, a
  <2> QED
    BY <2>1 DEF Forward
<1> HIDE DEF V
<1>15. IInv'
  BY <1>9, <1>10, <1>11, <1>12, <1>13, LoopKeeps, LoopInFrameStep DEF f
<1> QED
  BY <1>14, <1>15

LEMMA LoopHeaderStep ==
  ASSUME CurrentOnly, IInv, BufferlessStep, NEW i \in 1 .. Len(src), InHeaderOf(i)
  PROVE  IInv' /\ Forward
<1> DEFINE n == outBuffSize
           f == src[i]
           at == f.at
           hsize == f.hsize
           c == IF f.kind = Skippable THEN SkipBegun(dctx, f)
                ELSE ToBlockHeader(DecodeFrameHeader(src, dctx, i))
           r == DecompressContinue(src, dctx, mem, outStart, LoopCap, ipos, dctx.expected)
<1>1. Types /\ Bounds
  BY DEF IInv
<1>2. /\ src \in Sources /\ n \in Nat /\ fParams \in Params /\ dctx \in Context
      /\ mem \in [0 .. n - 1 -> Int] /\ ipos \in Nat
  BY <1>1, StateTypes
<1>3. /\ dctx.at = Element("header", i, 0) /\ ipos = at + HeaderPrefix /\ opos = f.out
      /\ NoLap(dctx) /\ outStart = 0
      /\ f.kind = Skippable => /\ dctx.stage = "decodeSkippableHeader"
                               /\ dctx.expected = SkipHeader - HeaderPrefix
                               /\ fParams.frameContentSize = f.skip
      /\ f.kind # Skippable => /\ dctx.stage = "decodeFrameHeader"
                               /\ dctx.expected = hsize - HeaderPrefix
                               /\ Sized(fParams, n, f)
  BY DEF InHeaderOf
<1>4. f \in Frame /\ f.kind \in {Zstd, Skippable} /\ (f.kind = Skippable => hsize = SkipHeader)
  BY <1>2, KindFacts DEF CurrentOnly, SkippableFrame
<1>5. ipos + dctx.expected = at + hsize /\ at + hsize \in Nat
  <2>1. at \in Nat /\ hsize \in Nat /\ ipos = at + HeaderPrefix
        /\ dctx.expected = hsize - HeaderPrefix
    BY <1>3, <1>4, FrameTypes
  <2> DEFINE ex == dctx.expected
  <2>2. ex = hsize - HeaderPrefix
    BY <2>1
  <2> HIDE DEF at, hsize, ex
  <2>3. ipos + ex = at + hsize /\ at + hsize \in Nat
    BY <2>1, <2>2 DEF HeaderPrefix
  <2> QED
    BY <2>3 DEF ex
<1>6. LoopCap = 0 /\ dctx.stage # "getFrameHeaderSize"
  BY <1>3 DEF LoopCap
<1>7. r = [ret |-> 0, d |-> c, m |-> mem]
  <2>1. LET z == DecompressContinue(src, dctx, mem, outStart, 0, ipos, dctx.expected) IN
        /\ dctx.stage = "decodeFrameHeader" =>
             z = [ret |-> 0, d |-> ToBlockHeader(DecodeFrameHeader(src, dctx, i)), m |-> mem]
        /\ dctx.stage = "decodeSkippableHeader" =>
             z = [ret |-> 0, d |-> SkipBegun(dctx, src[i]), m |-> mem]
    <3>1. /\ src \in Sources /\ dctx \in Context /\ dctx.at = Element("header", i, 0)
          /\ outStart \in Nat /\ ipos \in Nat
      BY <1>1, <1>3, StateTypes
    <3> HIDE DEF f, r, c, at, hsize, n
    <3> QED
      BY <3>1, ContinueHeader
  <2>2. r = DecompressContinue(src, dctx, mem, outStart, 0, ipos, dctx.expected)
    BY <1>6
  <2>3. CASE f.kind = Skippable
    <3>1. dctx.stage = "decodeSkippableHeader" /\ c = SkipBegun(dctx, src[i])
      BY <1>3, <2>3
    <3> HIDE DEF c, r
    <3> QED
      BY <3>1, <2>1, <2>2
  <2>4. CASE f.kind # Skippable
    <3>1. /\ dctx.stage = "decodeFrameHeader"
          /\ c = ToBlockHeader(DecodeFrameHeader(src, dctx, i))
      BY <1>3, <2>4
    <3> HIDE DEF c, r
    <3> QED
      BY <3>1, <2>1, <2>2
  <2> QED
    BY <2>3, <2>4
<1>8. /\ c \in Context /\ c.decodedSize = 0
      /\ Decoding(c, mem, n, fParams, f, at + hsize, 0)
      /\ c.stage = "skipFrame" => c.at = Element("header", i, 0)
  <2>1. CASE f.kind = Skippable
    <3>1. dctx.decodedSize = 0 /\ fParams.frameContentSize = f.skip
      BY <1>3, <2>1 DEF NoLap
    <3>2. LET z == SkipBegun(dctx, src[i]) IN
          /\ z \in Context /\ z.decodedSize = 0 /\ z.at = dctx.at /\ z.stage = "skipFrame"
          /\ Decoding(z, mem, n, fParams, src[i], src[i].at + src[i].hsize, 0)
          /\ Room(z, n, src[i], 0)
      BY <3>1, <2>1, <1>2, BeginSkip
    <3> QED
      BY <3>2, <2>1, <1>3
  <2>2. CASE f.kind # Skippable
    <3>1. f.kind = Zstd /\ Sized(fParams, n, f) /\ NoLap(dctx)
      BY <1>3, <1>4, <2>2
    <3>2. LET z == ToBlockHeader(DecodeFrameHeader(src, dctx, i)) IN
          /\ z \in Context /\ z.decodedSize = 0 /\ z.stage # "skipFrame"
          /\ Decoding(z, mem, n, fParams, f, at + hsize, 0)
      BY <3>1, <1>2, BeginBlocks
    <3> QED
      BY <3>2, <2>2
  <2> QED
    BY <2>1, <2>2
<1>o. f.out \in Nat /\ f.out + 0 = f.out
  <2>1. f.out \in Nat
    BY <1>4, FrameTypes
  <2> DEFINE out == f.out
  <2> HIDE DEF out
  <2>2. out \in Nat => out + 0 = out
    OBVIOUS
  <2> QED
    BY <2>1, <2>2 DEF out
<1> HIDE DEF c, f, at, hsize, r
<1>9. r.ret = 0 /\ r.d = c /\ r.m = mem /\ ~IsError(r.ret)
  BY <1>7 DEF IsError
<1>10. /\ ret' = r.d.expected /\ ipos' = ipos + dctx.expected /\ opos' = opos + r.ret
       /\ dctx' = r.d /\ mem' = r.m /\ outBuffSize' = outBuffSize /\ fParams' = fParams
       /\ outStart' = NextPlace(outBuffSize, fParams, outStart + r.ret)
  BY <1>6, <1>9, LoopContinues DEF r
<1>11. /\ ret' = dctx'.expected /\ opos' = f.out + dctx'.decodedSize /\ ipos' = at + hsize
       /\ dctx' = c /\ mem' = mem /\ outStart' = NextPlace(outBuffSize, fParams, 0)
  BY <1>3, <1>5, <1>8, <1>9, <1>10, <1>o
<1>12. /\ dctx' \in Context /\ mem' \in [0 .. outBuffSize - 1 -> Int] /\ ipos' \in Nat
       /\ Decoding(dctx', mem', outBuffSize, fParams, src[i], ipos', 0)
       /\ dctx'.stage = "skipFrame" => dctx'.at = Element("header", i, 0)
       /\ 0 \in Nat /\ 0 <= outBuffSize
  BY <1>2, <1>5, <1>8, <1>11 DEF f
<1>13. Forward
  <2> DEFINE ex == dctx.expected
  <2>1. ex \in Nat /\ ipos \in Nat /\ opos \in Nat /\ ipos' = ipos + ex /\ opos' = opos + 0
    BY <1>1, <1>2, <1>9, <1>10, StateTypes
  <2> HIDE DEF ex
  <2> QED
    BY <2>1 DEF Forward
<1>14. IInv'
  BY <1>10, <1>11, <1>12, LoopKeeps, LoopInFrameStep DEF f
<1> QED
  BY <1>13, <1>14


\* The buffer of the bufferless loop is large enough for frame f.
LEMMA LoopBuffer ==
  ASSUME NEW f \in Frame, NEW q, q = HeaderParams(f), NEW size,
         size = DecodingBufferSizeMin(q.windowSize, q.frameContentSize)
  PROVE  /\ q \in Params /\ size \in Nat /\ (f.kind # Skippable => Sized(q, size, f))
         /\ f.kind = Skippable => q.frameContentSize = f.skip
<1> DEFINE window == f.window
           block == BlockSizeMax(f)
           fcs == f.fcs
           skip == f.skip
<1>1. /\ q \in Params
      /\ f.kind = Skippable => q.windowSize = 0 /\ q.frameContentSize = skip
      /\ f.kind # Skippable => /\ q.windowSize = window /\ q.frameContentSize = fcs
                               /\ q.blockSizeMax = block
  BY HeaderParamsFields
<1>2. window \in Nat /\ fcs \in Nat \cup {Unknown} /\ skip \in Nat /\ window <= window
  <2>1. window \in Nat /\ fcs \in Nat \cup {Unknown} /\ skip \in Nat
    BY FrameTypes
  <2> HIDE DEF window
  <2>2. window <= window
    BY <2>1
  <2> QED
    BY <2>1, <2>2
<1>3. CASE f.kind # Skippable
  <2>1. q.windowSize = window /\ q.frameContentSize = fcs /\ q.blockSizeMax = block
    BY <1>1, <1>3
  <2>2. /\ DecodingBufferSizeMin(window, fcs) \in Nat
        /\ \A n \in Nat : n >= DecodingBufferSizeMin(window, fcs) =>
             FirstLapOnly(f, n) \/ n >= f.window + BlockSizeMax(f) + 2 * Wildcopy
    BY <1>2, BufferSize
  <2>3. size = DecodingBufferSizeMin(window, fcs)
    BY <2>1
  <2>4. size \in Nat /\ size >= DecodingBufferSizeMin(window, fcs)
    <3> DEFINE z == DecodingBufferSizeMin(window, fcs)
    <3>1. size = z /\ z \in Nat
      BY <2>2, <2>3
    <3> HIDE DEF z
    <3>2. size \in Nat /\ size >= z
      BY <3>1
    <3> QED
      BY <3>2 DEF z
  <2>5. Sized(q, size, f)
    BY <2>1, <2>2, <2>4 DEF Sized
  <2> QED
    BY <1>1, <1>3, <2>4, <2>5
<1>4. CASE f.kind = Skippable
  <2> DEFINE needed == 0 + Smaller(0, BlockMax) + 2 * Wildcopy
  <2>1. needed \in Nat
    BY ConstantTypes DEF Smaller
  <2>2. size = (IF skip = Unknown THEN needed ELSE Smaller(skip, needed))
    BY <1>1, <1>4 DEF DecodingBufferSizeMin
  <2> HIDE DEF needed, skip
  <2>3. size \in Nat
    BY <2>1, <2>2, <1>2 DEF Smaller
  <2> QED
    BY <2>3, <1>1, <1>4 DEF skip
<1> QED
  BY <1>3, <1>4

\* The bufferless loop at the end of one frame is at the beginning of the next.
LEMMA LoopAtBoundary ==
  ASSUME IInv, BufferlessStep, dctx.stage = "getFrameHeaderSize"
  PROVE  \E j \in 1 .. Len(src) : ipos = src[j].at /\ opos = src[j].out
<1>1. api = "bufferless" /\ ipos < SourceSize(src) /\ Types /\ LoopInv
  BY Zenon DEF IInv, BufferlessStep
<1>2. src \in Sources /\ Len(src) \in Nat /\ ipos \in Nat /\ opos \in Nat /\ dctx \in Context
  BY <1>1, StateTypes
<1>3. Boundary(ipos, opos, 0)
  <2>1. CASE Boundary(ipos, opos, 0)
    BY <2>1
  <2>2. ASSUME NEW i \in 1 .. Len(src), InHeaderOf(i) PROVE FALSE
    BY <2>2 DEF InHeaderOf
  <2>3. ASSUME NEW i \in 1 .. Len(src), InFrame(i) PROVE Boundary(ipos, opos, 0)
    <3>1. Decoding(dctx, mem, outBuffSize, fParams, src[i], ipos, outStart)
          /\ opos = src[i].out + dctx.decodedSize
      BY <2>3 DEF InFrame
    <3>2. dctx.expected = 0
      <4>1. AtEnd(dctx, src[i], ipos)
        BY <3>1 DEF Decoding, Position, AtSkip, AtBlock, AtData, AtChecksum
      <4> QED
        BY <4>1 DEF AtEnd
    <3>3. ipos = FramesSize(src, i) /\ opos = FramesContent(src, i)
      BY <1>2, <3>1, <3>2, InsideSource
    <3>4. i \in 0 .. Len(src)
      OBVIOUS
    <3> QED
      BY <3>3, <3>4 DEF Boundary
  <2> QED
    BY <1>1, <2>1, <2>2, <2>3 DEF LoopInv
<1>4. PICK i \in 0 .. Len(src) : ipos = FramesSize(src, i) /\ opos = FramesContent(src, i)
  BY <1>3 DEF Boundary
<1>5. i # Len(src)
  <2> SUFFICES ASSUME i = Len(src) PROVE FALSE
    OBVIOUS
  <2>1. ipos = SourceSize(src)
    BY <1>2, <1>4, NextFrame
  <2> QED
    BY <2>1, <1>1, <1>2
<1>6. i < Len(src) /\ i + 1 \in 1 .. Len(src)
  BY <1>2, <1>5
<1>7. ipos = src[i + 1].at /\ opos = src[i + 1].out
  BY <1>2, <1>4, <1>6, NextFrame
<1> QED
  BY <1>6, <1>7

LEMMA LoopStartStep ==
  ASSUME CurrentOnly, IInv, BufferlessStep, dctx.stage = "getFrameHeaderSize"
  PROVE  IInv' /\ Forward
<1>1. PICK j \in 1 .. Len(src) : ipos = src[j].at /\ opos = src[j].out
  BY LoopAtBoundary
<1> DEFINE f == src[j]
           h == GetFrameHeader(src, j, src[j].size)
           q == HeaderParams(f)
           b == DecompressBeginUsingDict
           c == HeaderBegun(src, b, j)
           r == DecompressContinue(src, b, mem, outStart, 0, ipos, b.expected)
           size == DecodingBufferSizeMin(q.windowSize, q.frameContentSize)
<1>2. Types /\ Bounds
  BY DEF IInv
<1>3. /\ src \in Sources /\ f \in Frame /\ f.kind \in {Zstd, Skippable} /\ outStart \in Nat
      /\ opos \in Nat /\ ipos \in Nat
  BY <1>2, StateTypes, KindFacts DEF CurrentOnly
<1>4. Layout[src][ipos] = Element("header", j, 0)
  BY <1>1, <1>3, HeaderThere
<1>5. h.ret = 0 /\ h.params = q
  BY <1>3, WholeHeader
<1>6. b \in Context /\ NoLap(b) /\ b.stage = "getFrameHeaderSize" /\ b.expected = HeaderPrefix
  BY Begun
<1>7. r = [ret |-> 0, d |-> c, m |-> mem]
  <2> HIDE DEF b, f
  <2>1. DecompressContinue(src, b, mem, outStart, 0, src[j].at, b.expected)
          = [ret |-> 0, d |-> HeaderBegun(src, b, j), m |-> mem]
    BY <1>3, <1>6, ContinueBegin
  <2> QED
    BY <2>1, <1>1
<1>8. /\ c \in Context /\ NoLap(c) /\ c.at = Element("header", j, 0) /\ c.expected > 0
      /\ f.kind = Skippable => /\ c.stage = "decodeSkippableHeader"
                               /\ c.expected = SkipHeader - HeaderPrefix
      /\ f.kind # Skippable => /\ c.stage = "decodeFrameHeader"
                               /\ c.expected = f.hsize - HeaderPrefix
  <2> HIDE DEF b
  <2> QED
    BY <1>3, <1>6, HeaderBegunFields
<1>9. /\ q \in Params /\ size \in Nat /\ (f.kind # Skippable => Sized(q, size, f))
      /\ f.kind = Skippable => q.frameContentSize = f.skip
  BY <1>3, LoopBuffer
<1>10. ipos + HeaderPrefix \in Nat /\ ipos + HeaderPrefix <= SourceSize(src)
  <2> DEFINE hsize == f.hsize
             end == FrameEnd(f)
             total == SourceSize(src)
  <2>1. /\ ipos + hsize <= end /\ hsize >= 5 /\ end <= total /\ ipos \in Nat /\ hsize \in Nat
        /\ end \in Nat /\ total \in Nat
    BY <1>1, <1>3, FrameSize, SourceBound, FrameTypes
  <2> HIDE DEF hsize, end, total, f
  <2>2. ipos + HeaderPrefix \in Nat /\ ipos + HeaderPrefix <= total
    BY <2>1 DEF HeaderPrefix
  <2> QED
    BY <2>2 DEF total
<1> HIDE DEF b, c, f, q, h, r, size
<1>11. r.ret = 0 /\ r.d = c /\ ~IsError(r.ret) /\ ~IsError(h.ret)
  BY <1>5, <1>7 DEF IsError
<1>12. /\ ret' = r.d.expected /\ ipos' = ipos + b.expected /\ opos' = opos + r.ret
       /\ dctx' = r.d /\ mem' = FreshBuffer(size) /\ outBuffSize' = size
       /\ fParams' = q /\ outStart' = 0
  <2>1. LET z == DecodingBufferSizeMin(h.params.windowSize, h.params.frameContentSize) IN
        /\ ret' = r.d.expected /\ ipos' = ipos + b.expected /\ opos' = opos + r.ret
        /\ dctx' = r.d /\ mem' = FreshBuffer(z) /\ outBuffSize' = z
        /\ fParams' = h.params /\ outStart' = 0
    BY <1>4, <1>6, <1>11, LoopBegins DEF h, b, r
  <2> QED
    BY <2>1, <1>5 DEF size
<1>13. /\ ret' = c.expected /\ ipos' = ipos + HeaderPrefix /\ opos' = f.out /\ dctx' = c
  <2>1. opos + 0 = opos
    BY <1>3
  <2> QED
    BY <2>1, <1>1, <1>6, <1>11, <1>12 DEF f
<1>14. mem' \in [0 .. outBuffSize' - 1 -> Int]
  <2>1. \A a \in 0 .. size - 1 : 0 \in Int
    OBVIOUS
  <2>2. FreshBuffer(size) \in [0 .. size - 1 -> Int]
    BY <2>1 DEF FreshBuffer
  <2> QED
    BY <2>2, <1>12
<1>15. ret' \in Nat /\ ret' # 0
  <2>1. c.expected \in Nat /\ c.expected > 0
    BY <1>8, ContextTypes
  <2> DEFINE ex == c.expected
  <2>2. ex \in Nat /\ ex > 0
    BY <2>1
  <2> HIDE DEF ex
  <2>3. ex \in Nat /\ ex # 0
    BY <2>2
  <2> QED
    BY <2>3, <1>13 DEF ex
<1>16. InHeaderOf(j)'
  <2>1. src' = src
    BY LoopKeeps
  <2> QED
    BY <2>1, <1>1, <1>8, <1>9, <1>12, <1>13 DEF InHeaderOf, f
<1>17. 0 \in Nat /\ 0 <= size
  BY <1>9
<1>18. opos' \in Nat
  BY <1>1, <1>3, <1>13 DEF f
<1>19. Forward
  <2>1. opos' = opos
    BY <1>1, <1>13 DEF f
  <2>2. ipos' = ipos + HeaderPrefix /\ ipos \in Nat /\ opos \in Nat
    BY <1>3, <1>13
  <2> QED
    BY <2>1, <2>2 DEF Forward, HeaderPrefix
<1>20. IInv'
  BY <1>8, <1>9, <1>10, <1>12, <1>13, <1>14, <1>15, <1>16, <1>17, <1>18, LoopKeeps, LoopStep
<1> QED
  BY <1>19, <1>20

LEMMA BufferlessInv ==
  ASSUME CurrentOnly, IInv, BufferlessStep
  PROVE  IInv' /\ Forward
<1>1. api = "bufferless" /\ LoopInv
  BY Zenon DEF IInv, BufferlessStep
<1>2. CASE dctx.stage = "getFrameHeaderSize"
  BY <1>2, LoopStartStep
<1>3. CASE dctx.stage # "getFrameHeaderSize"
  <2>1. PICK i \in 1 .. Len(src) : InHeaderOf(i) \/ InFrame(i)
    BY <1>1, <1>3 DEF LoopInv
  <2> QED
    BY <2>1, <1>3, LoopHeaderStep, LoopFrameStep
<1> QED
  BY <1>2, <1>3


-----------------------------------------------------------------------------
\* The invariant.

LEMMA InitInv ==
  ASSUME Init
  PROVE  IInv
<1>1. PICK s \in Sources, a \in Api : InitWith(s, a, 1)
  BY DEF Init
<1>2. /\ src = s /\ api = a /\ sources = 1 /\ ipos = 0 /\ opos = 0 /\ call = Idle
      /\ ret = NoReturn /\ streamStage = "init" /\ hostageByte = 0
  BY <1>1 DEF InitWith
<1>3. /\ dctx = DecompressBegin /\ mem = [x \in {} |-> 0]
      /\ frame = 0 /\ lhSize = 0 /\ inPos = 0 /\ outStart = 0 /\ outEnd = 0
      /\ inBuffSize = 0 /\ outBuffSize = 0 /\ fParams = FrameParams(0, 0, 0, FALSE)
      /\ legacyVersion = 0 /\ previousLegacyVersion = 0 /\ failures = 0
  BY DEF Init
<1>4. Len(s) \in Nat \ {0} /\ SourceSize(s) \in Nat
  <2>1. Len(s) \in Nat \ {0} /\ Len(s) \in 1 .. Len(s)
    BY SourceTypes
  <2> QED
    BY <2>1, SourceBound
<1>5. fParams \in Params
  BY <1>3 DEF FrameParams, Params
<1>6. mem \in [0 .. outBuffSize - 1 -> Int]
  <2>1. 0 .. 0 - 1 = {}
    OBVIOUS
  <2> QED
    BY <2>1, <1>3
<1>7. dctx \in Context /\ dctx.stage = "getFrameHeaderSize"
  BY <1>3, Begun DEF DecompressBegin
<1>8. 1 \in 1 .. MaxSources /\ 0 \in 0 .. MaxAllocFail /\ 0 \in 0 .. HeaderMax /\ 0 \in 0 .. Len(s)
  BY <1>4, ConstantTypes DEF HeaderMax
<1>9. Types
  <2>1. /\ api \in Api /\ src \in Sources /\ sources \in 1 .. MaxSources /\ ipos \in Nat
        /\ opos \in Nat /\ call \in CallRecord /\ streamStage \in Stages
        /\ hostageByte \in {0, 1}
    BY <1>2, <1>8, IdleFields DEF Stages
  <2>2. ret \in Int
    BY <1>2 DEF NoReturn
  <2>3. frame \in 0 .. Len(src) /\ lhSize \in 0 .. HeaderMax /\ failures \in 0 .. MaxAllocFail
    BY <1>2, <1>3, <1>8
  <2>4. /\ inPos \in Nat /\ outStart \in Nat /\ outEnd \in Nat /\ inBuffSize \in Nat
        /\ outBuffSize \in Nat /\ legacyVersion = 0 /\ previousLegacyVersion = 0
    BY <1>3
  <2> QED
    BY <2>1, <2>2, <2>3, <2>4, <1>5, <1>6, <1>7 DEF Types
<1>10. Bounds
  <2>1. 0 <= Larger(0, fParams.frameContentSize)
    BY <1>3 DEF FrameParams, Larger
  <2>2. 0 <= SourceSize(s) /\ 0 <= 0
    BY <1>4
  <2>3. ~call.on
    BY <1>2, IdleFields
  <2>4. /\ ipos = 0 /\ src = s /\ inPos = 0 /\ inBuffSize = 0 /\ outStart = 0 /\ outEnd = 0
        /\ outBuffSize = 0
    BY <1>2, <1>3
  <2>5. ipos <= SourceSize(src) /\ outStart <= outBuffSize /\ outEnd <= outBuffSize
    BY <2>2, <2>4
  <2>6. inPos <= Larger(inBuffSize, fParams.frameContentSize)
    BY <2>1, <2>4
  <2> QED
    BY <2>3, <2>5, <2>6 DEF Bounds
<1>11. Boundary(0, 0, 0)
  <2>1. 0 \in 0 .. Len(src) /\ FramesSize(src, 0) = 0 /\ FramesContent(src, 0) = 0
    BY <1>2, <1>8 DEF FramesSize, FramesContent
  <2> QED
    BY <2>1 DEF Boundary
<1>12. StreamInv
  <2>1. Cur = 0 /\ Done = 0 /\ ~call.on
    BY <1>2, IdleFields DEF Cur, Done
  <2>2. InitStage
    BY <2>1, <1>11 DEF InitStage
  <2> QED
    BY <2>2, <1>2 DEF StreamInv
<1>13. ~IsError(ret) /\ ret # 0
  BY <1>2 DEF NoReturn, IsError
<1>14. LoopInv
  BY <1>2, <1>3, <1>7, <1>11, <1>13 DEF LoopInv
<1>15. RetInv
  BY <1>13 DEF RetInv, ZeroMeansFrameDone, ValidNeverFails
<1> QED
  BY <1>9, <1>10, <1>12, <1>14, <1>15 DEF IInv

LEMMA StutterInv ==
  ASSUME IInv, UNCHANGED vars
  PROVE  IInv'
<1>1. /\ api' = api /\ src' = src /\ sources' = sources /\ ipos' = ipos /\ opos' = opos
      /\ call' = call /\ ret' = ret /\ dctx' = dctx /\ mem' = mem
      /\ streamStage' = streamStage /\ frame' = frame /\ lhSize' = lhSize /\ inPos' = inPos
      /\ outStart' = outStart /\ outEnd' = outEnd /\ hostageByte' = hostageByte
      /\ inBuffSize' = inBuffSize /\ outBuffSize' = outBuffSize /\ fParams' = fParams
      /\ legacyVersion' = legacyVersion /\ previousLegacyVersion' = previousLegacyVersion
      /\ failures' = failures
  BY DEF vars, userVars, zdsVars, buffVars, legacyVars
<1>2. Types' /\ Bounds'
  BY <1>1 DEF IInv, Types, Bounds
<1>3. /\ Cur' = Cur /\ Done' = Done /\ ThisFrame' = ThisFrame /\ InRoom' = InRoom
  BY <1>1 DEF Cur, Done, ThisFrame, InRoom
<1>4. StreamInv'
  <2>1. InitStage' = InitStage
    BY <1>1, <1>3 DEF InitStage, Boundary, DecodingAt
  <2>2. HeaderStage' = HeaderStage
    BY <1>1, <1>3 DEF HeaderStage
  <2>3. ReadStage' = ReadStage /\ LoadStage' = LoadStage
    BY <1>1, <1>3 DEF ReadStage, LoadStage, DecodingAt
  <2>4. FlushStage' = FlushStage
    BY <1>1, <1>3 DEF FlushStage, DecodingAt
  <2> QED
    BY <1>1, <2>1, <2>2, <2>3, <2>4 DEF IInv, StreamInv
<1>5. LoopInv'
  BY <1>1 DEF IInv, LoopInv, Boundary, InHeaderOf, InFrame
<1>6. RetInv'
  BY <1>1 DEF IInv, RetInv, ZeroMeansFrameDone, Whole, ValidNeverFails
<1> QED
  BY <1>2, <1>4, <1>5, <1>6 DEF IInv

LEMMA NextInv ==
  ASSUME CurrentOnly, IInv, [Next]_vars
  PROVE  IInv'
<1>1. ASSUME NEW n \in InSizes, NEW k \in OutSizes, CallStream(n, k) PROVE IInv'
  BY <1>1, CallStreamStep
<1>2. ASSUME NEW s \in Sources, InitDStream(s) PROVE IInv'
  BY <1>2, InitDStreamStep
<1>3. CASE DecompressStream
  <2>1. CASE StartFrame
    BY <2>1, StartFrameStep
  <2>2. CASE LoadHeader
    BY <2>2, LoadHeaderStep
  <2>3. CASE SinglePass
    BY <2>3, SinglePassStep
  <2>4. CASE ConsumeHeader
    BY <2>4, ConsumeHeaderStep
  <2>5. CASE ReadDirect
    BY <2>5, ReadDirectStep
  <2>6. CASE ReadStops
    BY <2>6, ReadStopsStep
  <2>7. CASE StartLoad
    BY <2>7, StartLoadStep
  <2>8. CASE Load
    BY <2>8, LoadStep
  <2>9. CASE Flush
    BY <2>9, FlushStep
  <2>10. CASE Return /\ streamStage # "loadHeader"
    BY <2>10, ReturnStep
  <2> QED
    BY <1>3, <2>1, <2>2, <2>3, <2>4, <2>5, <2>6, <2>7, <2>8, <2>9, <2>10, NoLegacyStep
       DEF DecompressStream
<1>4. CASE BufferlessStep
  BY <1>4, BufferlessInv
<1>5. CASE UNCHANGED vars
  BY <1>5, StutterInv
<1> QED
  BY <1>1, <1>2, <1>3, <1>4, <1>5 DEF Next

\* For sources of frames of the current format and skippable ones, the invariant above
\* holds of every state (zstd_decompress.c 2728-2980; zstd.h 1180, the bufferless loop).
THEOREM CurrentInv ==
  ASSUME CurrentOnly
  PROVE  Spec => []IInv
<1>1. Init => IInv
  BY InitInv
<1>2. IInv /\ [Next]_vars => IInv'
  BY NextInv
<1> QED
  BY <1>1, <1>2, PTL DEF Spec

-----------------------------------------------------------------------------
\* What follows from it.

\* The state of the decoder, its buffers and the positions in them keep their types.
THEOREM CurrentTypes ==
  ASSUME CurrentOnly
  PROVE  Spec => []TypeOK
<1>1. IInv => TypeOK
  <2> SUFFICES ASSUME IInv PROVE TypeOK
    OBVIOUS
  <2>1. Types /\ Bounds
    BY DEF IInv
  <2>2. ipos \in 0 .. SourceSize(src)
    <3>1. ipos \in Nat /\ SourceSize(src) \in Nat /\ ipos <= SourceSize(src)
      BY <2>1, StateTypes DEF Bounds
    <3> DEFINE size == SourceSize(src)
    <3> HIDE DEF size
    <3>2. ipos \in 0 .. size
      BY <3>1 DEF size
    <3> QED
      BY <3>2 DEF size
  <2>3. DOMAIN mem = 0 .. outBuffSize - 1
    BY <2>1 DEF Types
  <2> QED
    BY <2>1, <2>2, <2>3 DEF TypeOK, Types, Bounds, HeaderMax
<1> QED
  BY <1>1, CurrentInv, PTL

\* Whatever way source and room are cut, every block found its history, and what waits
\* in outBuff is the output that comes next (zstd_decompress.c 2850-2941, 1984-1992).
THEOREM CurrentFlush ==
  ASSUME CurrentOnly
  PROVE  Spec => []FlushHoldsNext
<1>1. IInv => FlushHoldsNext
  <2> SUFFICES ASSUME IInv PROVE FlushHoldsNext
    OBVIOUS
  <2>1. ~(legacyVersion >= 4)
    BY DEF IInv, Types
  <2>2. streamStage = "flush" => Bytes(mem, outStart, outEnd, Done - outStart)
    <3> SUFFICES ASSUME streamStage = "flush" PROVE Bytes(mem, outStart, outEnd, Done - outStart)
      OBVIOUS
    <3>1. api = "stream"
      <4>1. api \in {"stream", "bufferless"}
        BY DStreamAssumption DEF IInv, Types
      <4> QED
        BY <4>1 DEF IInv, LoopInv
    <3>2. ~IsError(ret)
      BY DEF IInv, RetInv
    <3> QED
      BY <3>1, <3>2 DEF IInv, StreamInv, FlushStage
  <2>3. Done \in Int /\ outStart \in Int /\ outEnd \in Int
    BY StateTypes, CallTypes DEF IInv, Done
  <2>4. streamStage = "flush" =>
          \A a \in outStart .. outEnd - 1 : mem[a] = Done + 1 + a - outStart
    BY <2>2, <2>3 DEF Bytes
  <2>5. Done = IF call.on THEN call.op ELSE opos
    BY DEF Done
  <2> HIDE DEF Done
  <2> QED
    BY <2>1, <2>4, <2>5 DEF FlushHoldsNext
<1> QED
  BY <1>1, CurrentInv, PTL

\* ZSTD1_decompressStream returns 0, and the bufferless loop expects nothing more, only
\* when a frame is completely decoded and delivered (zstd.h 337).
THEOREM CurrentZero ==
  ASSUME CurrentOnly
  PROVE  Spec => []ZeroMeansFrameDone
<1>1. IInv => ZeroMeansFrameDone
  BY DEF IInv, RetInv
<1> QED
  BY <1>1, CurrentInv, PTL

\* A valid source is refused only for its window or for want of memory: no way of
\* cutting it makes the decoder lose its place in it.
THEOREM CurrentNeverFails ==
  ASSUME CurrentOnly
  PROVE  Spec => []ValidNeverFails
<1>1. IInv => ValidNeverFails
  BY DEF IInv, RetInv
<1> QED
  BY <1>1, CurrentInv, PTL


\* Where source and output are in frame k, nothing of a frame before it is missing.
LEMMA Delivered ==
  ASSUME NEW s \in Sources, NEW k \in 1 .. Len(s), NEW i \in 1 .. Len(s), NEW p \in Nat,
         NEW o \in Nat, s[k].out <= o, FrameEnd(s[i]) <= p, p <= FrameEnd(s[k]),
         p = FrameEnd(s[k]) /\ i = k => o >= FrameOutEnd(s[k])
  PROVE  FrameOutEnd(s[i]) <= o
<1> DEFINE ei == FrameEnd(s[i])
           ek == FrameEnd(s[k])
           oi == FrameOutEnd(s[i])
           ok == FrameOutEnd(s[k])
           ai == s[i].at
           uk == s[k].out
<1>1. /\ s[i] \in Frame /\ s[k] \in Frame /\ ei \in Nat /\ ek \in Nat /\ oi \in Nat /\ ok \in Nat
      /\ ai \in Nat /\ uk \in Nat
  BY SourceTypes, FrameTypes
<1>2. i < k \/ i = k \/ k < i
  BY SourceTypes
<1>3. CASE i < k
  <2>1. oi <= uk /\ uk <= o
    BY <1>3, FrameOrder
  <2> HIDE DEF oi, uk
  <2>2. oi <= o
    BY <2>1, <1>1
  <2> QED
    BY <2>2 DEF oi
<1>4. CASE i = k
  <2>1. ei <= p /\ p <= ek /\ (p = ek => o >= ok) /\ ei = ek /\ oi = ok
    BY <1>4
  <2> HIDE DEF ei, ek, oi, ok
  <2>2. oi <= o
    BY <2>1, <1>1
  <2> QED
    BY <2>2 DEF oi
<1>5. CASE k < i
  <2>1. ek <= ai /\ ai < ei /\ ei <= p /\ p <= ek
    BY <1>5, FrameOrder, FrameSize
  <2> HIDE DEF ei, ek, ai
  <2> QED
    BY <2>1, <1>1
<1> QED
  BY <1>2, <1>3, <1>4, <1>5

\* The decoder between two calls: in frame k, or before or behind all of a frame.
Placed(k, p, o) ==
  /\ k \in 1 .. Len(src) /\ src[k].out <= o /\ o <= FrameOutEnd(src[k])
  /\ p <= FrameEnd(src[k])
  /\ p = FrameEnd(src[k]) => o >= FrameOutEnd(src[k]) \/ src[k].kind # Zstd

LEMMA PlacedInHeader ==
  ASSUME CurrentOnly, Types, HeaderStage, frame > 0
  PROVE  Placed(frame, Cur, Done)
<1> DEFINE f == src[frame]
           at == f.at
           hsize == f.hsize
           end == FrameEnd(f)
           out == f.out
           outEnd1 == FrameOutEnd(f)
<1>1. /\ frame \in 1 .. Len(src) /\ src \in Sources
      /\ Cur = at + lhSize /\ lhSize <= hsize /\ Done = out
  BY FrameAtHand DEF HeaderStage, ThisFrame, Types
<1>2. /\ f \in Frame /\ at \in Nat /\ hsize \in Nat /\ end \in Nat /\ out \in Nat
      /\ lhSize \in Nat /\ at + hsize <= end /\ f.content \in Nat
      /\ f.kind # Skippable => at + hsize + BlockHeader <= end
  <2>1. f \in Frame /\ lhSize \in Nat
    BY <1>1, FrameSize, StateTypes
  <2>2. /\ at \in Nat /\ end \in Nat /\ out \in Nat /\ f.content \in Nat
        /\ hsize \in 0 .. HeaderMax
    BY <2>1, FrameTypes
  <2>3. hsize \in Nat
    <3> HIDE DEF f, hsize
    <3> QED
      BY <2>2 DEF HeaderMax
  <2>4. at + hsize <= end /\ (f.kind # Skippable => at + hsize + BlockHeader <= end)
    BY <1>1, FrameSize
  <2> QED
    BY <2>1, <2>2, <2>3, <2>4
<1>3. outEnd1 = out + f.content
  BY DEF FrameOutEnd
<1>4. out <= Done /\ Done <= outEnd1
  <2> DEFINE content == f.content
  <2>1. outEnd1 = out + content /\ out \in Nat /\ content \in Nat /\ Done = out
    BY <1>1, <1>2, <1>3
  <2> HIDE DEF outEnd1, out, content
  <2> QED
    BY <2>1
<1>5. Cur <= end /\ (f.kind # Skippable => Cur # end)
  <2> DEFINE kind == f.kind
  <2> HIDE DEF at, hsize, end, kind
  <2>1. Cur <= end
    BY <1>1, <1>2
  <2>2. kind # Skippable => at + hsize + BlockHeader <= end
    BY <1>2 DEF kind
  <2>3. kind # Skippable => Cur # end
    BY <2>2, <1>1, <1>2 DEF BlockHeader
  <2> QED
    BY <2>1, <2>3 DEF kind
<1>6. f.kind = Zstd => f.kind # Skippable
  BY DEF Zstd, Skippable
<1> QED
  BY <1>1, <1>4, <1>5, <1>6 DEF Placed

\* Inside the blocks of a frame: P is the place of what is expected.
LEMMA PlacedInBlocks ==
  ASSUME Types, frame > 0, NEW W, NEW P \in Nat, NEW p \in Nat, NEW o \in Nat,
         DecodingAt(P, W), ThisFrame.out <= o, o <= ThisFrame.out + dctx.decodedSize,
         p < P + dctx.expected \/ p <= P,
         p = P /\ dctx.expected = 0 => o = ThisFrame.out + dctx.decodedSize
  PROVE  Placed(frame, p, o)
<1> DEFINE f == src[frame]
           end == FrameEnd(f)
           out == f.out
           content == f.content
           ex == dctx.expected
           dec == dctx.decodedSize
<1>1. /\ frame \in 1 .. Len(src) /\ src \in Sources /\ dctx \in Context /\ ThisFrame = f
      /\ ex \in Nat /\ dec \in Nat
  BY FrameAtHand, StateTypes
<1>2. f \in Frame /\ end \in Nat /\ out \in Nat /\ content \in Nat
  BY <1>1, SourceTypes, FrameTypes
<1>3. Decoding(dctx, mem, outBuffSize, fParams, f, P, W)
  BY <1>1 DEF DecodingAt
<1>4. P + ex <= end /\ dec <= content
  BY <1>1, <1>3, Inside
<1>5. ex = 0 => P = end /\ dec = content
  BY <1>1, <1>3, Ended, Zenon
<1>6. FrameOutEnd(f) = out + content
  BY DEF FrameOutEnd
<1>7. out <= o /\ o <= out + dec /\ (p = P /\ ex = 0 => o = out + dec)
      /\ (p < P + ex \/ p <= P)
  BY <1>1
<1> HIDE DEF end, out, content, ex, dec, f
<1>8. p <= end /\ o <= out + content
  BY <1>1, <1>2, <1>4, <1>7
<1>9. p = end => o >= out + content
  <2> SUFFICES ASSUME p = end PROVE o >= out + content
    OBVIOUS
  <2>1. ex = 0 /\ p = P
    BY <1>1, <1>2, <1>4, <1>7
  <2>2. dec = content /\ o = out + dec
    BY <2>1, <1>5, <1>7
  <2> QED
    BY <2>2, <1>2
<1> QED
  BY <1>1, <1>6, <1>7, <1>8, <1>9 DEF Placed, f, end, out

LEMMA PlacedBetweenCalls ==
  ASSUME CurrentOnly, IInv, api = "stream", ~call.on, ~IsError(ret)
  PROVE  Boundary(ipos, opos, 0) \/ \E k \in 1 .. Len(src) : Placed(k, ipos, opos)
<1>1. Types /\ Cur = ipos /\ Done = opos
  BY DEF IInv, Cur, Done
<1>2. (CASE streamStage = "init" -> InitStage
         [] streamStage = "loadHeader" -> HeaderStage
         [] streamStage = "read" -> ReadStage
         [] streamStage = "load" -> LoadStage
         [] streamStage = "flush" -> FlushStage)
  BY DEF IInv, StreamInv
<1>3. streamStage \in Stages
  BY <1>1 DEF Types
<1>t. /\ dctx.expected \in Nat /\ dctx.decodedSize \in Nat /\ ipos \in Nat /\ opos \in Nat
      /\ inPos \in Nat /\ outStart \in Nat /\ outEnd \in Nat /\ hostageByte \in {0, 1}
      /\ src \in Sources
  BY <1>1, StateTypes
<1> DEFINE ex == dctx.expected
           dec == dctx.decodedSize
           out == ThisFrame.out
<1>f. frame > 0 => frame \in 1 .. Len(src) /\ out \in Nat
  BY <1>1, FrameAtHand
<1>4. CASE streamStage = "init"
  BY <1>1, <1>2, <1>4 DEF InitStage
<1>5. CASE streamStage = "loadHeader"
  <2>1. HeaderStage
    BY <1>2, <1>5
  <2>2. CASE frame = 0
    <3>1. ipos = SourceSize(src) /\ opos = OutputSize(src)
      BY <2>1, <2>2, <1>1 DEF HeaderStage
    <3>2. Len(src) \in 0 .. Len(src)
      BY <1>t, SourceTypes
    <3> QED
      BY <3>1, <3>2 DEF Boundary, SourceSize, OutputSize
  <2>3. CASE frame > 0
    BY <2>1, <2>3, <1>1, <1>f, PlacedInHeader
  <2>4. frame \in Nat
    BY <1>1 DEF Types
  <2> QED
    BY <2>2, <2>3, <2>4
<1>6. CASE streamStage = "read"
  <2>1. frame > 0 /\ DecodingAt(ipos + hostageByte, outStart) /\ opos = out + dec
    BY <1>1, <1>2, <1>6 DEF ReadStage
  <2> DEFINE P == ipos + hostageByte
  <2>2. P \in Nat /\ ipos <= P
    BY <1>t
  <2>3. out <= opos /\ opos <= out + dec
    <3>1. out \in Nat /\ dec \in Nat /\ opos = out + dec
      BY <2>1, <1>f, <1>t
    <3> HIDE DEF out, dec
    <3> QED
      BY <3>1
  <2> HIDE DEF P
  <2>4. DecodingAt(P, outStart)
    BY <2>1 DEF P
  <2> QED
    BY <2>1, <2>2, <2>3, <2>4, <1>1, <1>f, <1>t, PlacedInBlocks
<1>7. CASE streamStage = "load"
  <2>1. /\ frame > 0 /\ inPos < ex /\ inPos <= ipos /\ DecodingAt(ipos - inPos, outStart)
        /\ opos = out + dec
    BY <1>1, <1>2, <1>7 DEF LoadStage
  <2> DEFINE P == ipos - inPos
  <2>2. P \in Nat /\ ipos < P + ex
    <3>1. inPos < ex /\ inPos <= ipos /\ ex \in Nat /\ inPos \in Nat /\ ipos \in Nat
      BY <2>1, <1>t
    <3> HIDE DEF ex
    <3> QED
      BY <3>1
  <2>3. out <= opos /\ opos <= out + dec
    <3>1. out \in Nat /\ dec \in Nat /\ opos = out + dec
      BY <2>1, <1>f, <1>t
    <3> HIDE DEF out, dec
    <3> QED
      BY <3>1
  <2> HIDE DEF P
  <2>4. DecodingAt(P, outStart)
    BY <2>1 DEF P
  <2> QED
    BY <2>1, <2>2, <2>3, <2>4, <1>1, <1>f, <1>t, PlacedInBlocks
<1>8. CASE streamStage = "flush"
  <2>1. /\ frame > 0 /\ DecodingAt(ipos + hostageByte, outEnd)
        /\ opos + (outEnd - outStart) = out + dec /\ out <= opos
        /\ ex = 0 => hostageByte = 1
        /\ outStart <= outEnd /\ outStart # outEnd
    BY <1>1, <1>2, <1>8, <1>t DEF FlushStage
  <2> DEFINE P == ipos + hostageByte
  <2>2. P \in Nat /\ ipos <= P /\ ~(ipos = P /\ ex = 0)
    <3> HIDE DEF ex
    <3> QED
      BY <2>1, <1>t
  <2>3. out <= opos /\ opos <= out + dec
    <3>1. out \in Nat /\ dec \in Nat
      BY <2>1, <1>f, <1>t
    <3>2. opos + (outEnd - outStart) = out + dec /\ out <= opos /\ outStart <= outEnd
      BY <2>1
    <3> HIDE DEF out, dec
    <3> QED
      BY <3>1, <3>2, <1>t
  <2> HIDE DEF P
  <2>4. DecodingAt(P, outEnd)
    BY <2>1 DEF P
  <2> QED
    BY <2>1, <2>2, <2>3, <2>4, <1>1, <1>f, <1>t, PlacedInBlocks
<1> QED
  BY <1>3, <1>4, <1>5, <1>6, <1>7, <1>8 DEF Stages

\* The end of a frame is never passed while output of it is withheld (the hostage byte,
\* zstd_decompress.c 2955).
THEOREM CurrentEnd ==
  ASSUME CurrentOnly
  PROVE  Spec => []EndNeedsFlush
<1>1. IInv => EndNeedsFlush
  <2> SUFFICES ASSUME IInv, api = "stream", ~call.on, ~IsError(ret), NEW i \in 1 .. Len(src),
                      ipos >= FramesSize(src, i), src[i].kind = Zstd
               PROVE  opos >= FramesContent(src, i)
    BY DEF EndNeedsFlush
  <2>1. src \in Sources /\ ipos \in Nat /\ opos \in Nat /\ Len(src) \in Nat
    BY StateTypes DEF IInv
  <2> DEFINE ei == FrameEnd(src[i])
             oi == FrameOutEnd(src[i])
  <2>2. FramesSize(src, i) = ei /\ FramesContent(src, i) = oi /\ ei \in Nat /\ oi \in Nat /\ ei > 0
    <3>1. i \in 0 .. Len(src) /\ i > 0 /\ src[i] \in Frame
      BY <2>1, SourceTypes
    <3>2. FramesSize(src, i) = ei /\ FramesContent(src, i) = oi /\ ei \in Nat /\ oi \in Nat
      BY <2>1, <3>1, NextFrame, FrameTypes
    <3> DEFINE ai == src[i].at
    <3>3. ai \in Nat /\ ai < ei
      BY <2>1, <3>1, FrameSize, FrameTypes
    <3> HIDE DEF ai, ei
    <3>4. ei > 0
      BY <3>2, <3>3
    <3> QED
      BY <3>2, <3>4
  <2>3. ei <= ipos
    <3> DEFINE z == FramesSize(src, i)
    <3>1. z = ei /\ ei \in Nat /\ ipos >= z
      BY <2>2
    <3> HIDE DEF ei, z
    <3> QED
      BY <3>1, <2>1
  <2>4. oi <= opos
    <3>1. ASSUME NEW k \in 1 .. Len(src), src[k].out <= opos, ipos <= FrameEnd(src[k]),
                 ipos = FrameEnd(src[k]) /\ i = k => opos >= FrameOutEnd(src[k])
          PROVE  oi <= opos
      BY <3>1, <2>1, <2>3, Delivered
    <3>2. CASE Boundary(ipos, opos, 0)
      <4>1. PICK k \in 0 .. Len(src) : ipos = FramesSize(src, k) /\ opos = FramesContent(src, k)
        BY <3>2 DEF Boundary
      <4>2. k # 0
        <5> SUFFICES ASSUME k = 0 PROVE FALSE
          OBVIOUS
        <5>1. ipos = 0
          BY <4>1 DEF FramesSize
        <5> HIDE DEF ei
        <5> QED
          BY <5>1, <2>2, <2>3
      <4>3. k \in 1 .. Len(src) /\ k > 0
        BY <4>2, <2>1
      <4> DEFINE ek == FrameEnd(src[k])
                 ok == FrameOutEnd(src[k])
                 uk == src[k].out
      <4>4. ipos = ek /\ opos = ok
        BY <4>1, <4>3, <2>1, NextFrame
      <4>5. uk <= ok /\ ek <= ek /\ ok >= ok
        <5> DEFINE content == src[k].content
        <5>1. uk \in Nat /\ content \in Nat /\ ok = uk + content /\ ek \in Nat
          BY <4>3, <2>1, SourceTypes, FrameTypes DEF FrameOutEnd
        <5> HIDE DEF uk, content, ok, ek
        <5> QED
          BY <5>1
      <4> QED
        BY <4>3, <4>4, <4>5, <3>1
    <3>3. ASSUME NEW k \in 1 .. Len(src), Placed(k, ipos, opos) PROVE oi <= opos
      BY <3>1, <3>3 DEF Placed
    <3> QED
      BY <3>2, <3>3, PlacedBetweenCalls
  <2> DEFINE z == FramesContent(src, i)
  <2>5. z = oi /\ oi \in Nat /\ oi <= opos
    BY <2>2, <2>4
  <2> HIDE DEF z, oi
  <2>6. opos >= z
    BY <2>5, <2>1
  <2> QED
    BY <2>6 DEF z
<1> QED
  BY <1>1, CurrentInv, PTL

\* A return of a call leaves the positions where the call began, or further on: the
\* hostage byte is one this call has read.
LEMMA ReturnForward ==
  ASSUME IInv, Return, streamStage # "loadHeader"
  PROVE  Forward
<1>1. Types /\ Bounds /\ api = "stream" /\ ~IsError(ret) /\ call.on /\ ~call.more
  BY DEF IInv, Bounds, Return
<1>2. /\ ipos <= call.ip /\ opos <= call.op /\ call.ip \in Nat /\ call.op \in Nat
      /\ ipos \in Nat /\ opos \in Nat /\ call.istart = ipos
  BY <1>1 DEF Bounds, Types, CallRecord
<1>3. opos' = call.op
  BY DEF Return
<1>4. \/ ipos' = call.ip \/ ipos' = call.ip + 1
      \/ ipos' = call.ip - 1 /\ dctx.expected = 0 /\ outEnd # outStart /\ hostageByte = 0
  <2> DEFINE ex == dctx.expected
             h == hostageByte
             ip == call.ip
             iend == call.iend
  <2>1. (CASE ex > 0 ->
                ipos' = ip /\ ret' = Hint /\ hostageByte' = h /\ streamStage' = streamStage
          [] ex = 0 /\ outEnd = outStart /\ h = 0 ->
                ipos' = ip /\ ret' = 0 /\ hostageByte' = h /\ streamStage' = streamStage
          [] ex = 0 /\ outEnd = outStart /\ h = 1 ->
                IF ip >= iend
                THEN ipos' = ip /\ ret' = 1 /\ streamStage' = "read" /\ hostageByte' = h
                ELSE ipos' = ip + 1 /\ ret' = 0 /\ hostageByte' = h /\ streamStage' = streamStage
          [] ex = 0 /\ outEnd # outStart ->
                /\ ipos' = (IF h = 0 THEN ip - 1 ELSE ip)
                /\ hostageByte' = 1 /\ ret' = 1 /\ streamStage' = streamStage)
    BY DEF Return
  <2>2. ex \in Nat /\ h \in {0, 1}
    BY <1>1, StateTypes
  <2>3. \/ ipos' = ip \/ ipos' = ip + 1
        \/ ipos' = ip - 1 /\ ex = 0 /\ outEnd # outStart /\ h = 0
    <3> HIDE DEF ex, h, ip, iend
    <3>1. ex > 0 \/ ex = 0
      BY <2>2
    <3> QED
      BY <2>1, <2>2, <3>1
  <2> QED
    BY <2>3
<1>5. ipos' = call.ip - 1 => ipos < call.ip
  <2> SUFFICES ASSUME ipos' = call.ip - 1 PROVE ipos < call.ip
    OBVIOUS
  <2>1. dctx.expected = 0 /\ outEnd # outStart /\ hostageByte = 0
    BY <1>2, <1>4
  <2>2. (CASE streamStage = "init" -> InitStage
           [] streamStage = "loadHeader" -> HeaderStage
           [] streamStage = "read" -> ReadStage
           [] streamStage = "load" -> LoadStage
           [] streamStage = "flush" -> FlushStage)
    BY <1>1 DEF IInv, StreamInv
  <2>3. streamStage = "flush"
    <3>1. streamStage \in Stages
      BY <1>1 DEF Types
    <3>2. streamStage # "init"
      BY <1>1, <2>1, <2>2 DEF InitStage
    <3>3. streamStage # "read"
      BY <1>1, <2>1, <2>2 DEF ReadStage
    <3>4. streamStage # "load"
      BY <1>1, <2>1, <2>2 DEF LoadStage
    <3> QED
      BY <3>1, <3>2, <3>3, <3>4 DEF Stages
  <2>4. FlushStage
    BY <2>2, <2>3
  <2> QED
    BY <2>1, <2>4, <1>2 DEF FlushStage
<1> DEFINE ip == call.ip
           op == call.op
<1>6. /\ ipos <= ip /\ opos <= op /\ ip \in Nat /\ op \in Nat /\ ipos \in Nat /\ opos \in Nat
      /\ opos' = op /\ ipos' \in {ip, ip + 1, ip - 1} /\ (ipos' = ip - 1 => ipos < ip)
  BY <1>2, <1>3, <1>4, <1>5
<1> HIDE DEF ip, op
<1>7. opos' >= opos
  BY <1>6
<1>8. ipos' >= ipos
  BY <1>6
<1> QED
  BY <1>7, <1>8 DEF Forward

\* What is delivered between two calls is no more than the source holds.
Settled == ~call.on /\ ~IsError(ret) => opos <= OutputSize(src)

LEMMA SettledBetweenCalls ==
  ASSUME CurrentOnly, IInv
  PROVE  Settled
<1> SUFFICES ASSUME ~call.on, ~IsError(ret) PROVE opos <= OutputSize(src)
  BY DEF Settled
<1>1. Types
  BY DEF IInv
<1>2. src \in Sources /\ opos \in Nat /\ Len(src) \in Nat \ {0} /\ OutputSize(src) \in Nat
  BY <1>1, StateTypes
<1>3. ASSUME NEW k \in 1 .. Len(src) PROVE FrameOutEnd(src[k]) <= OutputSize(src)
  BY <1>2, <1>3, SourceBound
<1>4. ASSUME Boundary(ipos, opos, 0) PROVE opos <= OutputSize(src)
  <2>1. PICK k \in 0 .. Len(src) : opos = FramesContent(src, k)
    BY <1>4 DEF Boundary
  <2>2. CASE k = 0
    <3>1. opos = 0
      BY <2>1, <2>2 DEF FramesContent
    <3> QED
      BY <3>1, <1>2
  <2>3. CASE k # 0
    <3>1. k \in 1 .. Len(src) /\ k > 0
      BY <2>3, <1>2
    <3>2. opos = FrameOutEnd(src[k])
      BY <2>1, <3>1, <1>2, NextFrame
    <3> QED
      BY <3>1, <3>2, <1>3
  <2> QED
    BY <2>2, <2>3
<1>5. ASSUME NEW k \in 1 .. Len(src), NEW o, o = opos, o <= FrameOutEnd(src[k])
      PROVE  opos <= OutputSize(src)
  <2> DEFINE end == FrameOutEnd(src[k])
             total == OutputSize(src)
  <2>1. end \in Nat /\ end <= total /\ total \in Nat /\ opos <= end /\ opos \in Nat
    <3>1. src[k] \in Frame
      BY <1>2, SourceTypes
    <3> QED
      BY <3>1, <1>2, <1>3, <1>5, FrameTypes
  <2> HIDE DEF end, total
  <2>2. opos <= total
    BY <2>1
  <2> QED
    BY <2>2 DEF total
<1>6. CASE api = "stream"
  BY <1>4, <1>5, <1>6, PlacedBetweenCalls DEF Placed
<1>7. CASE api = "bufferless"
  <2>1. \/ Boundary(ipos, opos, 0) \/ \E i \in 1 .. Len(src) : InHeaderOf(i) \/ InFrame(i)
    BY <1>7 DEF IInv, LoopInv
  <2>2. ASSUME NEW i \in 1 .. Len(src), InHeaderOf(i) \/ InFrame(i)
        PROVE  opos <= FrameOutEnd(src[i])
    <3> DEFINE f == src[i]
               out == f.out
               content == f.content
               dec == dctx.decodedSize
    <3>1. f \in Frame /\ dctx \in Context /\ dec \in Nat /\ ipos \in Nat /\ outStart \in Nat
      BY <1>1, <1>2, SourceTypes, StateTypes
    <3>2. out \in Nat /\ content \in Nat /\ FrameOutEnd(f) = out + content
      BY <3>1, FrameTypes DEF FrameOutEnd
    <3>3. opos = out \/ (opos = out + dec /\ dec <= content)
      <4>1. CASE InHeaderOf(i)
        BY <4>1 DEF InHeaderOf
      <4>2. CASE InFrame(i)
        <5>1. /\ Decoding(dctx, mem, outBuffSize, fParams, f, ipos, outStart)
              /\ opos = out + dec
          BY <4>2 DEF InFrame
        <5>2. dec <= content
          BY <1>2, <3>1, <5>1, Inside
        <5> QED
          BY <5>1, <5>2
      <4> QED
        BY <2>2, <4>1, <4>2
    <3> HIDE DEF f, out, content, dec
    <3>4. opos <= out + content
      BY <3>1, <3>2, <3>3
    <3> QED
      BY <3>2, <3>4 DEF f
  <2> QED
    BY <2>1, <2>2, <1>4, <1>5
<1>8. api \in {"stream", "bufferless"}
  BY <1>1, DStreamAssumption DEF Types
<1> QED
  BY <1>6, <1>7, <1>8

LEMMA LoadKeeps ==
  ASSUME Types, Load
  PROVE  /\ UNCHANGED userVars /\ (call' = Idle \/ ret' = ret)
         /\ call'.on \/ IsError(ret')
<1> DEFINE skipped == IsSkipFrame(dctx)
           ex == dctx.expected
           toLoad == ex - inPos
           left == call.iend - call.ip
           loaded == Smaller(toLoad, left)
           free == inBuffSize - inPos
           place == call.ip + (loaded - ex)
           r == DecompressContinue(src, dctx, mem, outStart, outBuffSize - outStart, place, ex)
<1>1. toLoad \in Int /\ left \in Int /\ free \in Int
  <2>1. /\ ex \in Nat /\ inPos \in Nat /\ inBuffSize \in Nat
        /\ call.iend \in Nat /\ call.ip \in Nat
    BY StateTypes, CallTypes
  <2> HIDE DEF ex
  <2> QED
    BY <2>1
<1>2. loaded \in Int /\ loaded <= toLoad
  <2> HIDE DEF toLoad, left
  <2> QED
    BY <1>1 DEF Smaller
<1>3. (CASE ~skipped /\ toLoad > free ->
              /\ Fail(Error.corruption_detected)
              /\ UNCHANGED <<dctx, mem, streamStage, inPos, outEnd>>
         [] loaded < toLoad /\ (skipped \/ toLoad <= free) ->
              /\ call' = [call EXCEPT !.ip = @ + loaded, !.more = FALSE]
              /\ inPos' = inPos + loaded
              /\ UNCHANGED <<userVars, ret, dctx, mem, streamStage, outEnd>>
         [] loaded = toLoad /\ (skipped \/ toLoad <= free) ->
              IF IsError(r.ret)
              THEN /\ Fail(r.ret)
                   /\ inPos' = inPos + loaded
                   /\ UNCHANGED <<dctx, mem, streamStage, outEnd>>
              ELSE /\ Took(r, skipped)
                   /\ inPos' = 0
                   /\ call' = [call EXCEPT !.ip = @ + loaded]
                   /\ UNCHANGED <<userVars, ret>>)
  BY DEF Load
<1>5. call.on /\ call \in CallRecord /\ IsError(Error.corruption_detected)
  BY DEF Load, In, Types, IsError, Error
<1>6. /\ [call EXCEPT !.ip = @ + loaded, !.more = FALSE].on
      /\ [call EXCEPT !.ip = @ + loaded].on
  <2> HIDE DEF loaded
  <2> QED
    BY <1>5 DEF CallRecord
<1> HIDE DEF skipped, toLoad, loaded, free, r
<1>4. \/ ~skipped /\ toLoad > free
      \/ loaded < toLoad /\ (skipped \/ toLoad <= free)
      \/ loaded = toLoad /\ (skipped \/ toLoad <= free)
  BY <1>1, <1>2
<1> QED
  BY <1>3, <1>4, <1>5, <1>6 DEF Fail

LEMMA ConsumeKeeps ==
  ASSUME Types, ConsumeHeader
  PROVE  UNCHANGED userVars
BY DEF ConsumeHeader, Fail

\* Inside a call the caller's side does not change.
LEMMA CallKeeps ==
  ASSUME CurrentOnly, IInv, [Next]_vars, call'.on
  PROVE  opos' = opos /\ src' = src /\ ret' = ret
<1>1. ~Idle.on
  BY IdleFields
<1>2. ASSUME NEW n \in InSizes, NEW k \in OutSizes, CallStream(n, k)
      PROVE  opos' = opos /\ src' = src /\ ret' = ret
  BY <1>2 DEF CallStream, userVars
<1>3. ASSUME NEW s \in Sources, InitDStream(s) PROVE FALSE
  BY <1>3 DEF InitDStream
<1>4. CASE DecompressStream
  <2>1. CASE StartFrame
    BY <2>1 DEF StartFrame, userVars
  <2>2. CASE LoadHeader
    BY <1>1, <2>2 DEF LoadHeader
  <2>3. CASE SinglePass
    BY <1>1, <2>3 DEF SinglePass, Fail, userVars
  <2>4. CASE ConsumeHeader
    BY <1>1, <2>4 DEF ConsumeHeader, Fail, userVars
  <2>5. CASE ReadDirect
    <3>1. call' = Idle \/ UNCHANGED <<userVars, ret>>
      BY <2>5 DEF ReadDirect, Fail
    <3> QED
      BY <1>1, <3>1 DEF userVars
  <2>6. CASE ReadStops
    BY <2>6 DEF ReadStops, userVars
  <2>7. CASE StartLoad
    BY <2>7 DEF StartLoad, userVars
  <2>8. CASE Load
    <3>1. UNCHANGED userVars /\ (call' = Idle \/ ret' = ret)
      BY <2>8, LoadKeeps DEF IInv
    <3> QED
      BY <1>1, <3>1 DEF userVars
  <2>9. CASE Flush
    BY <2>9 DEF Flush, userVars
  <2>10. CASE Return /\ streamStage # "loadHeader"
    <3>1. call' = Idle
      BY <2>10 DEF Return
    <3> QED
      BY <1>1, <3>1
  <2> QED
    BY <1>4, <2>1, <2>2, <2>3, <2>4, <2>5, <2>6, <2>7, <2>8, <2>9, <2>10, NoLegacyStep
       DEF DecompressStream
<1>5. CASE BufferlessStep
  BY <1>5, Zenon DEF BufferlessStep, IInv, Bounds
<1>6. CASE UNCHANGED vars
  BY <1>6 DEF vars, userVars
<1> QED
  BY <1>2, <1>3, <1>4, <1>5, <1>6 DEF Next

\* No step but the beginning of another source takes the positions back.
LEMMA NextForward ==
  ASSUME CurrentOnly, IInv, [Next]_vars, sources' = sources
  PROVE  Forward /\ src' = src
<1>1. /\ Types /\ Bounds /\ ipos \in Nat /\ opos \in Nat
  BY StateTypes DEF IInv
<1>2. ipos <= ipos /\ opos <= opos
  BY <1>1
<1>3. UNCHANGED userVars => Forward /\ src' = src
  BY <1>2 DEF userVars, Forward
<1>4. ASSUME NEW n \in InSizes, NEW k \in OutSizes, CallStream(n, k) PROVE UNCHANGED userVars
  BY <1>4 DEF CallStream
<1>5. ASSUME NEW s \in Sources, InitDStream(s) PROVE FALSE
  <2>1. sources' = sources + 1 /\ sources \in Nat
    BY <1>1, <1>5, ConstantTypes DEF InitDStream, Types
  <2> QED
    BY <2>1
<1>6. CASE DecompressStream
  <2>1. CASE StartFrame
    BY <1>3, <2>1 DEF StartFrame
  <2>2. CASE LoadHeader
    <3>1. call.on /\ opos' = opos /\ src' = src /\ (ipos' = call.iend \/ ipos' = ipos)
      BY <2>2 DEF LoadHeader, InHeader, In
    <3>2. ipos <= call.iend
      <4> DEFINE ip == call.ip
                 iend == call.iend
                 istart == call.istart
      <4>1. ipos = istart /\ istart <= ip /\ ip <= iend /\ ip \in Nat /\ iend \in Nat
        BY <1>1, <3>1, CallTypes DEF Bounds
      <4> HIDE DEF ip, iend, istart
      <4>2. ipos <= iend
        BY <1>1, <4>1
      <4> QED
        BY <4>2 DEF iend
    <3> QED
      BY <1>2, <3>1, <3>2 DEF Forward
  <2>3. CASE SinglePass
    BY <1>3, <2>3 DEF SinglePass, Fail
  <2>4. CASE ConsumeHeader
    BY <1>3, <2>4, ConsumeKeeps DEF IInv
  <2>5. CASE ReadDirect
    BY <1>3, <2>5 DEF ReadDirect, Fail
  <2>6. CASE ReadStops
    BY <1>3, <2>6 DEF ReadStops
  <2>7. CASE StartLoad
    BY <1>3, <2>7 DEF StartLoad
  <2>8. CASE Load
    BY <1>1, <1>3, <2>8, LoadKeeps
  <2>9. CASE Flush
    BY <1>3, <2>9 DEF Flush
  <2>10. CASE Return /\ streamStage # "loadHeader"
    <3>1. src' = src
      BY <2>10 DEF Return
    <3> QED
      BY <2>10, <3>1, ReturnForward
  <2> QED
    BY <1>6, <2>1, <2>2, <2>3, <2>4, <2>5, <2>6, <2>7, <2>8, <2>9, <2>10, NoLegacyStep
       DEF DecompressStream
<1>7. CASE BufferlessStep
  BY <1>7, BufferlessInv, LoopKeeps
<1>8. CASE UNCHANGED vars
  BY <1>3, <1>8 DEF vars
<1> QED
  BY <1>3, <1>4, <1>5, <1>6, <1>7, <1>8 DEF Next

\* Delivered output is never more than the source holds.
Within == IsError(ret) \/ opos <= OutputSize(src)

\* Positions only grow while a source is decoded, and what is delivered of it is never
\* more than it holds (zstd_decompress.c 2943-2983).
THEOREM CurrentNeverBack ==
  ASSUME CurrentOnly
  PROVE  Spec => NeverBack
<1>1. Init => Within
  <2> SUFFICES ASSUME Init PROVE Within
    OBVIOUS
  <2>1. IInv /\ ~call.on
    BY InitInv, IdleFields DEF Init, InitWith
  <2> QED
    BY <2>1, SettledBetweenCalls DEF Settled, Within
<1>2. IInv => Settled
  BY SettledBetweenCalls
<1>3. IInv /\ Within /\ Settled' /\ [Next]_vars => Within'
  <2> SUFFICES ASSUME IInv, Within, Settled', [Next]_vars PROVE Within'
    OBVIOUS
  <2>1. CASE call'.on
    <3>1. opos' = opos /\ src' = src /\ ret' = ret
      BY <2>1, CallKeeps
    <3> QED
      BY <3>1 DEF Within
  <2>2. CASE ~call'.on
    BY <2>2 DEF Settled, Within
  <2> QED
    BY <2>1, <2>2
<1>4. IInv /\ Within' /\ [Next]_vars =>
        [sources' = sources => /\ ipos' >= ipos /\ opos' >= opos
                               /\ IsError(ret') \/ opos' <= OutputSize(src)]_vars
  <2> SUFFICES ASSUME IInv, Within', [Next]_vars, sources' = sources
               PROVE  /\ ipos' >= ipos /\ opos' >= opos
                      /\ IsError(ret') \/ opos' <= OutputSize(src)
    OBVIOUS
  <2>1. Forward /\ src' = src
    BY NextForward
  <2> QED
    BY <2>1 DEF Forward, Within
<1> QED
  BY <1>1, <1>2, <1>3, <1>4, CurrentInv, PTL DEF Spec, NeverBack

\* What reaches no further than the end of a frame it begins in or behind the beginning of.
Fits(k, p, r) == k \in 1 .. Len(src) /\ src[k].at <= p /\ p + r <= FrameEnd(src[k])

LEMMA FitsTheFrame ==
  ASSUME src \in Sources, NEW k, NEW p \in Nat, NEW r \in Int, Fits(k, p, r),
         NEW i \in 1 .. Len(src), p \in FramesSize(src, i - 1) .. FramesSize(src, i) - 1
  PROVE  p + r <= FramesSize(src, i)
<1> DEFINE from == FramesSize(src, i - 1)
           to == FramesSize(src, i)
           ak == src[k].at
           ek == FrameEnd(src[k])
<1>1. k \in 1 .. Len(src) /\ ak <= p /\ p + r <= ek /\ Len(src) \in Nat
  BY SourceTypes DEF Fits
<1>2. /\ from \in Nat /\ to \in Nat /\ ak \in Nat /\ ek \in Nat /\ to = FrameEnd(src[i])
      /\ from <= p /\ p < to
  <2>1. i - 1 \in 0 .. Len(src) /\ i \in 0 .. Len(src) /\ i > 0
    BY <1>1
  <2>2. from \in Nat /\ to \in Nat /\ to = FrameEnd(src[i])
    BY <2>1, NextFrame
  <2>3. ak \in Nat /\ ek \in Nat
    BY <1>1, SourceTypes, FrameTypes
  <2>4. p \in from .. to - 1
    OBVIOUS
  <2> HIDE DEF from, to
  <2>5. from <= p /\ p < to
    BY <2>2, <2>4
  <2> QED
    BY <2>2, <2>3, <2>5
<1>3. CASE i = k
  BY <1>1, <1>2, <1>3
<1>4. CASE i < k
  <2>1. to <= ak
    BY <1>1, <1>2, <1>4, FrameOrder
  <2> HIDE DEF to, ak
  <2> QED
    BY <2>1, <1>1, <1>2
<1>5. CASE k < i
  <2>1. ek <= src[i].at /\ src[i].at < to
    BY <1>1, <1>2, <1>5, FrameOrder, FrameSize
  <2>2. src[i].at \in Nat
    BY SourceTypes, FrameTypes
  <2> DEFINE ai == src[i].at
  <2>3. ek <= ai /\ ai < to /\ ai \in Nat
    BY <2>1, <2>2
  <2>4. p + r <= ek /\ ek \in Nat /\ to \in Nat
    BY <1>1, <1>2
  <2> HIDE DEF to, ek, ai
  <2>5. p + r <= to
    BY <2>3, <2>4
  <2> QED
    BY <2>5 DEF to
<1> QED
  BY <1>1, <1>3, <1>4, <1>5

\* What lies in frame k, and reaches no further than the block header behind its header.
HeaderEnd(f) == IF f.kind = Skippable THEN f.at + SkipHeader + BlockHeader ELSE FrameEnd(f)
WithinHeader(k, p, r) ==
  /\ k \in 1 .. Len(src) /\ src[k].at <= p /\ p < FrameEnd(src[k])
  /\ p + r <= HeaderEnd(src[k])

\* A byte is of one frame.
LEMMA OneFrame ==
  ASSUME src \in Sources, NEW k \in 1 .. Len(src), NEW p \in Nat, src[k].at <= p,
         p < FrameEnd(src[k]),
         NEW i \in 1 .. Len(src), p \in FramesSize(src, i - 1) .. FramesSize(src, i) - 1
  PROVE  i = k
<1> DEFINE from == FramesSize(src, i - 1)
           to == FramesSize(src, i)
           ak == src[k].at
           ek == FrameEnd(src[k])
<1>1. /\ from \in Nat /\ to \in Nat /\ ak \in Nat /\ ek \in Nat
      /\ to = FrameEnd(src[i]) /\ from = src[i].at /\ from <= p /\ p < to
  <2>1. i - 1 \in 0 .. Len(src) /\ i \in 0 .. Len(src) /\ i > 0 /\ i - 1 < Len(src)
        /\ (i - 1) + 1 = i
    BY SourceTypes
  <2>2. from \in Nat /\ to \in Nat /\ to = FrameEnd(src[i]) /\ from = src[(i - 1) + 1].at
    BY <2>1, NextFrame
  <2>3. ak \in Nat /\ ek \in Nat /\ p \in from .. to - 1
    BY SourceTypes, FrameTypes
  <2> HIDE DEF from, to
  <2>4. from <= p /\ p < to
    BY <2>2, <2>3
  <2> QED
    BY <2>1, <2>2, <2>3, <2>4
<1>2. i < k => to <= ak
  BY <1>1, FrameOrder
<1>3. k < i => ek <= from
  BY <1>1, FrameOrder
<1>4. ak <= p /\ p < ek /\ i \in Nat /\ k \in Nat
  BY SourceTypes
<1> HIDE DEF from, to, ak, ek
<1>5. ~(i < k)
  BY <1>1, <1>2, <1>4
<1>6. ~(k < i)
  <2> SUFFICES ASSUME k < i PROVE FALSE
    OBVIOUS
  <2>1. ek <= from /\ from <= p /\ p < ek
    BY <1>1, <1>3, <1>4
  <2>2. from \in Nat /\ ek \in Nat
    BY <1>1
  <2> QED
    BY <2>1, <2>2
<1> QED
  BY <1>4, <1>5, <1>6

\* A call that ends in the header of a frame.
LEMMA HeaderFits ==
  ASSUME CurrentOnly, IInv, LoadHeader, ~call'.on
  PROVE  IF frame = 0 THEN ipos' = SourceSize(src) ELSE WithinHeader(frame, ipos', ret')
<1> DEFINE wanted == Header.ret
           ip == call.ip
           iend == call.iend
           left == iend - ip
           at == ThisFrame.at
           hsize == ThisFrame.hsize
           end == FrameEnd(ThisFrame)
           last == HeaderEnd(ThisFrame)
           size == SourceSize(src)
<1>1. /\ Types /\ call.on /\ Cur = ip /\ HeaderStage /\ ip <= iend /\ iend <= size
      /\ streamStage = "loadHeader"
  BY AtStage DEF LoadHeader, InHeader, Stages
<1>2. wanted > 0 /\ ipos' = iend /\ ret' = Larger(HeaderPrefix + 1, wanted) - lhSize' + BlockHeader
      /\ lhSize' = lhSize + left /\ wanted - lhSize > left
  <2>1. IF wanted - lhSize > left
        THEN /\ lhSize' = lhSize + left /\ ipos' = iend
             /\ ret' = Larger(HeaderPrefix + 1, wanted) - lhSize' + BlockHeader
             /\ call' = Idle
        ELSE call' = [call EXCEPT !.ip = ip + (wanted - lhSize)]
    BY DEF LoadHeader
  <2>2. wanted > 0
    BY DEF LoadHeader
  <2>3. [call EXCEPT !.ip = ip + (wanted - lhSize)].on
    BY <1>1 DEF Types, CallRecord
  <2> HIDE DEF wanted, left
  <2> QED
    BY <2>1, <2>2, <2>3
<1>3. /\ ip \in Nat /\ iend \in Nat /\ lhSize \in Nat /\ size \in Nat /\ frame \in Nat
      /\ src \in Sources
  BY <1>1, StateTypes, CallTypes DEF Types
<1>4. CASE frame = 0
  <2>1. ip = size
    BY <1>1, <1>4 DEF HeaderStage
  <2> HIDE DEF ip, iend, size
  <2>2. iend = size
    BY <2>1, <1>1, <1>3
  <2> QED
    BY <2>2, <1>2, <1>4 DEF size
<1>5. CASE frame > 0
  <2>1. /\ frame \in 1 .. Len(src) /\ ThisFrame = src[frame] /\ ThisFrame \in Frame
        /\ at \in Nat /\ hsize \in Nat /\ end \in Nat
    BY <1>1, <1>5, FrameAtHand
  <2>l. last \in Nat
    <3>1. last = end \/ last = at + SkipHeader + BlockHeader
      BY DEF HeaderEnd
    <3> HIDE DEF last, end, at
    <3> QED
      BY <2>1, <3>1 DEF SkipHeader, BlockHeader
  <2>2. ip = at + lhSize
    BY <1>1, <1>5 DEF HeaderStage
  <2>3. wanted \in Nat /\ lhSize < wanted /\ wanted <= hsize
    BY <1>1, <1>2, <1>5, HeaderSays
  <2>4. hsize >= 6 /\ at + hsize <= end /\ at + hsize + BlockHeader <= last
    <3>0. at + hsize <= end
      BY <2>1, <1>3, FrameSize
    <3>1. CASE ThisFrame.kind = Skippable
      <4>1. hsize = SkipHeader
        BY <3>1, <2>1, <1>3, KindFacts DEF SkippableFrame
      <4>2. last = at + SkipHeader + BlockHeader
        BY <3>1 DEF HeaderEnd
      <4> HIDE DEF at, hsize, end, last
      <4> QED
        BY <3>0, <4>1, <4>2, <2>1 DEF SkipHeader, BlockHeader
    <3>2. CASE ThisFrame.kind # Skippable
      <4>1. FrameOfBlocks(ThisFrame) /\ ThisFrame.kind = Zstd
        BY <3>2, <2>1, <1>3, KindFacts DEF CurrentOnly
      <4>2. hsize >= 6
        BY <4>1 DEF FrameOfBlocks
      <4>3. at + hsize + BlockHeader <= end
        BY <3>2, <2>1, <1>3, FrameSize
      <4>4. last = end
        BY <3>2 DEF HeaderEnd
      <4> QED
        BY <3>0, <4>2, <4>3, <4>4
    <3> QED
      BY <3>1, <3>2
  <2> HIDE DEF ip, iend, at, hsize, end, last, wanted
  <2>5. left \in Nat /\ ip + left = iend
    BY <1>1, <1>3
  <2>w. lhSize' = lhSize + left /\ wanted - lhSize > left
    BY <1>2
  <2>6. Larger(HeaderPrefix + 1, wanted) \in Nat /\ Larger(HeaderPrefix + 1, wanted) <= hsize
    BY <2>1, <2>3, <2>4 DEF Larger, HeaderPrefix
  <2> DEFINE most == Larger(HeaderPrefix + 1, wanted)
  <2>7. ret' = most - lhSize' + BlockHeader /\ most \in Nat /\ most <= hsize
    BY <1>2, <2>6
  <2> HIDE DEF most, left
  <2>8. at <= ipos' /\ ipos' < end /\ ipos' + ret' <= last
    <3>1. ipos' = at + lhSize' /\ lhSize' \in Nat
      <4>1. ipos' = iend /\ lhSize' = lhSize + left /\ ip = at + lhSize /\ ip + left = iend
        BY <1>2, <2>2, <2>5
      <4>2. lhSize \in Nat /\ left \in Nat /\ at \in Nat
        BY <1>3, <2>1, <2>5
      <4> QED
        BY <4>1, <4>2
    <3> DEFINE x == ipos'
               y == ret'
               z == lhSize'
    <3>2. /\ x = at + z /\ z \in Nat /\ at \in Nat /\ hsize \in Nat /\ end \in Nat
          /\ y = most - z + BlockHeader /\ most \in Nat /\ most <= hsize
          /\ at + hsize <= end /\ at + hsize + BlockHeader <= last /\ last \in Nat
          /\ z < hsize
      <4>1. lhSize' < hsize
        <5>1. lhSize' = lhSize + left /\ wanted - lhSize > left
          BY <2>w
        <5> QED
          BY <5>1, <1>3, <2>1, <2>3, <2>5
      <4> QED
        BY <3>1, <4>1, <2>1, <2>4, <2>7, <2>l
    <3> HIDE DEF x, y, z
    <3>3. at <= x /\ x < end /\ x + y <= last
      BY <3>2 DEF BlockHeader
    <3> QED
      BY <3>3 DEF x, y
  <2> QED
    BY <2>8, <2>1, <1>5 DEF WithinHeader, at, end, last
<1> QED
  BY <1>3, <1>4, <1>5

\* A hint reaches no further than what is expected and, behind a block that is not the last,
\* the header of the next.
LEMMA HintReach ==
  ASSUME Types, frame > 0, NEW P \in Nat, NEW W, DecodingAt(P, W), dctx.expected > 0
  PROVE  LET h == IF dctx.stage = "decompressBlock" THEN BlockHeader ELSE 0 IN
         ThisFrame.at < P /\ P + (dctx.expected + h) <= FrameEnd(ThisFrame)
<1> DEFINE f == src[frame]
           ex == dctx.expected
           end == FrameEnd(f)
<1>1. /\ frame \in 1 .. Len(src) /\ src \in Sources /\ dctx \in Context /\ ThisFrame = f
      /\ ex \in Nat /\ f \in Frame /\ end \in Nat
  BY FrameAtHand, StateTypes
<1>2. Decoding(dctx, mem, outBuffSize, fParams, f, P, W)
  BY <1>1 DEF DecodingAt
<1>3. f.at < P /\ P + ex <= end
  BY <1>1, <1>2, Inside
<1>4. CASE dctx.stage # "decompressBlock"
  <2> HIDE DEF end, ex
  <2>1. P + (ex + 0) <= end
    BY <1>1, <1>3
  <2> QED
    BY <2>1, <1>1, <1>3, <1>4 DEF end, ex
<1>5. CASE dctx.stage = "decompressBlock"
  <2>1. AtData(dctx, f, P) /\ f.kind # Skippable
    BY <1>2, <1>5 DEF Decoding, Position, AtSkip, AtEnd, AtBlock, AtChecksum
  <2>2. PICK b \in 1 .. Len(f.blocks) :
          /\ b # Len(f.blocks) /\ ex = f.blocks[b].csize /\ P = f.blocks[b].at + BlockHeader
    BY <2>1, <1>5 DEF AtData
  <2>3. FrameOfBlocks(f) /\ Len(f.blocks) \in Nat
    BY <2>1, <1>1, KindFacts, FrameTypes
  <2>4. b < Len(f.blocks)
    BY <2>2, <2>3
  <2>5. /\ f.blocks[b] \in Block /\ TrailerSize(f) \in Nat
        /\ BlockEnd(f.blocks[b]) + BlockHeader + TrailerSize(f) <= end
    <3>1. TrailerSize(f) \in Nat
      BY <1>1, FrameTypes DEF Checksum
    <3>2. f \in Frame /\ end = FrameEnd(f)
      BY <1>1
    <3> HIDE DEF f, end
    <3> QED
      BY <3>1, <3>2, <2>3, <2>4, BlockPlaces
  <2> DEFINE ba == f.blocks[b].at
             tail == TrailerSize(f)
  <2>6. /\ ba \in Nat /\ tail \in Nat /\ P = ba + BlockHeader
        /\ (ba + BlockHeader + ex) + BlockHeader + tail <= end
    BY <2>2, <2>5 DEF BlockEnd, Block
  <2> HIDE DEF ba, tail, end, ex
  <2>7. P + (ex + BlockHeader) <= end
    BY <2>6, <1>1 DEF BlockHeader
  <2> QED
    BY <2>7, <1>1, <1>3, <1>5 DEF end, ex
<1> QED
  BY <1>4, <1>5

\* A call that returns from inside a frame: what it suggests is 1, or ends in the frame.
LEMMA ReturnFits ==
  ASSUME IInv, Return, streamStage # "loadHeader", ret' > 1
  PROVE  Fits(frame, ipos', ret')
<1> DEFINE ip == call.ip
           iend == call.iend
           ex == dctx.expected
           h == hostageByte
           next == IF dctx.stage = "decompressBlock" THEN BlockHeader ELSE 0
           at == ThisFrame.at
           end == FrameEnd(ThisFrame)
<1>1. call.on /\ ~call.more /\ Types /\ Bounds /\ api = "stream" /\ ~IsError(ret) /\ Cur = ip
  BY DEF IInv, Bounds, Return, Cur
<1>t. /\ ip \in Nat /\ ex \in Nat /\ h \in {0, 1} /\ inPos \in Nat /\ next \in Nat
  BY <1>1, StateTypes, CallTypes DEF BlockHeader
<1>2. ex > 0 /\ ipos' = ip /\ ret' = Hint
  <2>1. (CASE ex > 0 ->
                ipos' = ip /\ ret' = Hint /\ hostageByte' = h /\ streamStage' = streamStage
          [] ex = 0 /\ outEnd = outStart /\ h = 0 ->
                ipos' = ip /\ ret' = 0 /\ hostageByte' = h /\ streamStage' = streamStage
          [] ex = 0 /\ outEnd = outStart /\ h = 1 ->
                IF ip >= iend
                THEN ipos' = ip /\ ret' = 1 /\ streamStage' = "read" /\ hostageByte' = h
                ELSE ipos' = ip + 1 /\ ret' = 0 /\ hostageByte' = h /\ streamStage' = streamStage
          [] ex = 0 /\ outEnd # outStart ->
                /\ ipos' = (IF h = 0 THEN ip - 1 ELSE ip)
                /\ hostageByte' = 1 /\ ret' = 1 /\ streamStage' = streamStage)
    BY DEF Return
  <2>2. ex > 0 \/ ex = 0
    <3> HIDE DEF ex
    <3> QED
      BY <1>t
  <2>3. ret' # 0 /\ ret' # 1
    <3> DEFINE r == ret'
    <3>1. r > 1
      OBVIOUS
    <3> HIDE DEF r
    <3>2. r # 0 /\ r # 1
      BY <3>1
    <3> QED
      BY <3>2 DEF r
  <2> HIDE DEF ex, h, ip, iend
  <2> QED
    BY <2>1, <2>2, <2>3, <1>t
<1>3. (CASE streamStage = "init" -> InitStage
         [] streamStage = "loadHeader" -> HeaderStage
         [] streamStage = "read" -> ReadStage
         [] streamStage = "load" -> LoadStage
         [] streamStage = "flush" -> FlushStage)
  BY <1>1 DEF IInv, StreamInv
<1>4. streamStage \in {"init", "read", "load", "flush"}
  BY <1>1 DEF Types, Stages
<1>e. ~(ex = 0)
  <2> HIDE DEF ex
  <2> QED
    BY <1>2
<1>5. frame > 0 /\ inPos <= ip /\ \E W \in {outStart, outEnd} : DecodingAt(ip - inPos, W)
  <2>0. ip - 0 = ip /\ ip + 0 = ip /\ 0 <= ip
    BY <1>t
  <2>1. streamStage # "init"
    BY <1>1, <1>3, <1>e DEF InitStage
  <2>2. CASE streamStage = "read"
    <3>1. ReadStage
      BY <1>3, <2>2
    <3>2. h = 0
      BY <3>1, <1>t, <1>e DEF ReadStage
    <3> QED
      BY <3>1, <3>2, <1>1, <2>0 DEF ReadStage
  <2>3. CASE streamStage = "load"
    BY <1>1, <1>3, <2>3 DEF LoadStage
  <2>4. CASE streamStage = "flush"
    <3>1. FlushStage
      BY <1>3, <2>4
    <3>2. h = 0
      BY <3>1, <1>t, <1>e DEF FlushStage
    <3> QED
      BY <3>1, <3>2, <1>1, <2>0 DEF FlushStage
  <2> QED
    BY <1>4, <2>1, <2>2, <2>3, <2>4
<1>6. PICK W \in {outStart, outEnd} : DecodingAt(ip - inPos, W)
  BY <1>5
<1> DEFINE P == ip - inPos
<1>7. P \in Nat /\ P + inPos = ip
  BY <1>t, <1>5
<1>8. at < P /\ P + (ex + next) <= end
  <2> HIDE DEF P
  <2>1. DecodingAt(P, W)
    BY <1>6 DEF P
  <2>2. frame > 0 /\ P \in Nat /\ dctx.expected > 0 /\ Types
    BY <1>1, <1>2, <1>5, <1>7
  <2>3. LET z == IF dctx.stage = "decompressBlock" THEN BlockHeader ELSE 0 IN
        ThisFrame.at < P /\ P + (dctx.expected + z) <= FrameEnd(ThisFrame)
    BY <2>1, <2>2, HintReach
  <2> QED
    BY <2>3
<1>9. ret' = (ex + next) - inPos
  <2>1. ret' = ex + (next - inPos)
    BY <1>2 DEF Hint
  <2> HIDE DEF ex, next
  <2> QED
    BY <2>1, <1>t
<1>10. frame \in 1 .. Len(src) /\ ThisFrame = src[frame] /\ at \in Nat /\ end \in Nat
  BY <1>1, <1>5, FrameAtHand
<1> DEFINE x == ipos'
           y == ret'
<1>11. x = P + inPos /\ y = (ex + next) - inPos
  BY <1>2, <1>7, <1>9
<1> HIDE DEF P, ex, next, at, end, x, y, ip
<1>12. at <= x /\ x + y <= end
  BY <1>t, <1>7, <1>8, <1>10, <1>11
<1> QED
  BY <1>10, <1>12 DEF Fits, x, y, at, end

\* A step of a call that neither is a return nor ends in a header leaves the call going, or
\* ends it with an error.
LEMMA OtherSteps ==
  ASSUME CurrentOnly, IInv, DecompressStream, ~LoadHeader,
         ~(Return /\ streamStage # "loadHeader")
  PROVE  call'.on \/ IsError(ret')
<1>1. Types
  BY DEF IInv
<1>2. ASSUME NEW x \in CallRecord, x.on, NEW ip, NEW op, NEW more
      PROVE  /\ [x EXCEPT !.ip = ip].on /\ [x EXCEPT !.op = op].on /\ [x EXCEPT !.more = more].on
             /\ [x EXCEPT !.ip = ip, !.more = more].on /\ [x EXCEPT !.op = op, !.more = more].on
             /\ [x EXCEPT !.ip = ip, !.op = op, !.more = more].on
  BY <1>2 DEF CallRecord
<1>3. call \in CallRecord
  BY <1>1 DEF Types
<1>4. CASE StartFrame
  BY <1>4 DEF StartFrame, In
<1>5. CASE SinglePass
  <2>1. call.on
    BY <1>5 DEF SinglePass, InHeader, In
  <2> DEFINE d == DecompressFrame(src[Layout[src][call.istart].frame], call.oend - call.op)
  <2>2. IF IsError(d)
        THEN ret' = d
        ELSE call' = [call EXCEPT !.ip = call.istart + SinglePassSize, !.op = @ + d,
                                  !.more = FALSE]
    BY <1>5, Zenon DEF SinglePass, Fail
  <2> HIDE DEF d
  <2>3. ASSUME ~IsError(d) PROVE call'.on
    BY <1>2, <1>3, <2>1, <2>2, <2>3, Zenon
  <2> QED
    BY <2>2, <2>3
<1>6. CASE ConsumeHeader
  <2>1. call.on
    BY <1>6 DEF ConsumeHeader, InHeader, In
  <2>2. IsError(Error.windowTooLarge) /\ IsError(Error.memory_allocation)
    BY DEF IsError, Error
  <2> QED
    BY <1>6, <2>1, <2>2 DEF ConsumeHeader, Fail
<1>7. CASE ReadDirect
  <2> DEFINE skipped == IsSkipFrame(dctx)
             cap == IF skipped THEN 0 ELSE outBuffSize - outStart
             r == DecompressContinue(src, dctx, mem, outStart, cap, call.ip, dctx.expected)
  <2>1. call.on
    BY <1>7 DEF ReadDirect, In
  <2>2. IF IsError(r.ret)
        THEN Fail(r.ret) /\ UNCHANGED <<dctx, mem, streamStage, outEnd>>
        ELSE /\ Took(r, skipped)
             /\ call' = [call EXCEPT !.ip = @ + dctx.expected]
             /\ UNCHANGED <<userVars, ret>>
    BY <1>7 DEF ReadDirect
  <2>3. [call EXCEPT !.ip = @ + dctx.expected].on
    BY <2>1, <1>3 DEF CallRecord
  <2> HIDE DEF r, skipped
  <2> QED
    BY <2>2, <2>3 DEF Fail
<1>8. CASE ReadStops
  <2>1. call.on /\ call' = [call EXCEPT !.more = FALSE]
    BY <1>8 DEF ReadStops, In
  <2> QED
    BY <1>2, <1>3, <2>1
<1>9. CASE StartLoad
  BY <1>9 DEF StartLoad, In
<1>10. CASE Load
  BY <1>1, <1>10, LoadKeeps
<1>11. CASE Flush
  <2>1. call.on
    BY <1>11 DEF Flush, In
  <2>2. \/ call' = [call EXCEPT !.op = @ + Smaller(call.oend - call.op, outEnd - outStart)]
        \/ call' = [call EXCEPT !.op = @ + Smaller(call.oend - call.op, outEnd - outStart),
                                !.more = FALSE]
    BY <1>11 DEF Flush
  <2> QED
    BY <1>2, <1>3, <2>1, <2>2
<1> QED
  BY <1>4, <1>5, <1>6, <1>7, <1>8, <1>9, <1>10, <1>11, NoLegacyStep DEF DecompressStream

\* What a step suggests to the caller stays within the frame.
LEMMA HintStep ==
  ASSUME CurrentOnly, IInv, HintWithinFrame, [Next]_vars, ret' \in Int,
         ipos' \in Nat
  PROVE  HintWithinFrame'
<1> SUFFICES ASSUME api' = "stream", ~call'.on, ret' > 0, ret' # NoReturn,
                    NEW i \in 1 .. Len(src'),
                    ipos' \in FramesSize(src', i - 1) .. FramesSize(src', i) - 1
             PROVE  ipos' + ret' <= HintEnd(i)'
  BY DEF HintWithinFrame, HintEnd
<1>1. Types /\ src \in Sources /\ Len(src) \in Nat
  BY StateTypes DEF IInv
<1>e. ASSUME src' = src, ipos' + ret' <= FramesSize(src, i) PROVE ipos' + ret' <= HintEnd(i)'
  <2> DEFINE to == FramesSize(src, i)
             behind == src[i].at + SkipHeader + BlockHeader
             x == ipos' + ret'
  <2>1. to \in Nat /\ behind \in Nat
    <3>1. i \in 0 .. Len(src) /\ i \in 1 .. Len(src)
      BY <1>e, <1>1
    <3>2. src[i].at \in Nat
      BY <3>1, <1>1, SourceTypes, FrameTypes
    <3>3. to \in Nat
      BY <3>1, <1>1, NextFrame
    <3> DEFINE a == src[i].at
    <3>4. behind = a + SkipHeader + BlockHeader /\ a \in Nat
      BY <3>2
    <3> HIDE DEF a, behind
    <3>5. behind \in Nat
      BY <3>4 DEF SkipHeader, BlockHeader
    <3> QED
      BY <3>3, <3>5
  <2>2. HintEnd(i)' = to \/ HintEnd(i)' = Larger(to, behind)
    BY <1>e DEF HintEnd
  <2>3. x \in Int /\ x <= to
    BY <1>e
  <2> HIDE DEF to, behind, x
  <2>4. x <= Larger(to, behind)
    BY <2>1, <2>3 DEF Larger
  <2>5. x <= HintEnd(i)'
    BY <2>2, <2>3, <2>4
  <2> QED
    BY <2>5 DEF x
<1>2. ASSUME NEW n \in InSizes, NEW k \in OutSizes, CallStream(n, k) PROVE FALSE
  BY <1>2 DEF CallStream
<1>3. ASSUME NEW s \in Sources, InitDStream(s) PROVE FALSE
  BY <1>3 DEF InitDStream
<1>4. ~IsError(ret')
  <2> DEFINE r == ret'
  <2>1. r > 0 /\ r \in Int
    OBVIOUS
  <2> HIDE DEF r
  <2>2. ~IsError(r)
    BY <2>1 DEF IsError
  <2> QED
    BY <2>2 DEF r
<1>5. src' = src /\ Fits(frame, ipos', ret') => ipos' + ret' <= HintEnd(i)'
  BY <1>1, <1>e, FitsTheFrame
<1>6. ASSUME src' = src, ret' = 1 PROVE ipos' + ret' <= HintEnd(i)'
  <2> DEFINE from == FramesSize(src, i - 1)
             to == FramesSize(src, i)
             p == ipos'
  <2>1. from \in Nat /\ to \in Nat /\ p \in from .. to - 1
    <3>1. i - 1 \in 0 .. Len(src) /\ i \in 0 .. Len(src)
      BY <1>1, <1>6
    <3> QED
      BY <3>1, <1>1, <1>6, NextFrame
  <2> HIDE DEF from, to, p
  <2>2. p + 1 <= to
    BY <2>1
  <2> QED
    BY <2>2, <1>6, <1>e DEF p, to
<1>7. CASE DecompressStream
  <2>3. CASE LoadHeader
    <3>1. src' = src
      BY <2>3 DEF LoadHeader
    <3>2. IF frame = 0 THEN ipos' = SourceSize(src) ELSE WithinHeader(frame, ipos', ret')
      BY <2>3, HeaderFits
    <3>3. CASE frame = 0
      <4> DEFINE to == FramesSize(src, i)
                 size == SourceSize(src)
                 p == ipos'
      <4>1. p = size /\ i \in 1 .. Len(src)
        BY <3>1, <3>2, <3>3
      <4>2. to \in Nat /\ size \in Nat /\ to <= size
        <5>1. i \in 0 .. Len(src) /\ i > 0
          BY <4>1, <1>1
        <5> QED
          BY <4>1, <5>1, <1>1, NextFrame, SourceBound
      <4>3. p \in FramesSize(src, i - 1) .. to - 1
        BY <3>1
      <4>4. FramesSize(src, i - 1) \in Nat
        <5>1. i - 1 \in 0 .. Len(src)
          BY <4>1, <1>1
        <5> QED
          BY <5>1, <1>1, NextFrame
      <4> DEFINE from == FramesSize(src, i - 1)
      <4> HIDE DEF to, size, p, from
      <4>5. FALSE
        BY <4>1, <4>2, <4>3, <4>4 DEF from
      <4> QED
        BY <4>5
    <3>4. CASE frame # 0
      <4>1. /\ frame \in 1 .. Len(src) /\ src[frame].at <= ipos' /\ ipos' < FrameEnd(src[frame])
            /\ ipos' + ret' <= HeaderEnd(src[frame])
        BY <3>2, <3>4 DEF WithinHeader
      <4>2. i = frame
        BY <3>1, <4>1, <1>1, OneFrame
      <4>3. CASE src[i].kind = Skippable
        <5>1. streamStage' = "loadHeader"
          <6>1. streamStage = "loadHeader" /\ streamStage' = streamStage
            BY <2>3 DEF LoadHeader, InHeader, In
          <6> QED
            BY <6>1
        <5> DEFINE to == FramesSize(src, i)
                   behind == src[i].at + SkipHeader + BlockHeader
                   x == ipos' + ret'
        <5>2. HintEnd(i)' = Larger(to, behind)
          BY <3>1, <4>3, <5>1 DEF HintEnd
        <5>3. to \in Nat /\ behind \in Nat /\ x \in Int
          <6>1. i \in 0 .. Len(src) /\ i \in 1 .. Len(src)
            BY <3>1, <1>1
          <6>2. src[i].at \in Nat
            BY <6>1, <1>1, SourceTypes, FrameTypes
          <6>3. to \in Nat
            BY <6>1, <1>1, NextFrame
          <6>4. behind \in Nat
            BY <6>2 DEF SkipHeader, BlockHeader
          <6>5. x \in Int
            OBVIOUS
          <6> QED
            BY <6>3, <6>4, <6>5
        <5>4. x <= behind
          BY <4>1, <4>2, <4>3 DEF HeaderEnd
        <5> HIDE DEF to, behind, x
        <5>5. x <= Larger(to, behind)
          BY <5>3, <5>4 DEF Larger
        <5>6. x <= HintEnd(i)'
          BY <5>2, <5>5
        <5> QED
          BY <5>6 DEF x
      <4>4. CASE src[i].kind # Skippable
        <5>1. HeaderEnd(src[i]) = FramesSize(src, i)
          <6>1. i \in 0 .. Len(src) /\ i > 0
            BY <3>1, <1>1
          <6> QED
            BY <4>4, <6>1, <1>1, NextFrame DEF HeaderEnd
        <5> QED
          BY <3>1, <4>1, <4>2, <5>1, <1>e
      <4> QED
        BY <4>3, <4>4
    <3> QED
      BY <3>1, <3>2, <3>3, <3>4
  <2>4. CASE Return /\ streamStage # "loadHeader"
    <3>1. src' = src
      BY <2>4 DEF Return
    <3>2. CASE ret' > 1
      BY <3>1, <3>2, <2>4, <1>5, ReturnFits
    <3>3. CASE ~(ret' > 1)
      <4> DEFINE r == ret'
      <4>1. r > 0 /\ r \in Int /\ ~(r > 1)
        BY <3>3
      <4> HIDE DEF r
      <4>2. r = 1
        BY <4>1
      <4> QED
        BY <4>2, <3>1, <1>6 DEF r
    <3> QED
      BY <3>2, <3>3
  <2>5. LoadHeader \/ (Return /\ streamStage # "loadHeader")
    BY <1>7, <1>4, OtherSteps
  <2> QED
    BY <2>3, <2>4, <2>5
<1>8. CASE BufferlessStep
  <2>1. api' = api /\ api = "bufferless"
    BY <1>8, LoopKeeps, Zenon DEF BufferlessStep
  <2> QED
    BY <2>1
<1>9. CASE UNCHANGED vars
  <2>1. /\ api' = api /\ call' = call /\ ret' = ret /\ src' = src /\ ipos' = ipos
        /\ streamStage' = streamStage
    BY <1>9 DEF vars, userVars, zdsVars
  <2> QED
    BY <2>1 DEF HintWithinFrame, HintEnd
<1> QED
  BY <1>2, <1>3, <1>7, <1>8, <1>9 DEF Next

\* A suggested size never reaches beyond the current frame (zstd.h 342), or, while the header
\* of a skippable frame is incomplete, the block header it counts behind that.
THEOREM CurrentHint ==
  ASSUME CurrentOnly
  PROVE  Spec => []HintWithinFrame
<1>1. Init => HintWithinFrame
  BY DEF Init, InitWith, HintWithinFrame
<1>2. IInv => ret \in Int /\ ipos \in Nat
  BY StateTypes DEF IInv
<1>3. IInv /\ HintWithinFrame /\ (ret \in Int /\ ipos \in Nat)' /\ [Next]_vars => HintWithinFrame'
  BY HintStep
<1> QED
  BY <1>1, <1>2, <1>3, CurrentInv, PTL DEF Spec

=============================================================================
