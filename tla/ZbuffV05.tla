----------------------------- MODULE ZbuffV05 -----------------------------
(***************************************************************************)
(* zstd_v05.c: the bufferless and the buffered decoder of frames of v0.5.  *)
(* The buffer holds exactly the window.                                    *)
(***************************************************************************)
EXTENDS LegacyContext

HeaderSize == 5

\* ZSTDv05_getFrameParams: n bytes of the header of frame i are there.
GetFrameParams(s, i, n) ==
  IF n < HeaderSize THEN HeaderSize
  ELSE IF i = 0 THEN Error.prefix_unknown
  ELSE IF s[i].kind # 5 THEN Error.prefix_unknown ELSE 0

\* ZSTDv05_decompressBegin_usingDict, with a dictionary of raw content.
Begin == DecompressBeginUsingDict

\* One call on exactly the bytes expected; dst joins the history even when
\* only a header is read.
DecompressContinue05(s, d0, m, dst, cap, p, size) ==
  LET d == CheckContinuity(d0, dst)
      e == Layout[s][p]
  IN IF size # d0.expected THEN Outcome(Error.srcSize_wrong, d0, m)
     ELSE IF d.stage = "getFrameHeaderSize"
     THEN IF e.el # "header" THEN Outcome(Error.prefix_unknown, d, m)
          ELSE Outcome(0, ToBlockHeader(d), m)
     ELSE BlockStages(s, d, m, dst, cap, e)

DecompressInit(z) ==
  [z EXCEPT !.stage = "readHeader", !.hPos = 0, !.inPos = 0, !.outStart = 0,
            !.outEnd = 0, !.zd = Begin]

-----------------------------------------------------------------------------
\* The stages of the loop.  i: the frame that starts where the header does.

ReadHeader(s, i, z, c) ==
  LET size == GetFrameParams(s, i, c.iend - c.ip)
      n == z.hPos + c.iend - c.ip
  IN IF IsError(size) THEN Step(z, c, size)
     ELSE IF size > 0
     THEN Step([z EXCEPT !.hPos = n, !.stage = "loadHeader"], [c EXCEPT !.ip = c.iend], size - n)
     ELSE Step([z EXCEPT !.stage = "decodeHeader", !.window = s[i].window], c, Running)

\* Complete the header.  When it still is not, the call takes all it was given.
LoadHeader(s, i, z, c) ==
  LET n == Smaller(HeaderSize - z.hPos, c.iend - c.ip)
      size == GetFrameParams(s, i, z.hPos + n)
      y == [z EXCEPT !.hPos = @ + n]
  IN IF IsError(size) THEN Step(y, c, size)
     ELSE IF size > 0 THEN Step(y, [c EXCEPT !.ip = c.iend], size - y.hPos)
     ELSE Step([y EXCEPT !.stage = "decodeHeader", !.window = s[i].window],
               [c EXCEPT !.ip = @ + n], Running)

\* Size the buffers; what was read of the header goes to inBuff.
DecodeHeader(z, c) ==
  Step([Grow(z, BlockMax, z.window) EXCEPT
          !.inPos = z.hPos, !.hPos = 0,
          !.stage = IF z.hPos > 0 THEN "load" ELSE "read"], c, Running)

Read(s, z, c) ==
  LET need == z.zd.expected
      r == DecompressContinue05(s, z.zd, z.m, z.outStart, z.outBuffSize - z.outStart,
                                c.ip, need)
  IN IF need = 0 THEN Step([z EXCEPT !.stage = "init"], [c EXCEPT !.more = FALSE], Running)
     ELSE IF c.iend - c.ip >= need
     THEN IF IsError(r.ret) THEN Step(z, c, r.ret)
          ELSE Step(Decoded(z, r, FALSE), [c EXCEPT !.ip = @ + need], Running)
     ELSE IF c.ip = c.iend THEN Step(z, [c EXCEPT !.more = FALSE], Running)
     ELSE Step([z EXCEPT !.stage = "load"], c, Running)

Load(s, z, c) ==
  LET need == z.zd.expected
      n == Smaller(need - z.inPos, c.iend - c.ip)
      y == [z EXCEPT !.inPos = @ + n]
      d == [c EXCEPT !.ip = @ + n]
      r == DecompressContinue05(s, z.zd, z.m, z.outStart, z.outBuffSize - z.outStart,
                                d.ip - need, need)
  IN IF need - z.inPos > z.inBuffSize - z.inPos THEN Step(z, c, Error.corruption_detected)
     ELSE IF y.inPos < need THEN Step(y, [d EXCEPT !.more = FALSE], Running)
     ELSE IF IsError(r.ret) THEN Step(y, d, r.ret)
     ELSE Step(Decoded([y EXCEPT !.inPos = 0], r, FALSE), d, Running)

Flush(z, c) == FlushTo(z, c, BlockMax)

LoopStep(s, i, z, c) ==
  CASE z.stage = "init" -> Step(z, c, Error.init_missing)
    [] z.stage = "readHeader" -> ReadHeader(s, i, z, c)
    [] z.stage = "loadHeader" -> LoadHeader(s, i, z, c)
    [] z.stage = "decodeHeader" -> DecodeHeader(z, c)
    [] z.stage = "read" -> Read(s, z, c)
    [] z.stage = "load" -> Load(s, z, c)
    [] z.stage = "flush" -> Flush(z, c)

Hint(z) ==
  z.zd.expected + (IF z.zd.expected > BlockHeader THEN BlockHeader ELSE 0) - z.inPos

=============================================================================
