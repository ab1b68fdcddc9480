----------------------------- MODULE ZbuffV06 -----------------------------
(***************************************************************************)
(* zstd_v06.c: the bufferless and the buffered decoder of frames of v0.6.  *)
(***************************************************************************)
EXTENDS LegacyContext

HeaderMin == 5

\* ZSTDv06_getFrameParams: n bytes of the header of frame i are there.
GetFrameParams(s, i, n) ==
  IF n < HeaderMin THEN HeaderMin
  ELSE IF i = 0 THEN Error.prefix_unknown
  ELSE IF s[i].kind # 6 THEN Error.prefix_unknown
  ELSE IF n < s[i].hsize THEN s[i].hsize ELSE 0

\* One call on exactly the bytes expected.  A header longer than the minimum
\* takes a second call.
DecompressContinue06(s, d0, m, dst, cap, p, size) ==
  LET d == IF cap > 0 THEN CheckContinuity(d0, dst) ELSE d0
      e == Layout[s][p]
  IN IF size # d0.expected THEN Outcome(Error.srcSize_wrong, d0, m)
     ELSE IF d.stage = "getFrameHeaderSize"
     THEN IF e.el # "header" THEN Outcome(Error.prefix_unknown, d, m)
          ELSE IF s[e.frame].hsize > HeaderMin
          THEN Outcome(0, [d EXCEPT !.expected = s[e.frame].hsize - HeaderMin,
                                    !.stage = "decodeFrameHeader", !.at = e], m)
          ELSE Outcome(0, ToBlockHeader(d), m)
     ELSE IF d.stage = "decodeFrameHeader" THEN Outcome(0, ToBlockHeader(d), m)
     ELSE BlockStages(s, d, m, dst, cap, e)

\* ZSTDv06_decompressBegin_usingDict, with a dictionary of raw content.
DecompressInit(z) ==
  [z EXCEPT !.stage = "loadHeader", !.hPos = 0, !.inPos = 0, !.outStart = 0,
            !.outEnd = 0, !.zd = DecompressBeginUsingDict]

-----------------------------------------------------------------------------
\* The stages of the loop.  i: the frame that starts where the header does.

\* Load the header; when it is complete, hand it to the context and size the
\* buffers: the window, one block, and what a copy may overrun.
LoadHeader(s, i, z, c) ==
  LET size == GetFrameParams(s, i, z.hPos)
      left == c.iend - c.ip
      h1 == DecompressContinue06(s, z.zd, z.m, NULL, 0, c.ip - z.hPos, z.zd.expected)
      h2 == DecompressContinue06(s, h1.d, z.m, NULL, 0, c.ip - z.hPos + HeaderMin,
                                 h1.d.expected)
      h == IF HeaderMin < z.hPos THEN h2 ELSE h1
      window == s[i].window
      block == Smaller(window, BlockMax)
  IN IF IsError(size) THEN Step(z, c, size)
     ELSE IF size - z.hPos > left
     THEN Step([z EXCEPT !.hPos = @ + left], [c EXCEPT !.ip = c.iend],
               size - (z.hPos + left) + BlockHeader)
     ELSE IF size > 0
     THEN Step([z EXCEPT !.hPos = size], [c EXCEPT !.ip = @ + size - z.hPos], Running)
     ELSE IF IsError(h1.ret) \/ IsError(h.ret) THEN Step(z, c, Smaller(h1.ret, h.ret))
     ELSE Step([Grow(z, block, window + block + 2 * Wildcopy) EXCEPT
                  !.zd = h.d, !.blockSize = block, !.stage = "read"], c, Running)

Read(s, z, c) ==
  LET need == z.zd.expected
      r == DecompressContinue06(s, z.zd, z.m, z.outStart,
                                z.outBuffSize - z.outStart, c.ip, need)
  IN IF need = 0 THEN Step([z EXCEPT !.stage = "init"], [c EXCEPT !.more = FALSE], Running)
     ELSE IF c.iend - c.ip >= need
     THEN IF IsError(r.ret) THEN Step(z, c, r.ret)
          ELSE Step(Decoded(z, r, FALSE), [c EXCEPT !.ip = @ + need], Running)
     ELSE IF c.ip = c.iend THEN Step(z, [c EXCEPT !.more = FALSE], Running)
     ELSE Step([z EXCEPT !.stage = "load"], c, Running)

Load(s, z, c) ==
  LET need == z.zd.expected
      n == Smaller(need - z.inPos, c.iend - c.ip)
      y == [z EXCEPT !.inPos = @ + n]
      d == [c EXCEPT !.ip = @ + n]
      r == DecompressContinue06(s, z.zd, z.m, z.outStart, z.outBuffSize - z.outStart,
                                d.ip - need, need)
  IN IF need - z.inPos > z.inBuffSize - z.inPos THEN Step(z, c, Error.corruption_detected)
     ELSE IF y.inPos < need THEN Step(y, [d EXCEPT !.more = FALSE], Running)
     ELSE IF IsError(r.ret) THEN Step(y, d, r.ret)
     ELSE Step(Decoded([y EXCEPT !.inPos = 0], r, FALSE), d, Running)

Flush(z, c) == FlushTo(z, c, z.blockSize)

LoopStep(s, i, z, c) ==
  CASE z.stage = "init" -> Step(z, c, Error.init_missing)
    [] z.stage = "loadHeader" -> LoadHeader(s, i, z, c)
    [] z.stage = "read" -> Read(s, z, c)
    [] z.stage = "load" -> Load(s, z, c)
    [] z.stage = "flush" -> Flush(z, c)

Hint(z) == z.zd.expected + (IF z.zd.expected > BlockHeader THEN BlockHeader ELSE 0) - z.inPos

=============================================================================
