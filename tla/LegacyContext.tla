--------------------------- MODULE LegacyContext ---------------------------
(***************************************************************************)
(* What the bufferless decoders of v0.4 to v0.7 have in common.  Their     *)
(* frames end with a block header of type bt_end; a block of type bt_rle   *)
(* is refused.  Each version's own stages are in ZbuffV04 ... ZbuffV07.    *)
(***************************************************************************)
EXTENDS DContext

\* The outcome of one ...decompressContinue, and of one step of a ZBUFF loop.
Outcome(ret, d, m) == [ret |-> ret, d |-> d, m |-> m]
Step(z, c, ret) == [z |-> z, c |-> c, ret |-> ret]
Running == 1000     \* the loop goes on

\* Stages decodeBlockHeader and decompressBlock, on the element e of the source.
BlockStages(s, d, m, dst, cap, e) ==
  IF d.stage = "decodeBlockHeader"
  THEN IF e.el # "block" THEN Outcome(Error.corruption_detected, d, m)
       ELSE LET b == s[e.frame].blocks[e.block] IN
            IF b.type = "end"
            THEN Outcome(0, [d EXCEPT !.expected = 0, !.stage = "getFrameHeaderSize"], m)
            ELSE Outcome(0, [d EXCEPT !.expected = b.csize, !.stage = "decompressBlock"], m)
  ELSE IF e.el # "data" \/ s[e.frame].blocks[e.block].type = "rle"
  THEN Outcome(Error.GENERIC, d, m)
  ELSE LET w == DecodeBlock(s, d, m, dst, cap, e) IN
       IF IsError(w.ret) THEN Outcome(w.ret, d, m)
       ELSE Outcome(w.ret, [ToBlockHeader(d) EXCEPT !.previousDstEnd = dst + w.ret,
                              !.decodedSize = @ + w.ret], w.m)

\* A buffered context as ZBUFF...createDCtx leaves it.
NewZbuff ==
  [stage |-> "init", zd |-> DecompressBegin, m |-> [a \in {} |-> 0], hPos |-> 0,
   inPos |-> 0, inBuffSize |-> 0, outStart |-> 0, outEnd |-> 0, outBuffSize |-> 0,
   window |-> 0, blockSize |-> 0, dict |-> FALSE]

\* Room for in and out bytes; a buffer that is large enough stays.  A block is
\* larger than a header: at the scale of a run that has to be said.
Grow(z, in, out) ==
  [z EXCEPT !.inBuffSize = Larger(@, Larger(in, HeaderPrefix)), !.outBuffSize = Larger(@, out),
            !.m = IF z.outBuffSize < out THEN [a \in 0 .. out - 1 |-> 0] ELSE @]

\* After a successful decompressContinue r: a block to flush, or only a header.
Decoded(z, r, skipped) ==
  LET done == [z EXCEPT !.zd = r.d, !.m = r.m] IN
  IF r.ret = 0 /\ ~skipped THEN [done EXCEPT !.stage = "read"]
  ELSE [done EXCEPT !.stage = "flush", !.outEnd = z.outStart + r.ret]

\* Copy what fits of outBuff; start it again when the next block may not fit.
FlushTo(z, c, blockSize) ==
  LET n == Smaller(c.oend - c.op, z.outEnd - z.outStart)
      start == z.outStart + n
      d == [c EXCEPT !.op = @ + n]
  IN IF start < z.outEnd
     THEN Step([z EXCEPT !.outStart = start], [d EXCEPT !.more = FALSE], Running)
     ELSE IF start + blockSize > z.outBuffSize
     THEN Step([z EXCEPT !.stage = "read", !.outStart = 0, !.outEnd = 0], d, Running)
     ELSE Step([z EXCEPT !.stage = "read", !.outStart = start], d, Running)

=============================================================================
