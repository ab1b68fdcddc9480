------------------------------- MODULE Blocks -------------------------------
(***************************************************************************)
(* Sequences of literals and matches, and the blocks they make up: what    *)
(* the decoder of the current format and those of older ones share.  A     *)
(* destination is what is written so far from its base on, some of it      *)
(* beyond op, the end of what is produced; ext is the segment before it.   *)
(* A context is a destination with the tables and the offsets that one     *)
(* block leaves to the next.  All positions count from 0.                  *)
(***************************************************************************)
EXTENDS Huf

RECURSIVE Tile(_, _)

WILDCOPY_OVERLENGTH == 8
MaxOff == 31

NoTable == [tableLog |-> 0, double |-> FALSE, cell |-> <<>>]
NoParams == [window |-> 0, fcs |-> -1, cksum |-> FALSE, dictID |-> 0]
NewContext == [ret |-> 0, op |-> 0, out |-> <<>>, ext |-> <<>>, lit |-> <<>>,
               litEntropy |-> FALSE, fseEntropy |-> FALSE, huf |-> NoTable,
               ll |-> NoTable, of |-> NoTable, ml |-> NoTable, rep |-> <<1, 4, 8>>,
               nbSeq |-> 0, dumps |-> 0, dumpsEnd |-> 0, dictID |-> 0, params |-> NoParams]
\* What a function returns in a context; what a failure leaves is never used.
Returns(ctx, ret) == [ctx EXCEPT !.ret = ret]

-----------------------------------------------------------------------------
\* Copies.

Write(out, at, bytes) ==
  SubSeq(out, 1, at) \o bytes \o SubSeq(out, at + Len(bytes) + 1, Len(out))

\* Bytes of a source, some of them perhaps beyond its end.
Bytes(src, from, n) == [i \in 1 .. n |-> Byte(src, from + i - 1)]

\* n bytes, one after the other, from dist bytes before: they repeat themselves.
CopyBack(out, at, dist, n) == Write(out, at, Tile(Slice(out, at - dist, dist), Larger(n, 0)))

\* wildcopy writes eight bytes at a time, at least once.
Wild(n) == 8 * Larger((n + 7) \div 8, 1)
WildCopy(out, at, lit, from, n) == Write(out, at, Bytes(lit, from, Wild(n)))

\* The first eight bytes of a match, by a copy of eight when dist is eight or
\* more, and else of four bytes and four; dist becomes at least eight.
EightBytes(out, at, dist) ==
  LET four == CopyBack(out, at, dist, 4)
      from == at - dist + <<0, 1, 2, 1, 4, 4, 4, 4>>[dist + 1]
  IN IF dist >= 8 THEN [out |-> CopyBack(out, at, dist, 8), dist |-> dist]
     ELSE [out |-> Write(four, at + 4, Slice(four, from, 4)),
           dist |-> at - from + <<8, 8, 8, 7, 8, 9, 10, 11>>[dist + 1]]

\* A match of length bytes in the segment itself, eight bytes at a time as long as
\* there is room for what that writes too much.
CopyMatch(out, at, dist, length, cap, MinMatch) ==
  LET e == EightBytes(out, at, dist)
      op == at + 8
      wild == Wild(cap - WILDCOPY_OVERLENGTH - op)
      near == IF op < cap - WILDCOPY_OVERLENGTH THEN CopyBack(e.out, op, e.dist, wild) ELSE e.out
      done == Larger(op, cap - WILDCOPY_OVERLENGTH)
  IN IF at + length > cap - (16 - MinMatch)
     THEN CopyBack(near, done, e.dist, at + length - done)
     ELSE CopyBack(e.out, op, e.dist, Wild(length - 8))

-----------------------------------------------------------------------------
\* One sequence [litLength, matchLength, offset] into m, a destination with its
\* room cap, its literals lit and how many of them are used, litPtr.

\* A match that starts before the segment: in ext, perhaps on into the segment.
\* Rest copies what is left of it from the base of the segment.
FromExt(m, seq, oLitEnd, Rest(_, _, _, _)) ==
  LET from == Len(m.ext) - (seq.offset - oLitEnd)
      length1 == Len(m.ext) - from
      all == Write(m.out, oLitEnd, Slice(m.ext, from, seq.matchLength))
      part == Write(m.out, oLitEnd, Slice(m.ext, from, length1))
  IN IF from + seq.matchLength <= Len(m.ext) THEN all
     ELSE Rest(part, oLitEnd + length1, oLitEnd + length1, seq.matchLength - length1)

\* The end of an execSequence: literals up to oLitEnd are copied into m.out.
ExecMatch(m, seq, oLitEnd, Copy(_, _, _, _)) ==
  LET end == oLitEnd + seq.matchLength
  IN IF seq.offset > oLitEnd + Len(m.ext) THEN Fail(Error.corruption_detected)
     ELSE [m EXCEPT !.ret = end - m.op, !.op = end, !.litPtr = @ + seq.litLength,
                    !.out = IF seq.offset > oLitEnd THEN FromExt(m, seq, oLitEnd, Copy)
                            ELSE Copy(m.out, oLitEnd, seq.offset, seq.matchLength)]

\* Literals and match where there is room for what wild copies write too much.
ExecRoomy(m, seq, MinMatch) ==
  LET oLitEnd == m.op + seq.litLength
      \* what is left of a match that began in ext is short, or near the end
      Copy(out, at, dist, n) ==
        IF at # oLitEnd /\ (at > m.cap - WILDCOPY_OVERLENGTH \/ n < MinMatch)
        THEN CopyBack(out, at, dist, n)
        ELSE CopyMatch(out, at, dist, n, m.cap, MinMatch)
  IN ExecMatch([m EXCEPT !.out = WildCopy(@, m.op, m.lit, m.litPtr, seq.litLength)],
               seq, oLitEnd, Copy)

\* execSequence of formats 0.2 to 0.7: no match may start in the last eight bytes.
OldExecSequence(m, seq, MinMatch) ==
  LET oLitEnd == m.op + seq.litLength
  IN IF oLitEnd > m.cap - WILDCOPY_OVERLENGTH \/ oLitEnd + seq.matchLength > m.cap
     THEN Fail(Error.dstSize_tooSmall)
     ELSE IF m.litPtr + seq.litLength > Len(m.lit) THEN Fail(Error.corruption_detected)
     ELSE ExecRoomy(m, seq, MinMatch)

-----------------------------------------------------------------------------
\* Tables for the three codes of a sequence.

\* A table of the kind type says: [ret, table].  kinds names the types; one that is
\* not known to it is described in src.
SeqTable(type, kinds, src, max, maxLog, rleMax, default, previous, repeats,
         Rle(_), ReadCount(_, _), Build(_, _)) ==
  LET Described(n) ==
        IF n.tableLog > maxLog THEN Fail(Error.corruption_detected)
        ELSE [ret |-> n.ret, table |-> Build(n.norm, n.tableLog)]
  IN IF type = kinds.rle
     THEN IF src = <<>> THEN Fail(Error.srcSize_wrong)
          ELSE IF Byte(src, 0) > rleMax THEN Fail(Error.corruption_detected)
          ELSE [ret |-> 1, table |-> Rle(Byte(src, 0))]
     ELSE IF type = kinds.basic THEN [ret |-> 0, table |-> default]
     ELSE IF type = kinds.repeat
     THEN IF repeats THEN [ret |-> 0, table |-> previous] ELSE Fail(Error.corruption_detected)
     ELSE Then(ReadCount(src, max), Described)

\* The number of sequences: [ret, nbSeq], ret the bytes it takes.
LONGNBSEQ == 32512
NbSeq(src) ==
  LET b == Byte(src, 0)
  IN IF src = <<>> THEN Fail(Error.srcSize_wrong)
     ELSE IF b < 128 THEN [ret |-> 1, nbSeq |-> b]
     ELSE IF b = 255
     THEN IF Len(src) < 3 THEN Fail(Error.srcSize_wrong)
          ELSE [ret |-> 3, nbSeq |-> LE16(src, 1) + LONGNBSEQ]
     ELSE IF Len(src) < 2 THEN Fail(Error.srcSize_wrong)
     ELSE [ret |-> 2, nbSeq |-> (b - 128) * 256 + Byte(src, 1)]

\* decodeSeqHeaders of formats 0.6 on; LL, OF and ML build a table of the type given
\* from the bytes given.
SeqHeaders(ctx, src, LL(_, _), OF(_, _), ML(_, _)) ==
  LET n == NbSeq(src)
      types == Byte(src, n.ret)
      at == n.ret + 1
      ll == LL(types \div 64, From(src, at))
      of == OF((types \div 16) % 4, From(src, at + ll.ret))
      ml == ML((types \div 4) % 4, From(src, at + ll.ret + of.ret))
  IN IF IsError(n.ret) THEN n
     ELSE IF n.nbSeq = 0 THEN [ctx EXCEPT !.ret = 1, !.nbSeq = 0]
     ELSE IF n.ret + 4 > Len(src) THEN Fail(Error.srcSize_wrong)
     ELSE IF IsError(ll.ret) THEN Fail(Error.corruption_detected)
     ELSE IF IsError(of.ret) THEN Fail(Error.corruption_detected)
     ELSE IF IsError(ml.ret) THEN Fail(Error.corruption_detected)
     ELSE [ctx EXCEPT !.ret = at + ll.ret + of.ret + ml.ret, !.nbSeq = n.nbSeq,
                      !.ll = ll.table, !.of = of.table, !.ml = ml.table]

\* Formats 0.1 to 0.5: dumps of long lengths, then the tables.  n is the number of
\* sequences and its size; the three are built one after the other, and fail as
\* they do.
DumpSeqHeaders(ctx, src, n, LL(_, _), OF(_, _), ML(_, _)) ==
  LET b == Byte(src, n.ret)
      long == (b \div 2) % 2 = 1
      length == IF long THEN Byte(src, n.ret + 1) * 256 + Byte(src, n.ret + 2)
                ELSE (b % 2) * 256 + Byte(src, n.ret + 1)
      dumps == n.ret + (IF long THEN 3 ELSE 2)
      at == dumps + length
      ll == LL(b \div 64, From(src, at))
      of == OF((b \div 16) % 4, From(src, at + ll.ret))
      ml == ML((b \div 4) % 4, From(src, at + ll.ret + of.ret))
  IN IF at > Len(src) - 3 THEN Fail(Error.srcSize_wrong)
     ELSE IF IsError(ll.ret) THEN ll
     ELSE IF IsError(of.ret) THEN of
     ELSE IF IsError(ml.ret) THEN ml
     ELSE [ctx EXCEPT !.ret = at + ll.ret + of.ret + ml.ret, !.nbSeq = n.nbSeq,
                      !.ll = ll.table, !.of = of.table, !.ml = ml.table,
                      !.dumps = dumps, !.dumpsEnd = at]

\* A table of those formats; an offset or match length of one symbol needs two bytes.
DumpTable(type, kinds, src, max, maxLog, mask, min, rawLog, previous, repeats,
          ReadCount(_, _), Build(_, _)) ==
  LET Described(n) ==
        IF n.tableLog > maxLog THEN Fail(Error.corruption_detected)
        ELSE [ret |-> n.ret, table |-> Build(n.norm, n.tableLog)]
      count == ReadCount(src, max)
  IN IF type = kinds.rle
     THEN IF Len(src) < min THEN Fail(Error.srcSize_wrong)
          ELSE [ret |-> 1, table |-> FSE_buildDTable_rle(Byte(src, 0) % mask)]
     ELSE IF type = kinds.basic THEN [ret |-> 0, table |-> FSE_buildDTable_raw(rawLog)]
     ELSE IF type = kinds.repeat
     THEN IF repeats THEN [ret |-> 0, table |-> previous] ELSE Fail(Error.corruption_detected)
     ELSE IF IsError(count.ret) THEN Fail(Error.GENERIC)
     ELSE Described(count)

-----------------------------------------------------------------------------
\* Decoding sequences.  st holds the stream and, in x, y and z, the states of the
\* tables of literal lengths, offsets and match lengths.

Refilled(st, when, Reload(_)) == IF when THEN [st EXCEPT !.d = Reload(@)] ELSE st
Skip(st, n) == [st EXCEPT !.d = BIT_skipBits(@, n)]
Look(st, n) == BIT_lookBits(st.d, n)

\* updateState of each table.
Updated(st, cell) == cell.newState + Look(st, cell.nbBits)
NextLL(st) == LET c == st.ll.cell[st.x] IN Skip([st EXCEPT !.x = Updated(st, c)], c.nbBits)
NextOF(st) == LET c == st.of.cell[st.y] IN Skip([st EXCEPT !.y = Updated(st, c)], c.nbBits)
NextML(st) == LET c == st.ml.cell[st.z] IN Skip([st EXCEPT !.z = Updated(st, c)], c.nbBits)

\* Formats 0.6 on.  Each code is a base and a number of bits to add; Offset(rep,
\* value, bits) is the offset they mean and the recent offsets it leaves.  early:
\* on 64 bits the container is refilled before the literal length is read.
CodedSequence(st, ll, of, ml, limit, early, ReadOffset(_, _), Offset(_, _, _), Reload(_)) ==
  LET full == ll.bits + of.bits + ml.bits > (IF early THEN 30 ELSE 31)
      o == ReadOffset(st, of)
      chosen == Offset(st.rep, o.value, of.bits)
      s1 == Skip(o.st, ml.bits)
      s2 == Refilled(Refilled(s1, Word = 4 /\ ml.bits + ll.bits >= limit, Reload),
                     Word = 8 /\ early /\ full, Reload)
      s3 == Refilled(Skip(s2, ll.bits), Word = 4 \/ (~early /\ full), Reload)
      s4 == NextOF(Refilled(NextML(NextLL(s3)), Word = 4, Reload))
  IN [st |-> [s4 EXCEPT !.rep = chosen.rep],
      seq |-> [offset |-> chosen.offset, matchLength |-> ml.base + Look(o.st, ml.bits),
               litLength |-> ll.base + Look(s2, ll.bits)]]

PlainOffset(st, of, Reload(_)) ==
  [value |-> IF of.bits = 0 THEN 0 ELSE of.base + Look(st, of.bits),
   st |-> Refilled(Skip(st, of.bits), of.bits # 0 /\ Word = 4, Reload)]

Pushed(rep, offset) == [offset |-> offset, rep |-> <<offset, rep[1], rep[2]>>]
\* The n-th recent offset, or value in its place, becomes the most recent.
Recalled(rep, n, value) ==
  IF n = 0 THEN [offset |-> rep[1], rep |-> rep]
  ELSE [offset |-> value, rep |-> <<value, rep[1], IF n = 1 THEN rep[3] ELSE rep[2]>>]

\* initDState of the three tables, in the order of the stream.
InitStates(ctx, d, Reload(_)) ==
  LET x == InitDState(d, ctx.ll)
      y == InitDState(Reload(x.d), ctx.of)
      z == InitDState(Reload(y.d), ctx.ml)
  IN [d |-> Reload(z.d), x |-> x.state, y |-> y.state, z |-> z.state,
      ll |-> ctx.ll, of |-> ctx.of, ml |-> ctx.ml, rep |-> ctx.rep,
      dumps |-> ctx.dumps, dumpsEnd |-> ctx.dumpsEnd, offset |-> 0, prevOffset |-> 0,
      pos |-> ctx.op]

\* n sequences more, as long as the stream is not overrun: [m, st, left].
Regenerate(m, st, n, Reload(_), Decode(_), Exec(_, _)) ==
  LET RECURSIVE More(_, _, _)
      More(dst, states, k) ==
        LET r == [states EXCEPT !.d = Reload(@)]
            s == Decode(r)
            e == Exec(dst, s.seq)
        IN IF r.d.status > Completed \/ k = 0
           THEN [ret |-> 0, m |-> dst, st |-> r, left |-> k]
           ELSE IF IsError(e.ret) THEN e
           ELSE More(e, s.st, k - 1)
  IN More(m, st, n)

Destination(ctx, cap) ==
  [ret |-> 0, op |-> ctx.op, out |-> ctx.out, ext |-> ctx.ext, cap |-> cap,
   lit |-> ctx.lit, litPtr |-> 0]

\* The literals left behind the last sequence.
LastLiterals(ctx, m) ==
  LET left == Len(m.lit) - m.litPtr
  IN IF left > m.cap - m.op THEN Fail(Error.dstSize_tooSmall)
     ELSE [ctx EXCEPT !.ret = m.op + left - ctx.op, !.op = m.op + left,
                      !.out = Write(m.out, m.op, From(m.lit, m.litPtr))]

\* decompressSequences, behind the headers; Keep(ctx, st) is what the context
\* keeps of the states, Ended what the stream must be at the end.
WithSequences(ctx, src, cap, Init(_), Reload(_), First(_), Decode(_), Exec(_, _),
              Ended(_), Keep(_, _)) ==
  LET d == Init(src)
      r == Regenerate(Destination(ctx, cap), First(InitStates(ctx, d, Reload)), ctx.nbSeq,
                      Reload, Decode, Exec)
  IN IF IsError(d.ret) THEN Fail(Error.corruption_detected)
     ELSE IF IsError(r.ret) THEN r
     ELSE IF ~Ended(r) THEN Fail(Error.corruption_detected)
     ELSE LastLiterals(Keep(ctx, r.st), r.m)
NoSequences(ctx, cap) == LastLiterals(ctx, Destination(ctx, cap))

-----------------------------------------------------------------------------
\* Sequences of formats 0.1 to 0.5.

\* A length code at its maximum goes on in the dumps: one byte, or after 255 three
\* (Long says what they mean and how many they are).
DumpLength(st, code, max, src, late, Long(_, _)) ==
  LET add == Byte(src, st.dumps)
      long == Long(src, st.dumps + 1)
      next == IF add < 255 THEN st.dumps + 1 ELSE st.dumps + 1 + long.size
      over == late /\ next > st.dumpsEnd
  IN IF code # max THEN [value |-> code, dumps |-> st.dumps]
     ELSE [value |-> IF over THEN max + 255 ELSE IF add < 255 THEN max + add ELSE long.value,
           dumps |-> IF next >= st.dumpsEnd THEN st.dumpsEnd - 1 ELSE next]

ThreeBytes(src, at) == [value |-> LE24(src, at), size |-> 3]

\* The offset of a code: 0 is the one before last, or last when literals come first;
\* from 0.2 on, codes beyond 26 are not meant to be used.
DumpPrefix(code) == IF code <= 26 THEN 2 ^ (code - 1) ELSE 1
DumpOffset(st, code, llCode, Prefix(_)) ==
  IF code = 0 THEN IF llCode # 0 THEN st.offset ELSE st.prevOffset
  ELSE Prefix(code) + Look(st, code - 1)

\* decodeSequence of formats 0.1 to 0.4: each state is left as soon as it is read.
DumpSequence(st, max, minMatch, always, Prefix(_), Length(_, _, _), Reload(_)) ==
  LET ll == Length(st, st.ll.cell[st.x].symbol, max.ll)
      code == st.of.cell[st.y].symbol
      s1 == Refilled(NextOF(NextLL([st EXCEPT !.dumps = ll.dumps])), Word = 4, Reload)
      offset == DumpOffset(s1, code, st.ll.cell[st.x].symbol, Prefix)
      s2 == Refilled(Skip(s1, Larger(code - 1, 0)), Word = 4, Reload)
      ml == Length(s2, st.ml.cell[st.z].symbol, max.ml)
      s3 == NextML(s2)
  IN [st |-> [s3 EXCEPT !.dumps = ml.dumps, !.offset = offset,
                        !.prevOffset = IF always \/ code # 0 \/ ll.value = 0 THEN st.offset ELSE @],
      seq |-> [offset |-> offset, litLength |-> ll.value, matchLength |-> ml.value + minMatch]]

-----------------------------------------------------------------------------
\* Blocks and frames.

CopyRawBlockUnbounded(ctx, src, cap) ==
  [ctx EXCEPT !.ret = Len(src), !.op = @ + Len(src), !.out = Write(@, ctx.op, src)]
CopyRawBlock(ctx, src, cap) ==
  IF Len(src) > cap - ctx.op THEN Fail(Error.dstSize_tooSmall)
  ELSE [ctx EXCEPT !.ret = Len(src), !.op = @ + Len(src), !.out = Write(@, ctx.op, src)]

Repeated(ctx, byte, n, cap) ==
  IF n > cap - ctx.op THEN Fail(Error.dstSize_tooSmall)
  ELSE [ctx EXCEPT !.ret = n, !.op = @ + n, !.out = Write(@, ctx.op, [i \in 1 .. n |-> byte])]

\* decompressFrame: blocks from position at on, up to the one that ends the frame.
BlocksFrom(ctx, src, at, size, Header(_), Decode(_, _, _)) ==
  LET RECURSIVE Block(_, _)
      Block(c, start) ==
        LET h == Header(From(src, start))
            body == start + size
            d == Decode(c, h, Slice(src, body, h.ret))
        IN IF IsError(h.ret) THEN h
           ELSE IF h.ret > Len(src) - body THEN Fail(Error.srcSize_wrong)
           ELSE IF h.ends THEN [ret |-> body, ctx |-> c]
           ELSE IF IsError(d.ret) THEN d
           ELSE IF h.last THEN [ret |-> body + h.ret, ctx |-> d]
           ELSE Block(d, body + h.ret)
  IN Block(ctx, at)

\* A new destination that does not follow the one before makes that one ext.
CheckContinuity(ctx, follows) ==
  IF follows THEN ctx
  ELSE [ctx EXCEPT !.ext = Slice(ctx.out, 0, ctx.op), !.out = <<>>, !.op = 0]

\* The first n bytes of s repeated for ever.
Tile(s, n) == IF n <= Len(s) THEN SubSeq(s, 1, n) ELSE s \o Tile(s, n - Len(s))

=============================================================================
