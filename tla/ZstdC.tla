-------------------------------- MODULE ZstdC --------------------------------
(***************************************************************************)
(* zstd_compress.c, what follows the search for matches: the sequences of  *)
(* a block and the tables they are coded with, blocks and frames, and what *)
(* a dictionary leaves to the first block.  A block state is the recent    *)
(* offsets with a table for literals and one for each code of a sequence,  *)
(* [ct, repeat]; repeat says whether the next block may use it again.      *)
(***************************************************************************)
EXTENDS EntropyC, ZstdFrame

NoCode == [ct |-> <<>>, repeat |-> "none"]
ZSTD_reset_compressedBlockState ==
  [rep |-> <<1, 4, 8>>, huf |-> NoCode, ll |-> NoCode, of |-> NoCode, ml |-> NoCode]

ZSTD_minGain(n) == (n \div 64) + 2

-----------------------------------------------------------------------------
\* Storing the sequences of a block.

\* The recent offsets behind one that is REP_MOVE more than a distance, or one of them.
ZSTD_updateRep(rep, offset, ll0) ==
  LET n == offset + (IF ll0 THEN 1 ELSE 0)
      current == IF n = 3 THEN rep[1] - 1 ELSE rep[n + 1]
  IN IF offset >= 3 THEN <<offset - 2, rep[1], rep[2]>>
     ELSE IF n = 0 THEN rep
     ELSE <<current, rep[1], IF n >= 2 THEN rep[2] ELSE rep[3]>>

\* Of a match as far back as a recent one; which the search for matches prefers.
RecentWhateverLiterals(rep, s) == {c \in 0 .. 2 : ZSTD_updateRep(rep, c, FALSE)[1] = s.off}
RecentAs(rep, s) == {c \in 0 .. 2 : ZSTD_updateRep(rep, c, s.ll = 0)[1] = s.off}
OffsetOf(rep, s, recalls) ==
  IF recalls /\ RecentAs(rep, s) # {}
  THEN CHOOSE c \in RecentAs(rep, s) : \A d \in RecentAs(rep, s) : c <= d
  ELSE s.off + 2

ZSTD_storeSeq(s, offset) == [litLength |-> s.ll, offset |-> offset + 1, mlBase |-> s.ml - MINMATCH]

\* [seqs, rep]: the sequences stored, and the recent offsets they leave.
Stored(block, rep) ==
  LET Upto[k \in 0 .. Len(block.seqs)] ==
        IF k = 0 THEN [seqs |-> <<>>, rep |-> rep]
        ELSE LET p == Upto[k - 1]
                 s == block.seqs[k]
                 offset == OffsetOf(p.rep, s, block.recalls)
             IN [seqs |-> Append(p.seqs, ZSTD_storeSeq(s, offset)),
                 rep |-> ZSTD_updateRep(p.rep, offset, s.ll = 0)]
  IN Upto[Len(block.seqs)]

-----------------------------------------------------------------------------
\* Literals: [ret, out, huf, overflow], huf the code left to the next block.

LiteralsHeader(type, n) ==
  IF n > 4095 THEN LE(type + 12 + 16 * n, 3)
  ELSE IF n > 31 THEN LE(type + 4 + 16 * n, 2)
  ELSE <<type + 8 * n>>

ZSTD_noCompressLiterals(cap, src, huf) ==
  LET out == LiteralsHeader(set_basic, Len(src)) \o src
  IN IF Len(out) > cap THEN Fail(Error.dstSize_tooSmall)
     ELSE [ret |-> Len(out), out |-> out, huf |-> huf, overflow |-> FALSE]

ZSTD_compressRleLiteralsBlock(src, huf) ==
  LET out == Append(LiteralsHeader(set_rle, Len(src)), src[1])
  IN [ret |-> Len(out), out |-> out, huf |-> huf, overflow |-> FALSE]

COMPRESS_LITERALS_SIZE_MIN == 63

\* Too few literals are not tried, and code that gains too little is given up: the
\* code for literals is then the one before.
ZSTD_compressLiterals(prev, params, cap, src) ==
  LET n == Len(src)
      lhSize == CASE n >= 16384 -> 5 [] n >= 1024 -> 4 [] OTHER -> 3
      bits == CASE lhSize = 3 -> 10 [] lhSize = 4 -> 14 [] OTHER -> 18
      valid == prev.repeat = "valid"
      single == n < 256 \/ (valid /\ lhSize = 3)
      c == HUF_compress_internal(cap - lhSize, src, MaxSymbolValue, HufLog, single, prev,
                                 params.fast /\ n <= 1024)
      repeats == c.old.repeat # "none"
      format == CASE lhSize = 3 -> IF single THEN 0 ELSE 1 [] OTHER -> lhSize - 2
      header == BytesOf(BitsOf((IF repeats THEN set_repeat ELSE set_compressed) + 4 * format, 4)
                        \o BitsOf(n, bits) \o BitsOf(c.ret, bits))
      Raw == ZSTD_noCompressLiterals(cap, src, prev)
  IN IF params.plainLiterals \/ n <= (IF valid THEN 6 ELSE COMPRESS_LITERALS_SIZE_MIN) THEN Raw
     ELSE IF cap < lhSize + 1 THEN Fail(Error.dstSize_tooSmall)
     ELSE IF IsError(c.ret) \/ c.ret = 0 \/ c.ret >= n - ZSTD_minGain(n) THEN Raw
     ELSE IF c.ret = 1 THEN ZSTD_compressRleLiteralsBlock(src, prev)
     ELSE [ret |-> lhSize + c.ret, out |-> header \o c.out, overflow |-> c.overflow,
           huf |-> IF repeats THEN prev ELSE [ct |-> c.old.ct, repeat |-> "check"]]

-----------------------------------------------------------------------------
\* Tables of the codes of sequences.

ZSTD_seqToCodes(seqs) ==
  [ll |-> [k \in DOMAIN seqs |-> CodeOf(seqs[k].litLength, LL_base)],
   of |-> [k \in DOMAIN seqs |-> HighBit(seqs[k].offset)],
   ml |-> [k \in DOMAIN seqs |-> CodeOf(seqs[k].mlBase + MINMATCH, ML_base)]]

MIN_SEQ_FOR_DYNAMIC_FSE == 64
MAX_SEQ_FOR_STATIC_FSE == 1000

\* How a table is written, and whether the next block may use it.
ZSTD_selectEncodingType(repeat, most, n, defaultLog, allowed) ==
  IF most = n /\ (~allowed \/ n > 2) THEN [type |-> set_rle, repeat |-> "check"]
  ELSE IF allowed /\ repeat = "valid" /\ n < MAX_SEQ_FOR_STATIC_FSE
  THEN [type |-> set_repeat, repeat |-> repeat]
  ELSE IF allowed /\ (n < MIN_SEQ_FOR_DYNAMIC_FSE \/ most < n \div 2 ^ (defaultLog - 1))
  THEN [type |-> set_basic, repeat |-> "none"]
  ELSE [type |-> set_compressed, repeat |-> "check"]

\* The last code needs no room in the table but the state it starts in.
CompressedTable(cap, codes, count, maxLog) ==
  LET n == Len(codes)
      last == codes[n] + 1
      log == FSE_optimalTableLog(maxLog, n, Len(count) - 1)
      spared == count[last] > 1
      norm == FSE_normalizeCount(log, IF spared THEN [count EXCEPT ![last] = @ - 1] ELSE count,
                                 IF spared THEN n - 1 ELSE n)
      Written(w) == Then(FSE_buildCTable_wksp(norm.norm, log),
                         LAMBDA ct : [ret |-> w.ret, out |-> w.out, ct |-> ct])
  IN IF IsError(norm.ret) THEN norm ELSE Then(FSE_writeNCount(cap, norm.norm, log), Written)

\* [ret, out, ct] of the type chosen; rle does not ask for its room.
ZSTD_buildCTable(cap, type, codes, count, maxLog, norm, defaultLog, prev) ==
  CASE type = set_rle -> [ret |-> 1, out |-> <<codes[1]>>, ct |-> FSE_buildCTable_rle(codes[1])]
    [] type = set_repeat -> [ret |-> 0, out |-> <<>>, ct |-> prev.ct]
    [] type = set_basic -> [ret |-> 0, out |-> <<>>, ct |-> FSE_buildCTable_wksp(norm, defaultLog)]
    [] OTHER -> CompressedTable(cap, codes, count, maxLog)

DefaultMaxOff == 28
\* [ret, out, type, table]
TableFor(cap, codes, maxCode, maxLog, norm, defaultLog, prev) ==
  LET h == FSE_count_simple(codes, MaxSymbolValue)
      s == ZSTD_selectEncodingType(prev.repeat, h.ret, Len(codes), defaultLog,
                                   Len(h.count) - 1 <= maxCode)
      Built(b) == [ret |-> b.ret, out |-> b.out, type |-> s.type,
                   table |-> [ct |-> b.ct, repeat |-> s.repeat]]
  IN Then(ZSTD_buildCTable(cap, s.type, codes, h.count, maxLog, norm, defaultLog, prev), Built)

-----------------------------------------------------------------------------
\* The bits of sequences, from the last to the first.  A container of four bytes is
\* flushed behind each part.

TakenFor64bits == FALSE
MEM_32bits == Word = 4
STREAM_ACCUMULATOR_MIN == IF MEM_32bits THEN STREAM_ACCUMULATOR_MIN_32 ELSE 57

ZSTD_encodeSequences_body(cap, cts, codes, seqs, longOffsets) ==
  LET n == Len(seqs)
      Flushed(e, when) == IF when THEN [e EXCEPT !.b = BIT_flushBits(@)] ELSE e
      Add(e, value, bits) == [e EXCEPT !.b = BIT_addBits(@, value, bits)]
      Put(e, f, k) == LET r == FSE_encodeSymbol(e.b, e[f], cts[f], codes[f][k])
                      IN [e EXCEPT !.b = r.b, ![f] = r.state]
      Narrow == MEM_32bits
      llBits(k) == LL_bits[codes.ll[k] + 1]
      mlBits(k) == ML_bits[codes.ml[k] + 1]
      ofBits(k) == codes.of[k]
      All(k) == ofBits(k) + mlBits(k) + llBits(k)
      extra(k) == ofBits(k) - Smaller(ofBits(k), STREAM_ACCUMULATOR_MIN - 1)
      Offset(e, k) ==
        IF ~longOffsets THEN Add(e, seqs[k].offset, ofBits(k))
        ELSE Add(Flushed(Add(e, seqs[k].offset, extra(k)), extra(k) # 0),
                 seqs[k].offset \div 2 ^ extra(k), ofBits(k) - extra(k))
      b0 == BIT_initCStream(cap)
      Last == [b |-> b0, ll |-> FSE_initCState2(cts.ll, codes.ll[n]),
               of |-> FSE_initCState2(cts.of, codes.of[n]), ml |-> FSE_initCState2(cts.ml, codes.ml[n])]
      First == LET l == Flushed(Add(Last, seqs[n].litLength, llBits(n)), Narrow)
                   m == Flushed(Add(l, seqs[n].mlBase, mlBits(n)), Narrow)
               IN Flushed(Offset(m, n), TRUE)
      One(e, k) ==
        LET c1 == Flushed(Put(Put(e, "of", k), "ml", k), Narrow)
            c2 == Flushed(Put(c1, "ll", k),
                          Narrow \/ All(k) >= 64 - 7 - (LLFSELog + MLFSELog + OffFSELog))
            l == Flushed(Add(c2, seqs[k].litLength, llBits(k)), Narrow /\ llBits(k) + mlBits(k) > 24)
            m == Flushed(Add(l, seqs[k].mlBase, mlBits(k)), Narrow \/ All(k) > 56)
        IN Flushed(Offset(m, k), TRUE)
      RECURSIVE Down(_, _)
      Down(e, k) == IF IsError(e.b.ret) \/ k = 0 THEN e ELSE Down(One(e, k), k - 1)
      end == Down(First, n - 1)
      closed == BIT_closeCStream(FSE_flushCState(FSE_flushCState(FSE_flushCState(
                  end.b, end.ml, cts.ml), end.of, cts.of), end.ll, cts.ll))
  IN IF IsError(b0.ret) \/ closed.ret = 0 THEN Fail(Error.dstSize_tooSmall) ELSE closed

NbSeqField(n) ==
  IF n < 127 THEN <<n>>
  ELSE IF n < LONGNBSEQ THEN <<(n \div 256) + 128, n % 256>>
  ELSE <<255>> \o LE(n - LONGNBSEQ, 2)

\* [ret, out, next, overflow]: next is the block state left, but for its offsets.
ZSTD_compressSequences_internal(prev, params, cap, literals, seqs) ==
  LET longOffsets == params.windowLog > STREAM_ACCUMULATOR_MIN
      codes == ZSTD_seqToCodes(seqs)
      Coded(lit) ==
        LET nb == NbSeqField(Len(seqs))
            at == lit.ret + Len(nb) + 1
            ll == TableFor(cap - at, codes.ll, MaxLL, LLFSELog, LL_defaultNorm, LL_defaultNormLog, prev.ll)
            of == TableFor(cap - at - ll.ret, codes.of, DefaultMaxOff, OffFSELog, OF_defaultNorm,
                           OF_defaultNormLog, prev.of)
            ml == TableFor(cap - at - ll.ret - of.ret, codes.ml, MaxML, MLFSELog, ML_defaultNorm,
                           ML_defaultNormLog, prev.ml)
            tables == at + ll.ret + of.ret + ml.ret
            s == ZSTD_encodeSequences_body(cap - tables,
                   [ll |-> ll.table.ct, of |-> of.table.ct, ml |-> ml.table.ct], codes, seqs, longOffsets)
            seqHead == <<64 * ll.type + 16 * of.type + 4 * ml.type>>
        IN IF cap - lit.ret < 4 THEN Fail(Error.dstSize_tooSmall)
           ELSE IF seqs = <<>>
           THEN [ret |-> lit.ret + 1, out |-> lit.out \o nb, overflow |-> lit.overflow,
                 next |-> [prev EXCEPT !.huf = lit.huf]]
           ELSE IF IsError(ll.ret) THEN ll
           ELSE IF IsError(of.ret) THEN of
           ELSE IF IsError(ml.ret) THEN ml
           ELSE IF IsError(s.ret) THEN s
           ELSE [ret |-> tables + s.ret, overflow |-> lit.overflow \/ s.overflow,
                 out |-> lit.out \o nb \o seqHead \o ll.out \o of.out \o ml.out \o s.out,
                 next |-> [prev EXCEPT !.huf = lit.huf, !.ll = ll.table, !.of = of.table,
                                       !.ml = ml.table]]
  IN Then(ZSTD_compressLiterals(prev.huf, params, cap, literals), Coded)

\* ret is 0 when the block is better left as it is.
ZSTD_compressSequences(prev, params, cap, literals, seqs, size) ==
  LET c == ZSTD_compressSequences_internal(prev, params, cap, literals, seqs)
  IN IF c.ret = Error.dstSize_tooSmall /\ size <= cap THEN [ret |-> 0]
     ELSE IF IsError(c.ret) THEN c
     ELSE IF c.ret >= size - ZSTD_minGain(size) THEN [ret |-> 0]
     ELSE [c EXCEPT !.next.of.repeat = IF @ = "valid" THEN "check" ELSE @]

-----------------------------------------------------------------------------
\* Blocks.  A context keeps the content so far, a dictionary's included, in history.

\* What is stored and coded is confirmed only if it is used.
ZSTD_compressBlock_internal(cctx, cap, block) ==
  LET src == From(Meaning(cctx.history, block), Len(cctx.history))
      stored == Stored(block, cctx.prev.rep)
      c == ZSTD_compressSequences(cctx.prev, cctx.params, cap, block.literals, stored.seqs, Len(src))
      Confirmed(ret, out, prev, overflow) ==
        [ret |-> ret, out |-> out, src |-> src,
         cctx |-> [cctx EXCEPT !.history = @ \o src, !.prev = prev, !.overflow = @ \/ overflow]]
  IN IF Len(src) < MIN_CBLOCK_SIZE + blockHeaderSize + 1 THEN Confirmed(0, <<>>, cctx.prev, FALSE)
     ELSE IF IsError(c.ret) THEN c
     ELSE IF c.ret = 0 THEN Confirmed(0, <<>>, cctx.prev, FALSE)
     ELSE Confirmed(c.ret, c.out, [c.next EXCEPT !.rep = stored.rep], c.overflow)

BlockHeader(last, type, size) == LE((IF last THEN 1 ELSE 0) + 2 * type + 8 * size, 3)

\* The blocks of a chunk: [ret, out, cctx].
ZSTD_compress_frameChunk(cctx, cap, blocks, lastChunk) ==
  LET One(r, k) ==
        LET room == cap - Len(r.out)
            last == lastChunk /\ k = Len(blocks)
            Written(c) ==
              LET out == IF c.ret = 0 THEN BlockHeader(last, bt_raw, Len(c.src)) \o c.src
                         ELSE BlockHeader(last, bt_compressed, c.ret) \o c.out
              IN IF c.ret = 0 /\ Len(out) > room THEN Fail(Error.dstSize_tooSmall)
                 ELSE [ret |-> 0, out |-> r.out \o out, cctx |-> c.cctx]
        IN IF room < blockHeaderSize + MIN_CBLOCK_SIZE THEN Fail(Error.dstSize_tooSmall)
           ELSE Then(ZSTD_compressBlock_internal(r.cctx, room - blockHeaderSize, blocks[k]), Written)
      Upto[k \in 0 .. Len(blocks)] ==
        IF k = 0 THEN [ret |-> 0, out |-> <<>>, cctx |-> cctx]
        ELSE Then(Upto[k - 1], LAMBDA r : One(r, k))
      Ended(r) == [r EXCEPT !.ret = Len(r.out),
                            !.cctx.stage = IF lastChunk /\ r.out # <<>> THEN "ending" ELSE @]
  IN Then(Upto[Len(blocks)], Ended)

-----------------------------------------------------------------------------
\* Frames.

frameHeaderSize_max == 18

\* pledged is the size of the content, as far as it is known.
ZSTD_writeFrameHeader(cap, params, pledged, dictID) ==
  LET idSize == IF params.noDictID \/ dictID = 0 THEN 0
                ELSE IF dictID < 256 THEN 1 ELSE IF dictID < 65536 THEN 2 ELSE 4
      single == params.contentSize /\ 2 ^ params.windowLog >= pledged
      fcs == IF ~params.contentSize \/ pledged < 256 THEN 0 ELSE IF pledged < 65536 + 256 THEN 1 ELSE 2
      descriptor == (CASE idSize = 4 -> 3 [] OTHER -> idSize) + (IF params.checksum THEN 4 ELSE 0)
                    + (IF single THEN 32 ELSE 0) + 64 * fcs
      out == MAGICNUMBER \o <<descriptor>>
             \o (IF single THEN <<>> ELSE <<8 * (params.windowLog - WINDOWLOG_ABSOLUTEMIN)>>)
             \o LE(dictID, idSize)
             \o (CASE fcs = 1 -> LE(pledged - 256, 2) [] fcs = 2 -> LE(pledged, 4)
                   [] OTHER -> IF single THEN <<pledged>> ELSE <<>>)
  IN IF cap < frameHeaderSize_max THEN Fail(Error.dstSize_tooSmall)
     ELSE [ret |-> Len(out), out |-> out]

\* A chunk in frame mode: [ret, out, cctx].
ZSTD_compressContinue_internal(cctx, cap, blocks, lastChunk) ==
  LET Sized(fh, r) ==
        LET made == Len(r.cctx.history) - cctx.start
        IN IF cctx.params.contentSize /\ made > cctx.pledged THEN Fail(Error.srcSize_wrong)
           ELSE [r EXCEPT !.ret = @ + Len(fh), !.out = fh \o @]
      Behind(fh, c) ==
        IF blocks = <<>> THEN [ret |-> Len(fh), out |-> fh, cctx |-> c]
        ELSE Then(ZSTD_compress_frameChunk(c, cap - Len(fh), blocks, lastChunk),
                  LAMBDA r : Sized(fh, r))
  IN IF cctx.stage = "created" THEN Fail(Error.stage_wrong)
     ELSE IF cctx.stage # "init" THEN Behind(<<>>, cctx)
     ELSE Then(ZSTD_writeFrameHeader(cap, cctx.params, cctx.pledged, cctx.dictID),
               LAMBDA h : Behind(h.out, [cctx EXCEPT !.stage = "ongoing"]))

ZSTD_compressContinue(cctx, cap, blocks) ==
  ZSTD_compressContinue_internal(cctx, cap, blocks, FALSE)

\* A block of its own, which no frame is around: ret is 0 when it is left as it is.
ZSTD_compressBlock(cctx, cap, block) ==
  IF cctx.stage = "created" THEN Fail(Error.stage_wrong)
  ELSE ZSTD_compressBlock_internal(cctx, cap, block)

\* The end of a frame, an empty last block if there was none.
ZSTD_writeEpilogue(cctx, cap) ==
  LET empty == BlockHeader(TRUE, bt_raw, 0)
      content == From(cctx.history, cctx.start)
      Summed(r) ==
        LET sum == IF cctx.params.checksum THEN Digest(content) ELSE <<>>
        IN IF cctx.params.checksum /\ cap - Len(r.out) < 4 THEN Fail(Error.dstSize_tooSmall)
           ELSE [ret |-> Len(r.out \o sum), out |-> r.out \o sum,
                 cctx |-> [cctx EXCEPT !.stage = "created"]]
      Ended(h) ==
        IF cctx.stage = "ending" THEN Summed(h)
        ELSE IF cap - Len(h.out) < 4 THEN Fail(Error.dstSize_tooSmall)
        ELSE Summed([h EXCEPT !.out = @ \o empty])
  IN IF cctx.stage = "created" THEN Fail(Error.stage_wrong)
     ELSE IF cctx.stage = "init"
     THEN Then(ZSTD_writeFrameHeader(cap, cctx.params, 0, 0), Ended)
     ELSE Ended([ret |-> 0, out |-> <<>>])

ZSTD_compressEnd(cctx, cap, blocks) ==
  LET Last(c) ==
        LET Whole(e) ==
              IF cctx.params.contentSize /\ cctx.pledged # Len(e.cctx.history) - cctx.start
              THEN Fail(Error.srcSize_wrong)
              ELSE [e EXCEPT !.ret = @ + c.ret, !.out = c.out \o @]
        IN Then(ZSTD_writeEpilogue(c.cctx, cap - c.ret), Whole)
  IN Then(ZSTD_compressContinue_internal(cctx, cap, blocks, TRUE), Last)

-----------------------------------------------------------------------------
\* Dictionaries.

\* Every code up to max has a probability.
ZSTD_checkDictNCount(norm, max) == \A s \in 0 .. max : s < Len(norm) /\ norm[s + 1] # 0

DictTable(dict, at, max, maxLog, used) ==
  LET n == FSE_readNCount(From(dict, at), max)
      Checked0(ct) == IF used >= 0 /\ ~ZSTD_checkDictNCount(n.norm, used)
                      THEN Fail(Error.dictionary_corrupted)
                      ELSE [ret |-> at + n.ret, norm |-> n.norm,
                            table |-> [ct |-> ct, repeat |-> "valid"]]
  IN IF IsError(n.ret) \/ n.tableLog > maxLog THEN Fail(Error.dictionary_corrupted)
     ELSE Then(FSE_buildCTable_wksp(n.norm, n.tableLog), Checked0)

\* [ret, state, content]: ret is the identifier; offsets are checked when it is known
\* how far back they may be.
ZSTD_loadZstdDictionary(params, dict) ==
  LET huf == HUF_readCTable(From(dict, 8), MaxSymbolValue)
      WithHuf(h) ==
        Then(DictTable(dict, 8 + h.ret, MaxOff, OffFSELog, -1), LAMBDA of :
        Then(DictTable(dict, of.ret, MaxML, MLFSELog, MaxML), LAMBDA ml :
        Then(DictTable(dict, ml.ret, MaxLL, LLFSELog, MaxLL), LAMBDA ll :
          LET content == From(dict, ll.ret + 12)
              rep == [i \in 1 .. 3 |-> LE32(dict, ll.ret + 4 * (i - 1))]
          IN IF \/ ll.ret + 12 > Len(dict)
                \/ ~ZSTD_checkDictNCount(of.norm, Smaller(HighBit(Len(content) + 2 ^ 17), MaxOff))
                \/ \E i \in 1 .. 3 : rep[i] = 0 \/ rep[i] > Len(content)
             THEN Fail(Error.dictionary_corrupted)
             ELSE [ret |-> IF params.noDictID THEN 0 ELSE LE32(dict, 4), content |-> content,
                   state |-> [rep |-> rep, huf |-> [ct |-> h.ct, repeat |-> "valid"],
                              ll |-> ll.table, of |-> of.table, ml |-> ml.table]])))
  IN IF IsError(huf.ret) \/ Len(huf.ct) <= MaxSymbolValue THEN Fail(Error.dictionary_corrupted)
     ELSE WithHuf(huf)

\* Eight bytes or less are no dictionary.
ZSTD_compress_insertDictionary(params, dict) ==
  LET Nothing(content) == [ret |-> 0, state |-> ZSTD_reset_compressedBlockState, content |-> content]
  IN IF Len(dict) <= 8 THEN Nothing(<<>>)
     ELSE IF Slice(dict, 0, 4) # MAGIC_DICTIONARY THEN Nothing(dict)
     ELSE ZSTD_loadZstdDictionary(params, dict)

\* pledged is -1 when the size of the content is not known.
ZSTD_compressBegin_internal(params, dict, pledged) ==
  LET Begun(d) ==
        [ret |-> 0, stage |-> "init", dictID |-> d.ret, prev |-> d.state, history |-> d.content,
         start |-> Len(d.content), pledged |-> pledged, overflow |-> FALSE,
         params |-> [params EXCEPT !.contentSize = @ /\ pledged # -1]]
  IN Then(ZSTD_compress_insertDictionary(params, dict), Begun)

=============================================================================
