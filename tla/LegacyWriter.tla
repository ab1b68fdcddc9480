---------------------------- MODULE LegacyWriter ----------------------------
(***************************************************************************)
(* What the encoders of formats 0.1 to 0.7 wrote, for the decoders to      *)
(* read: the repository has the decoders only.  A block is its literals    *)
(* and, for each match, [ll, ml, off]: how many literals come before it,   *)
(* how long it is and how far back it starts.  How a block is written is   *)
(* its kind, and for a compressed one lit, how its literals are coded, and *)
(* tables, how the codes of its sequences are.                             *)
(***************************************************************************)
EXTENDS MultiFrame, EntropyC

\* Room enough for all that is written.
Ample == 4096
BE(value, n) == LET s == LE(value, n) IN [i \in 1 .. n |-> s[n + 1 - i]]

-----------------------------------------------------------------------------
\* The codes of sequences: [ll, of, ml], the bits to add to each as <<value, n>>, and
\* what goes to the dumps.

\* Formats 0.1 to 0.5.  Before the first sequence no offset is known.
EarlyCodes(version, seqs) ==
  LET Long(l) == IF version < 5 THEN LE(l, 3)
                 ELSE IF l < 2 ^ 15 THEN LE(2 * l, 2) ELSE LE(2 * l + 1, 3)
      Dump(l, max) == IF l < max THEN <<>>
                      ELSE IF l - max < 255 THEN <<l - max>> ELSE <<255>> \o Long(l)
      Code(h, s) == IF s.off = (IF s.ll > 0 THEN h[1] ELSE h[2]) THEN 0 ELSE HighBit(s.off) + 1
      Recent[k \in 1 .. Len(seqs) + 1] ==
        IF k = 1 THEN <<0, 0>>
        ELSE LET h == Recent[k - 1]
                 s == seqs[k - 1]
             IN <<s.off, IF version < 4 \/ Code(h, s) # 0 \/ s.ll = 0 THEN h[1] ELSE h[2]>>
      Coding(s, of) ==
        [ll |-> Smaller(s.ll, LLmax), of |-> of, ml |-> Smaller(s.ml - MINMATCH4, MLmax),
         dumps |-> Dump(s.ll, LLmax) \o Dump(s.ml - MINMATCH4, MLmax),
         ofAdd |-> IF of = 0 THEN <<0, 0>> ELSE <<s.off - 2 ^ (of - 1), of - 1>>]
  IN [k \in DOMAIN seqs |-> Coding(seqs[k], Code(Recent[k], seqs[k]))]

AddOf(length, code, bases, bits) == <<length - bases[code + 1], bits[code + 1]>>

\* Formats 0.6 and 0.7: an offset that is a recent one is its place among them.
RecentCodes(seqs, start) ==
  LET Exchanged(n, s) == IF s.ll = 0 /\ n <= 1 THEN 1 - n ELSE n
      Places(rep, s) == {n \in 0 .. 2 : rep[Exchanged(n, s) + 1] = s.off}
      First(rep, s) == CHOOSE n \in Places(rep, s) : \A m \in Places(rep, s) : n <= m
      Coded1(rep, s) == IF Places(rep, s) = {} THEN s.off + 3 ELSE First(rep, s) + 1
      Moved(rep, s) ==
        IF Places(rep, s) = {} THEN <<s.off, rep[1], rep[2]>>
        ELSE CASE Exchanged(First(rep, s), s) = 0 -> rep
               [] Exchanged(First(rep, s), s) = 1 -> <<rep[2], rep[1], rep[3]>>
               [] OTHER -> <<rep[3], rep[1], rep[2]>>
      Recent[k \in 1 .. Len(seqs) + 1] ==
        IF k = 1 THEN start ELSE Moved(Recent[k - 1], seqs[k - 1])
      Coding(s, value) ==
        LET ll == CodeOf(s.ll, LL_base)
            ml == CodeOf(s.ml, ML_base)
            of == HighBit(value)
        IN [ll |-> ll, of |-> of, ml |-> ml, dumps |-> <<>>, ofAdd |-> <<value - 2 ^ of, of>>,
            llAdd |-> AddOf(s.ll, ll, LL_base, LL_bits), mlAdd |-> AddOf(s.ml, ml, ML_base, ML_bits)]
  IN [codes |-> [k \in DOMAIN seqs |-> Coding(seqs[k], Coded1(Recent[k], seqs[k]))],
      rep |-> Recent[Len(seqs) + 1]]

-----------------------------------------------------------------------------
\* Tables of codes: [type, out, ct].  A dictionary is [content, coded, huf, ll, of, ml,
\* rep]: if coded, it has tables for literals and sequences and three recent offsets.

Norms == [ll |-> LL_defaultNorm, of |-> OF_defaultNorm, ml |-> ML_defaultNorm]
Logs  == [ll |-> LL_defaultNormLog, of |-> OF_defaultNormLog, ml |-> ML_defaultNormLog]
RawBits == [ll |-> LLbits, of |-> Offbits, ml |-> MLbits]
Basic(version, f) == IF version < 6 THEN FSE_buildCTable_raw(RawBits[f])
                     ELSE FSE_buildCTable_wksp(Norms[f], Logs[f])

\* A table with the counters it is described by.
Described(symbols, maxLog) ==
  LET count == FSE_count_simple(symbols, MaxSymbolValue).count
      log == FSE_optimalTableLog(maxLog, Len(symbols), Len(count) - 1)
      norm == FSE_normalizeCount(log, count, Len(symbols)).norm
  IN [out |-> FSE_writeNCount(Ample, norm, log).out, ct |-> FSE_buildCTable_wksp(norm, log)]

\* Codes that are all the same need no more than one byte.
TableOf(version, f, mode, codes, dict) ==
  LET type == IF version < 5 THEN [fse |-> 0, basic |-> 1, rle |-> 2]
              ELSE [basic |-> 0, rle |-> 1, repeat |-> 2, fse |-> 3]
      maxLog == IF version < 6 THEN OffDumpLog ELSE OffFSELog
      fse == Described(codes, maxLog)
  IN CASE mode = "basic"  -> [type |-> type.basic, out |-> <<>>, ct |-> Basic(version, f)]
       [] mode = "repeat" -> [type |-> type.repeat, out |-> <<>>, ct |-> dict[f]]
       [] mode = "fse" /\ \A k \in DOMAIN codes : codes[k] = codes[1] ->
            [type |-> type.rle, out |-> <<codes[1]>>, ct |-> FSE_buildCTable_rle(codes[1])]
       [] OTHER -> [type |-> type.fse, out |-> fse.out, ct |-> fse.ct]

-----------------------------------------------------------------------------
\* The bits of sequences, from the last to the first, in the order in which the
\* decoder of each format does not read them.

SequenceBits(version, codes, ct) ==
  LET Put(e, f, c) == LET r == FSE_encodeSymbol(e.b, e[f], ct[f], c[f])
                      IN [e EXCEPT !.b = r.b, ![f] = r.state]
      Add(e, add) == [e EXCEPT !.b = BIT_flushBits(BIT_addBits(@, add[1], add[2]))]
      Adds(e, c) == Add(Add(Add(e, c.llAdd), c.mlAdd), c.ofAdd)
      Symbol(e, c) ==
        CASE version < 5 -> Put(Put(Add(Put(e, "ml", c), c.ofAdd), "of", c), "ll", c)
          [] version = 5 -> Add(Put(Put(Put(e, "ml", c), "ll", c), "of", c), c.ofAdd)
          [] OTHER       -> Adds(Put(Put(Put(e, "of", c), "ml", c), "ll", c), c)
      n == Len(codes)
      Start(State(_)) == [b |-> BIT_initCStream(Ample), ll |-> State("ll"), of |-> State("of"),
                          ml |-> State("ml")]
      Zero(f) == FSE_initCState(ct[f])
      Lasting(f) == FSE_initCState2(ct[f], codes[n][f])
      \* the k last sequences
      Down[k \in 0 .. n] ==
        IF k = 0 THEN Start(Zero)
        ELSE IF k = 1 /\ version > 5 THEN Adds(Start(Lasting), codes[n])
        ELSE Symbol(Down[k - 1], codes[n + 1 - k])
      e == Down[n]
  IN BIT_closeCStream(FSE_flushCState(FSE_flushCState(FSE_flushCState(
       e.b, e.ml, ct.ml), e.of, ct.of), e.ll, ct.ll)).out

\* The part of a block behind its literals, and the recent offsets it leaves.
Sequences(version, block, rep, dict) ==
  LET recent == RecentCodes(block.seqs, IF version = 6 THEN <<1, 1, 1>> ELSE rep)
      codes == IF version > 5 THEN recent.codes ELSE EarlyCodes(version, block.seqs)
      n == Len(codes)
      Table(f) == TableOf(version, f, block.tables, [k \in 1 .. n |-> codes[k][f]], dict)
      ll == Table("ll")
      of == Table("of")
      ml == Table("ml")
      types == 64 * ll.type + 16 * of.type + 4 * ml.type
      Dumps[k \in 0 .. n] == IF k = 0 THEN <<>> ELSE Dumps[k - 1] \o codes[k].dumps
      dumps == Len(Dumps[n])
      header == IF version > 5 THEN <<types>> ELSE <<types + (dumps \div 256), dumps % 256>> \o Dumps[n]
  IN [rep |-> IF version > 5 THEN recent.rep ELSE rep,
      out |-> IF n = 0 THEN <<0>>
              ELSE (IF version < 5 THEN LE(n, 2) ELSE <<n>>) \o header \o ll.out \o of.out \o ml.out
                   \o SequenceBits(version, codes, [ll |-> ll.ct, of |-> of.ct, ml |-> ml.ct])]

-----------------------------------------------------------------------------
\* Literals.

\* A Huffman code for bytes, [ret, ct], of no more bits than the decoder's table has.
CodeFor(bytes) ==
  LET count == FSE_count_simple(bytes, MaxSymbolValue).count
  IN HUF_buildCTable_wksp(count, Smaller(HUF_optimalTableLog(HufLog, Len(bytes), Len(count) - 1),
                                         HufLog))

\* Weights by two states in turn, which start and end at their first.
OldWeights(weights) ==
  LET t == Described(weights, MAX_FSE_TABLELOG_FOR_HUFF_HEADER)
      n == Len(weights)
      zero == [b |-> BIT_initCStream(Ample), s1 |-> FSE_initCState(t.ct), s2 |-> FSE_initCState(t.ct)]
      Down[k \in 1 .. n + 1] ==
        IF k = n + 1 THEN zero
        ELSE IF k % 2 = 1 THEN By1(Down[k + 1], t.ct, weights[k]) ELSE By2(Down[k + 1], t.ct, weights[k])
      e == Down[1]
  IN t.out \o BIT_closeCStream(FSE_flushCState(FSE_flushCState(e.b, e.s2, t.ct), e.s1, t.ct)).out

\* The description of a code: before 0.6, weights that are all one have a number.
CodeTable(version, t) ==
  LET n == Len(t.ct) - 1
      weights == [s \in 1 .. n |-> IF t.ct[s].nbBits = 0 THEN 0 ELSE t.ret + 1 - t.ct[s].nbBits]
      coded == OldWeights(weights)
  IN IF version > 5 THEN HUF_writeCTable(Ample, t.ct, t.ret).out
     ELSE IF \E k \in DOMAIN RunLengths : weights = [s \in 1 .. RunLengths[k] |-> 1]
          THEN <<241 + CHOOSE k \in DOMAIN RunLengths : RunLengths[k] = n>>
     ELSE IF n < 16 THEN <<127 + n>> \o [i \in 1 .. (n + 1) \div 2 |->
                                 16 * weights[2 * i - 1] + (IF 2 * i > n THEN 0 ELSE weights[2 * i])]
     ELSE <<Len(coded)>> \o coded

\* Of format 0.1: the four streams take turns, and the first has what is left.
Woven(bytes, ct) ==
  LET even == 16 * (Len(bytes) \div 16)
      Stream(i) == HUF_compress1X_usingCTable_internal_body(Ample,
        LET mine == SelectSeq([p \in DOMAIN bytes |-> p],
                              LAMBDA p : IF p <= even THEN (p - 1) % 4 = i - 1 ELSE i = 1)
        IN [k \in DOMAIN mine |-> bytes[mine[k]]], ct).out
      s == [i \in 1 .. 4 |-> Stream(i)]
  IN LE(Len(s[1]), 2) \o LE(Len(s[2]), 2) \o LE(Len(s[3]), 2) \o s[1] \o s[2] \o s[3] \o s[4]

CodedBody(version, lit, bytes, dict) ==
  LET t == CodeFor(bytes)
      One(ct) == HUF_compress1X_usingCTable_internal_body(Ample, bytes, ct).out
  IN CASE lit = "repeat" -> One(dict.huf.ct)
       [] lit = "huf1"   -> CodeTable(version, t) \o One(t.ct)
       [] OTHER -> CodeTable(version, t) \o
            (IF version = 1 THEN Woven(bytes, t.ct)
             ELSE HUF_compress4X_usingCTable_internal(Ample, bytes, t.ct).out)

OldHeader(type, size) == BE(type * 2 ^ 22 + size, 3)
PlainLiterals(version, lit, bytes) ==
  LET n == Len(bytes)
      raw == lit = "raw"
      content == IF raw THEN bytes ELSE <<bytes[1]>>
      type == IF raw THEN lbt_raw ELSE lbt_rle
      header == CASE version = 1 -> OldHeader(IF raw THEN old_raw ELSE old_rle, n)
                  [] version \in 2 .. 4 -> LE((IF raw THEN IS_RAW ELSE IS_RLE) + 4 * n, 3)
                  [] n < 32 -> <<64 * type + n>>
                  [] OTHER -> BE(2 ^ 14 * type + 2 ^ 13 + n, 2)
  IN header \o content

LiteralsOf(version, lit, bytes, dict) ==
  LET body == CodedBody(version, lit, bytes, dict)
      n == Len(bytes)
      type == IF lit = "repeat" THEN lbt_repeat ELSE lbt_huffman
      single == IF lit = "huf4" THEN 0 ELSE 1
  IN IF lit \in {"raw", "rle"} THEN PlainLiterals(version, lit, bytes)
     ELSE CASE version = 1 -> OldHeader(old_compressed, Len(body) + 2) \o BE(n, 2) \o body
            [] version \in 2 .. 4 ->
                 BytesOf(BitsOf(0, 2) \o BitsOf(n, 19) \o BitsOf(Len(body), 19)) \o body
            [] OTHER -> BE(2 ^ 22 * type + 2 ^ 20 * single + 2 ^ 10 * n + Len(body), 3) \o body

-----------------------------------------------------------------------------
\* Dictionaries, blocks and frames.

NoDict == [content |-> <<>>, bytes |-> <<>>, coded |-> FALSE, id |-> 0, rep |-> <<1, 4, 8>>]

\* A dictionary of content, its literals' code that of sample; tables cover all codes.
CodedDict(version, sample, content, id, rep) ==
  LET Level(n) == [s \in 1 .. n |-> 1]
      Norm(f) == IF version > 5 THEN Norms[f] ELSE Level(2 ^ RawBits[f])
      Log(f) == IF version > 5 THEN Logs[f] ELSE RawBits[f]
      Table(f) == FSE_buildCTable_wksp(Norm(f), Log(f))
      Written(f) == FSE_writeNCount(Ample, Norm(f), Log(f)).out
      huf == CodeFor(sample)
      magic == CASE version = 5 -> DICT_MAGIC05 [] version = 6 -> DICT_MAGIC06
                 [] version = 7 -> DICT_MAGIC07 [] OTHER -> MAGIC_DICTIONARY
  IN [content |-> content, coded |-> TRUE, id |-> IF version < 7 THEN 0 ELSE id,
      rep |-> IF version < 7 THEN NoDict.rep ELSE rep, huf |-> huf,
      ll |-> Table("ll"), of |-> Table("of"), ml |-> Table("ml"),
      bytes |-> magic \o (IF version < 7 THEN <<>> ELSE LE(id, 4)) \o CodeTable(version, huf)
                \o Written("of") \o Written("ml") \o Written("ll")
                \o (IF version < 7 THEN <<>> ELSE LE(rep[1], 4) \o LE(rep[2], 4) \o LE(rep[3], 4))
                \o content]
PlainDict(content) == [NoDict EXCEPT !.content = content, !.bytes = content]

\* [rep, out] behind a block.
WithBlock(version, r, block, dict) ==
  LET s == Sequences(version, block, r.rep, dict)
      body == LiteralsOf(version, block.lit, block.literals, dict) \o s.out
  IN CASE block.kind = "raw" ->
            [r EXCEPT !.out = @ \o OldHeader(old_raw, Len(block.literals)) \o block.literals]
       [] block.kind = "rle" ->
            [r EXCEPT !.out = @ \o OldHeader(old_rle, Len(block.literals)) \o <<block.literals[1]>>]
       [] OTHER -> [rep |-> s.rep, out |-> r.out \o OldHeader(old_compressed, Len(body)) \o body]

\* A frame of blocks; sized says whether the header has the size of its content, and
\* in 0.7 the end a checksum.
LegacyFrame(version, sized, blocks, dict) ==
  LET n == Len(ContentOf(blocks, dict.content))
      sum == Digest07(ContentOf(blocks, dict.content))
      id == IF dict.id = 0 THEN <<>> ELSE <<dict.id>>
      flag == IF dict.id = 0 THEN 0 ELSE 1
      size == IF n < 256 THEN <<n>> ELSE LE(n - 256, 2)
      fcs == IF n < 256 THEN 0 ELSE 64
      header == CASE version < 4 -> <<>>
                  [] version \in {4, 5} -> <<7>>
                  [] version = 6 -> IF ~sized THEN <<3>>
                                    ELSE <<3 + (IF n < 256 THEN 64 ELSE 128)>> \o size
                  [] version = 7 -> IF ~sized THEN <<flag, 24>> \o id
                                    ELSE <<flag + 4 + 32 + fcs>> \o id \o size
      end == IF version = 7 /\ sized THEN <<192 + sum[1], sum[2], sum[3]>> ELSE <<192, 0, 0>>
      Upto[k \in 0 .. Len(blocks)] ==
        IF k = 0 THEN [rep |-> dict.rep, out |-> LegacyMagic[version] \o header]
        ELSE WithBlock(version, Upto[k - 1], blocks[k], dict)
  IN Upto[Len(blocks)].out \o end
=============================================================================
