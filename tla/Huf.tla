-------------------------------- MODULE Huf ---------------------------------
(***************************************************************************)
(* Huffman coding: HUF_readStats of entropy_common.c and huf_decompress.c, *)
(* and what the decoders of older formats do otherwise.  A decoding table  *)
(* is [tableLog, double, cell]; the next tableLog bits of a stream choose  *)
(* a cell [seq, nbBits], the symbols they stand for and how many of them   *)
(* are used.  One stream is decoded alone (1X) or four side by side (4X);  *)
(* by one symbol at a time (X2), up to two (X4), up to four in 0.2 (X6).   *)
(***************************************************************************)
EXTENDS Fse

CONSTANT HufLog     \* log of the size of the literals' decoding table

HUF_TABLELOG_MAX == 12
HUF_ABSOLUTEMAX_TABLELOG == 16      \* of the older formats

-----------------------------------------------------------------------------
\* The weights of the symbols.

Nibbles(src, n) ==
  [i \in 1 .. n |-> IF i % 2 = 1 THEN Byte(src, 1 + ((i - 1) \div 2)) \div 16
                    ELSE Byte(src, 1 + ((i - 1) \div 2)) % 16]

CountOf(weights, w) == Cardinality({s \in DOMAIN weights : weights[s] = w})
WeightTotal(weights, maxLog) ==
  LET Upto[w \in 0 .. maxLog] ==
        IF w = 0 THEN 0 ELSE Upto[w - 1] + CountOf(weights, w) * 2 ^ (w - 1)
  IN Upto[maxLog]

\* The last weight is not written: it makes the total a power of two.
CompleteStats(weights, read, maxLog) ==
  LET total == WeightTotal(weights, maxLog)
      log == HighBit(total) + 1
      rest == 2 ^ log - total
      all == Append(weights, HighBit(rest) + 1)
  IN IF \E s \in DOMAIN weights : weights[s] >= maxLog THEN Fail(Error.corruption_detected)
     ELSE IF total = 0 \/ log > maxLog THEN Fail(Error.corruption_detected)
     ELSE IF rest # 2 ^ HighBit(rest) THEN Fail(Error.corruption_detected)
     ELSE IF CountOf(all, 1) < 2 \/ CountOf(all, 1) % 2 = 1 THEN Fail(Error.corruption_detected)
     ELSE [ret |-> read, weights |-> all, tableLog |-> log]

\* The weights as they are, two to a byte.
RawStats(src, maxLog) ==
  LET n == Byte(src, 0) - 127
      size == (n + 1) \div 2
  IN IF size + 1 > Len(src) THEN Fail(Error.srcSize_wrong)
     ELSE IF n >= MaxSymbolValue + 1 THEN Fail(Error.corruption_detected)
     ELSE CompleteStats(Nibbles(src, n), size + 1, maxLog)

\* The weights coded by Decompress.
CodedStats(src, maxLog, Decompress(_, _)) ==
  LET size == Byte(src, 0)
      Complete(r) == CompleteStats(r.out, size + 1, maxLog)
  IN IF size + 1 > Len(src) THEN Fail(Error.srcSize_wrong)
     ELSE Then(Decompress(Slice(src, 1, size), MaxSymbolValue), Complete)

HUF_readStats(src) ==
  LET Decompress(s, cap) == FSE_decompress_wksp(s, cap, 6)
  IN IF Len(src) = 0 THEN Fail(Error.srcSize_wrong)
     ELSE IF Byte(src, 0) >= 128 THEN RawStats(src, HUF_TABLELOG_MAX)
     ELSE CodedStats(src, HUF_TABLELOG_MAX, Decompress)

\* In the older formats the first byte may also stand for so many weights of one.
RunLengths == <<1, 2, 3, 4, 7, 8, 15, 16, 31, 32, 63, 64, 127, 128>>
OldReadStats(src, Decompress(_, _)) ==
  IF Len(src) = 0 THEN Fail(Error.srcSize_wrong)
  ELSE IF Byte(src, 0) >= 242
       THEN CompleteStats([i \in 1 .. RunLengths[Byte(src, 0) - 241] |-> 1], 1,
                          HUF_ABSOLUTEMAX_TABLELOG)
  ELSE IF Byte(src, 0) >= 128 THEN RawStats(src, HUF_ABSOLUTEMAX_TABLELOG)
  ELSE CodedStats(src, HUF_ABSOLUTEMAX_TABLELOG, Decompress)

-----------------------------------------------------------------------------
\* Tables of one symbol per cell.

\* The symbols in the order of their codes: by weight, then by value.
Before(weights, s, t) ==
  weights[s] < weights[t] \/ (weights[s] = weights[t] /\ s < t)
Sorted(weights) ==
  LET Used == {s \in DOMAIN weights : weights[s] > 0}
  IN [r \in 1 .. Cardinality(Used) |->
        CHOOSE s \in Used : Cardinality({t \in Used : Before(weights, t, s)}) = r - 1]

\* The rank of a weight in a table of 2 ^ log cells: where its symbols start.
RankVal(weights, w, log, tableLog) ==
  LET Upto[v \in 1 .. w] ==
        IF v = 1 THEN 0 ELSE Upto[v - 1] + CountOf(weights, v - 1) * 2 ^ (v - 2)
  IN Upto[w] * 2 ^ (log - tableLog)

\* Where symbol s starts, len(s) cells for each of its weight before it.
StartOf(weights, s, rank, len) ==
  rank + len * Cardinality({t \in DOMAIN weights : weights[t] = weights[s] /\ t < s})

FillDTableX2(weights, log) ==
  LET Length(s) == 2 ^ weights[s] \div 2
      start == [s \in DOMAIN weights |->
                  IF weights[s] = 0 THEN 0
                  ELSE StartOf(weights, s, RankVal(weights, weights[s], log, log), Length(s))]
      Symbol(u) == CHOOSE s \in DOMAIN weights : start[s] <= u /\ u < start[s] + Length(s)
  IN [u \in 0 .. 2 ^ log - 1 |->
        LET s == Symbol(u) IN [seq |-> <<s - 1>>, nbBits |-> log + 1 - weights[s]]]

\* A table that ReadStats describes, for a table of at most maxLog bits.
ReadDTableX2(src, maxLog, ReadStats(_)) ==
  LET Build(stats) ==
        IF stats.tableLog > maxLog THEN Fail(Error.tableLog_tooLarge)
        ELSE [ret |-> stats.ret, tableLog |-> stats.tableLog, double |-> FALSE,
              cell |-> FillDTableX2(stats.weights, stats.tableLog)]
  IN Then(ReadStats(src), Build)

\* Its cells are half as large: there is room for twice as many.
HUF_readDTableX2(src) == ReadDTableX2(src, HufLog + 1, HUF_readStats)

-----------------------------------------------------------------------------
\* Tables of up to two symbols per cell.  base is one more than the longest code.

\* The cells left to a first symbol whose code is nbBits long: the codes too long
\* to follow leave its cell to the first symbol alone.
FillDTableX4Level2(sizeLog, consumed, first, minWeight, sorted, weights, rank, base) ==
  LET size == 2 ^ sizeLog
      Nb(s) == base - weights[s]
      Length(s) == 2 ^ (sizeLog - Nb(s))
      follow == {s \in DOMAIN sorted : weights[sorted[s]] >= minWeight}
      start == [r \in follow |->
                  rank[weights[sorted[r]]] + Length(sorted[r]) *
                    Cardinality({t \in follow : t < r /\ weights[sorted[t]] = weights[sorted[r]]})]
      At(u) == CHOOSE r \in follow : start[r] <= u /\ u < start[r] + Length(sorted[r])
      skipped == IF minWeight > 1 THEN rank[minWeight] ELSE 0
  IN [u \in 0 .. size - 1 |->
        IF u < skipped THEN [seq |-> <<first - 1>>, nbBits |-> consumed]
        ELSE LET s == sorted[At(u)]
             IN [seq |-> <<first - 1, s - 1>>, nbBits |-> consumed + Nb(s)]]

FillDTableX4(targetLog, sorted, weights, maxW, base, Level2(_, _, _, _, _, _, _, _)) ==
  LET scaleLog == base - targetLog
      minBits == base - maxW
      \* rank[w] after consumed bits
      rank == [c \in 0 .. targetLog |->
                [w \in 1 .. maxW |-> RankVal(weights, w, targetLog, base - 1) \div 2 ^ c]]
      Cell(s) ==
        LET nbBits == base - weights[s]
            minWeight == Larger(nbBits + scaleLog, 1)
        IN IF targetLog - nbBits >= minBits
           THEN Level2(targetLog - nbBits, nbBits, s, minWeight, sorted, weights,
                       rank[nbBits], base)
           ELSE [u \in 0 .. 2 ^ (targetLog - nbBits) - 1 |-> [seq |-> <<s - 1>>, nbBits |-> nbBits]]
      cells == [r \in DOMAIN sorted |-> Cell(sorted[r])]
      Length(s) == 2 ^ (targetLog - (base - weights[s]))
      start == [r \in DOMAIN sorted |->
                 StartOf(weights, sorted[r], rank[0][weights[sorted[r]]], Length(sorted[r]))]
      At(u) == CHOOSE r \in DOMAIN sorted : start[r] <= u /\ u < start[r] + Length(sorted[r])
  IN [u \in 0 .. 2 ^ targetLog - 1 |-> LET r == At(u) IN cells[r][u - start[r]]]

ReadDTableX4(src, maxLog, limit, ReadStats(_), Fill(_, _, _, _, _)) ==
  LET MaxWeight(weights) == CHOOSE w \in 0 .. limit :
        CountOf(weights, w) > 0 /\ \A v \in w + 1 .. limit : CountOf(weights, v) = 0
      Build(stats) ==
        IF stats.tableLog > maxLog THEN Fail(Error.tableLog_tooLarge)
        ELSE [ret |-> stats.ret, tableLog |-> maxLog, double |-> TRUE,
              cell |-> Fill(maxLog, Sorted(stats.weights), stats.weights,
                            MaxWeight(stats.weights), stats.tableLog + 1)]
  IN IF maxLog > limit THEN Fail(Error.tableLog_tooLarge) ELSE Then(ReadStats(src), Build)

HUF_fillDTableX4(targetLog, sorted, weights, maxW, base) ==
  FillDTableX4(targetLog, sorted, weights, maxW, base, FillDTableX4Level2)
HUF_readDTableX4(src) ==
  ReadDTableX4(src, HufLog, HUF_TABLELOG_MAX, HUF_readStats, HUF_fillDTableX4)

-----------------------------------------------------------------------------
\* Decoding streams.  A stream in progress is [d, out].

\* HUF_decodeSymbolX2, X4 and X6.
DecodeSymbol(st, dt) ==
  LET c == dt.cell[BIT_lookBits(st.d, dt.tableLog)]
  IN [d |-> BIT_skipBits(st.d, c.nbBits), out |-> st.out \o c.seq]

\* HUF_decodeLastSymbolX4 and HUF_decodeLastSymbolsX6: a cell of more symbols than
\* there is room for; it is not known how many of its bits the ones kept use.
DecodeLastSymbols(st, dt, room) ==
  LET c == dt.cell[BIT_lookBits(st.d, dt.tableLog)]
      full == 8 * Word
      kept == SubSeq(c.seq, 1, room)
  IN IF Len(c.seq) <= room THEN DecodeSymbol(st, dt)
     ELSE [d |-> IF st.d.consumed < full
                 THEN [st.d EXCEPT !.consumed = Smaller(@ + c.nbBits, full)]
                 ELSE st.d,
           out |-> st.out \o kept]

\* Symbols decoded between two reloads of the container.
PerTurn == IF Word = 8 THEN 4 ELSE 2
Turn(st, dt) ==
  LET two == DecodeSymbol(DecodeSymbol(st, dt), dt)
  IN IF PerTurn = 2 THEN two ELSE DecodeSymbol(DecodeSymbol(two, dt), dt)

\* While the container can be filled and room is left, decode.
WhileFilled(st, Room(_), Step(_), Reload(_)) ==
  LET RECURSIVE Filled(_)
      Filled(x) == LET r == [x EXCEPT !.d = Reload(@)]
                   IN IF r.d.status = Unfinished /\ Room(Len(r.out)) THEN Filled(Step(r)) ELSE r
  IN Filled(st)
WhileRoom(st, Room(_), Step(_)) ==
  LET RECURSIVE Rest(_)
      Rest(x) == IF Room(Len(x.out)) THEN Rest(Step(x)) ELSE x
  IN Rest(st)

\* Formats before 0.8 refill the container for the last symbols on 64 bits too.
StreamX2(st, size, dt, Reload(_), always) ==
  LET Single(x) == DecodeSymbol(x, dt)
      Several(x) == Turn(x, dt)
      Four(n) == n <= size - 4
      One(n) == n < size
      fast == WhileFilled(st, Four, Several, Reload)
  IN WhileRoom(IF always \/ Word = 4 THEN WhileFilled(fast, One, Single, Reload) ELSE fast,
               One, Single)

HUF_decodeStreamX2(st, size, dt) == StreamX2(st, size, dt, BIT_reloadDStream, FALSE)

StreamX4(st, size, dt, Reload(_), margin) ==
  LET Single(x) == DecodeSymbol(x, dt)
      Several(x) == Turn(x, dt)
      Last(x) == DecodeLastSymbols(x, dt, 1)
      Many(n) == n < size - margin
      Two(n) == n <= size - 2
      One(n) == n < size
  IN WhileRoom(WhileRoom(WhileFilled(WhileFilled(st, Many, Several, Reload),
                                     Two, Single, Reload),
                         Two, Single),
               One, Last)

HUF_decodeStreamX4(st, size, dt) == StreamX4(st, size, dt, BIT_reloadDStream, Word - 1)

\* One stream of size symbols.
OneStream(src, size, dt, Init(_), EndOf(_), Stream(_, _, _)) ==
  LET Decode(d) ==
        LET st == Stream([d |-> d, out |-> <<>>], size, dt)
        IN IF EndOf(st.d) THEN [ret |-> size, out |-> st.out]
           ELSE Fail(Error.corruption_detected)
  IN Then(Init(src), Decode)

\* Four streams behind a table of three lengths: all four by Step while their
\* containers can be filled and Goes(streams, quota); then each to its end.  Only if
\* watch, the containers are looked at after every turn.
FourStreamsBy(src, size, watch, Goes(_, _), Step(_, _), Init(_), Reload(_), EndOf(_), Stream(_, _)) ==
  LET length == [i \in 1 .. 3 |-> LE16(src, 2 * (i - 1))]
      length4 == Len(src) - (length[1] + length[2] + length[3] + 6)
      part == <<Slice(src, 6, length[1]), Slice(src, 6 + length[1], length[2]),
                Slice(src, 6 + length[1] + length[2], length[3]),
                From(src, 6 + length[1] + length[2] + length[3])>>
      segment == (size + 3) \div 4
      quota == <<segment, segment, segment, size - 3 * segment>>
      d == [i \in 1 .. 4 |-> Init(part[i])]
      Reloads(s) == [i \in 1 .. 4 |-> [s[i] EXCEPT !.d = Reload(@)]]
      AllFilled(s) == \A i \in 1 .. 4 : s[i].d.status = Unfinished
      RECURSIVE Loop(_, _)
      Loop(s, filled) ==
        LET next == Reloads(Step(s, segment))
        IN IF filled /\ Goes(s, quota) THEN Loop(next, ~watch \/ AllFilled(next)) ELSE s
      Finish(s) ==
        LET e == [i \in 1 .. 4 |-> Stream(s[i], quota[i])]
        IN IF \E i \in 1 .. 3 : Len(s[i].out) > quota[i] THEN Fail(Error.corruption_detected)
           ELSE IF \E i \in 1 .. 4 : ~EndOf(e[i].d) THEN Fail(Error.corruption_detected)
           ELSE [ret |-> size, out |-> e[1].out \o e[2].out \o e[3].out \o e[4].out]
      Start(s) == Finish(Loop(s, AllFilled(s)))
  IN IF Len(src) < 10 \/ length4 < 0 THEN Fail(Error.corruption_detected)
     ELSE IF \E i \in 1 .. 4 : IsError(d[i].ret)
     THEN d[CHOOSE i \in 1 .. 4 : IsError(d[i].ret) /\ \A j \in 1 .. i - 1 : ~IsError(d[j].ret)]
     ELSE Start(Reloads([i \in 1 .. 4 |-> [d |-> d[i], out |-> <<>>]]))

\* A turn at a time while more than margin symbols are left of the last.
FourStreams(src, size, dt, margin, watch, Init(_), Reload(_), EndOf(_), Stream(_, _, _)) ==
  LET Goes(s, quota) == Len(s[4].out) < quota[4] - margin
      Step(s, segment) == [i \in 1 .. 4 |-> Turn(s[i], dt)]
      With(st, n) == Stream(st, n, dt)
  IN FourStreamsBy(src, size, watch, Goes, Step, Init, Reload, EndOf, With)

HUF_decompress1X2_usingDTable_internal(src, size, dt) ==
  OneStream(src, size, dt, BIT_initDStream, BIT_endOfDStream, HUF_decodeStreamX2)
HUF_decompress1X4_usingDTable_internal(src, size, dt) ==
  OneStream(src, size, dt, BIT_initDStream, BIT_endOfDStream, HUF_decodeStreamX4)
HUF_decompress4X2_usingDTable_internal(src, size, dt) ==
  FourStreams(src, size, dt, 3, FALSE, BIT_initDStream, BIT_reloadDStream,
              BIT_endOfDStream, HUF_decodeStreamX2)
HUF_decompress4X4_usingDTable_internal(src, size, dt) ==
  FourStreams(src, size, dt, Word - 1, TRUE, BIT_initDStream, BIT_reloadDStream,
              BIT_endOfDStream, HUF_decodeStreamX4)

-----------------------------------------------------------------------------
\* A table and the streams it decodes.

\* The table at the start of src, then Decode on the rest; the table is kept.
TableThen(src, size, ReadTable(_), Decode(_, _, _)) ==
  LET Rest(table) ==
        LET Keep(r) == [ret |-> r.ret, out |-> r.out, table |-> table]
        IN IF table.ret >= Len(src) THEN Fail(Error.srcSize_wrong)
           ELSE Then(Decode(From(src, table.ret), size, table), Keep)
  IN Then(ReadTable(src), Rest)

HUF_decompress1X2_DCtx(src, size) ==
  TableThen(src, size, HUF_readDTableX2, HUF_decompress1X2_usingDTable_internal)
HUF_decompress4X2_DCtx(src, size) ==
  TableThen(src, size, HUF_readDTableX2, HUF_decompress4X2_usingDTable_internal)
HUF_decompress4X4_DCtx(src, size) ==
  TableThen(src, size, HUF_readDTableX4, HUF_decompress4X4_usingDTable_internal)

HUF_decompress1X_usingDTable(src, size, dt) ==
  IF dt.double THEN HUF_decompress1X4_usingDTable_internal(src, size, dt)
  ELSE HUF_decompress1X2_usingDTable_internal(src, size, dt)
HUF_decompress4X_usingDTable(src, size, dt) ==
  IF dt.double THEN HUF_decompress4X4_usingDTable_internal(src, size, dt)
  ELSE HUF_decompress4X2_usingDTable_internal(src, size, dt)

\* Times to build a table and to decode 256 symbols, by the ratio in sixteenths:
\* one symbol at a time, up to two, up to four.
AlgoTime ==
  << <<<<0, 0>>, <<1, 1>>, <<2, 2>>>>, <<<<0, 0>>, <<1, 1>>, <<2, 2>>>>,
     <<<<38, 130>>, <<1313, 74>>, <<2151, 38>>>>, <<<<448, 128>>, <<1353, 74>>, <<2238, 41>>>>,
     <<<<556, 128>>, <<1353, 74>>, <<2238, 47>>>>, <<<<714, 128>>, <<1418, 74>>, <<2436, 53>>>>,
     <<<<883, 128>>, <<1437, 74>>, <<2464, 61>>>>, <<<<897, 128>>, <<1515, 75>>, <<2622, 68>>>>,
     <<<<926, 128>>, <<1613, 75>>, <<2730, 75>>>>, <<<<947, 128>>, <<1729, 77>>, <<3359, 77>>>>,
     <<<<1107, 128>>, <<2083, 81>>, <<4006, 84>>>>, <<<<1177, 128>>, <<2379, 87>>, <<4785, 88>>>>,
     <<<<1242, 128>>, <<2415, 93>>, <<5155, 84>>>>, <<<<1349, 128>>, <<2644, 106>>, <<5260, 106>>>>,
     <<<<1455, 128>>, <<2422, 124>>, <<4174, 124>>>>, <<<<722, 128>>, <<1891, 145>>, <<1936, 146>>>> >>

\* The estimated time of algorithm n; a fraction 2 ^ -shift more for its memory.
Time(times, size, csize, n, shift) ==
  LET t == times[(IF csize >= size THEN 15 ELSE (csize * 16) \div size) + 1][n + 1]
      raw == t[1] + t[2] * (size \div 256)
  IN IF n = 0 THEN raw ELSE raw + (raw \div 2 ^ shift)

HUF_selectDecoder(size, csize) ==
  IF Time(AlgoTime, size, csize, 1, 3) < Time(AlgoTime, size, csize, 0, 0) THEN 1 ELSE 0

HUF_decompress4X_hufOnly(src, size) ==
  IF size = 0 THEN Fail(Error.dstSize_tooSmall)
  ELSE IF src = <<>> THEN Fail(Error.corruption_detected)
  ELSE IF HUF_selectDecoder(size, Len(src)) = 1 THEN HUF_decompress4X4_DCtx(src, size)
  ELSE HUF_decompress4X2_DCtx(src, size)

\* HUF_decompress of the older formats: source as large as its content is a copy
\* of it (in 0.5 an error), one byte is repeated.
OldHufDecompress(src, size, copies, Algo(_, _)) ==
  IF size = 0 THEN Fail(Error.dstSize_tooSmall)
  ELSE IF Len(src) > size \/ (Len(src) = size /\ ~copies) THEN Fail(Error.corruption_detected)
  ELSE IF Len(src) = size THEN [ret |-> size, out |-> src]
  ELSE IF Len(src) = 1 THEN [ret |-> size, out |-> [i \in 1 .. size |-> src[1]]]
  ELSE Algo(src, size)

=============================================================================
