------------------------------- MODULE EntropyC -------------------------------
(***************************************************************************)
(* The writing half of the entropy coders, fse_compress.c and              *)
(* huf_compress.c.  A stream in progress keeps the bytes flushed, the bits *)
(* in its container, the room it has, and whether its container ever held  *)
(* more bits than it can.  Counters and normalized counters are sequences, *)
(* of symbol 0 first.                                                      *)
(***************************************************************************)
EXTENDS Huf, TLC

FSE_DEFAULT_TABLELOG == 11

RECURSIVE ZeroRun(_, _), NCountBits(_, _), LaidOut(_, _)

-----------------------------------------------------------------------------
\* Bits, the least significant first.

BitsOf(value, n) == [i \in 1 .. n |-> (value \div 2 ^ (i - 1)) % 2]
Value(bits) == LET Upto[i \in 0 .. Len(bits)] ==
                     IF i = 0 THEN 0 ELSE Upto[i - 1] + bits[i] * 2 ^ (i - 1)
               IN Upto[Len(bits)]
\* The whole bytes of bits.
BytesOf(bits) == [i \in 1 .. Len(bits) \div 8 |-> Value(SubSeq(bits, 8 * i - 7, 8 * i))]
\* MEM_writeLE16, MEM_writeLE24 and MEM_writeLE32
LE(value, n) == [i \in 1 .. n |-> (value \div 256 ^ (i - 1)) % 256]
Padded(bits) == bits \o Zeros((8 - (Len(bits) % 8)) % 8)

BIT_initCStream(cap) ==
  [ret |-> IF cap <= Word THEN Error.dstSize_tooSmall ELSE 0, out |-> <<>>, bits |-> <<>>,
   cap |-> cap, overflow |-> FALSE]

BIT_addBits(b, value, n) ==
  [b EXCEPT !.bits = @ \o BitsOf(value, n), !.overflow = @ \/ n + Len(b.bits) >= 8 * Word]

\* Nothing is written behind the last Word bytes; where a stream that came that far
\* goes on from is told when it is closed.
BIT_flushBits(b) ==
  LET n == Len(b.bits) \div 8
      flushed == b.out \o BytesOf(b.bits)
  IN [b EXCEPT !.bits = SubSeq(@, 8 * n + 1, Len(@)),
               !.out = SubSeq(flushed, 1, Smaller(Len(flushed), b.cap - Word))]
BIT_flushBitsFast(b) ==
  [b EXCEPT !.bits = SubSeq(@, 8 * (Len(@) \div 8) + 1, Len(@)), !.out = @ \o BytesOf(b.bits)]

\* [ret, out]: ret is 0 when there was not room enough.
BIT_closeCStream(b) ==
  LET e == BIT_flushBits(BIT_addBits(b, 1, 1))
      out == e.out \o BytesOf(Padded(e.bits))
  IN IF Len(e.out) >= b.cap - Word THEN [ret |-> 0, out |-> <<>>, overflow |-> e.overflow]
     ELSE [ret |-> Len(out), out |-> out, overflow |-> e.overflow]

-----------------------------------------------------------------------------
\* Counting.

FSE_count_simple(src, maxSV) ==
  LET n == [s \in 1 .. maxSV + 1 |-> Cardinality({i \in DOMAIN src : src[i] = s - 1})]
      last == CHOOSE s \in DOMAIN n : n[s] > 0 /\ \A t \in s + 1 .. maxSV + 1 : n[t] = 0
  IN IF src = <<>> THEN [ret |-> 0, count |-> <<0>>]
     ELSE [ret |-> CHOOSE c \in {n[s] : s \in DOMAIN n} : \A s \in DOMAIN n : n[s] <= c,
           count |-> SubSeq(n, 1, last)]

\* A limit below 255 is checked.
FSE_count_wksp(src, maxSV) ==
  IF maxSV < MaxSymbolValue /\ \E i \in DOMAIN src : src[i] > maxSV
  THEN Fail(Error.maxSymbolValue_tooSmall)
  ELSE FSE_count_simple(src, maxSV)

-----------------------------------------------------------------------------
\* Normalizing: counters of a total become counters of 2 ^ tableLog.

FSE_minTableLog(size, maxSV) ==
  Smaller(HighBit(size - 1) + 1, HighBit(maxSV) + 2)
FSE_optimalTableLog_internal(max, size, maxSV, minus) ==
  LET log == Smaller(IF max = 0 THEN FSE_DEFAULT_TABLELOG ELSE max, HighBit(size - 1) - minus)
  IN Smaller(Larger(Larger(log, FSE_minTableLog(size, maxSV)), FSE_MIN_TABLELOG),
             FSE_MAX_TABLELOG)
FSE_optimalTableLog(max, size, maxSV) == FSE_optimalTableLog_internal(max, size, maxSV, 2)

PlusOf(f) == LET Upto[i \in 0 .. Len(f)] == IF i = 0 THEN 0 ELSE Upto[i - 1] + f[i]
             IN Upto[Len(f)]

\* The quotient of 62-bit arithmetic, which is rounded down before it is scaled: an
\* exact result comes out one less.
RoundedDown(n, d) == (n \div d) - (IF n % d = 0 THEN 1 ELSE 0)
PowerOf2(n) == n = 2 ^ HighBit(n)

\* The secondary method, when the first gives out more than there is.
FSE_normalizeM2(log, count, total) ==
  LET lowThreshold == total \div 2 ^ log
      lowOne == (total * 3) \div 2 ^ (log + 1)
      \* the counters assigned first, those still to assign -2
      Assign(c, one) == CASE c = 0 -> 0
                          [] c > 0 /\ c <= lowThreshold -> -1
                          [] c > lowThreshold /\ c <= one -> 1
                          [] OTHER -> -2
      Left(norm) == PlusOf([s \in DOMAIN count |-> IF norm[s] = -2 THEN count[s] ELSE 0])
      Poor(norm) == Cardinality({s \in DOMAIN norm : norm[s] \in {-1, 1}})
      n1 == [s \in DOMAIN count |-> Assign(count[s], lowOne)]
      scarce == Left(n1) \div (2 ^ log - Poor(n1)) > lowOne
      one2 == (Left(n1) * 3) \div ((2 ^ log - Poor(n1)) * 2)
      norm == IF scarce THEN [s \in DOMAIN n1 |-> IF n1[s] = -2 /\ count[s] <= one2 THEN 1 ELSE n1[s]]
              ELSE n1
      rest == 2 ^ log - Poor(norm)
      left == Left(norm)
      most == CHOOSE s \in DOMAIN count :
                /\ \A t \in DOMAIN count : count[t] <= count[s]
                /\ \A t \in 1 .. s - 1 : count[t] < count[s]
      ones == SelectSeq([s \in DOMAIN norm |-> s], LAMBDA s : norm[s] > 0)
      Place(s) == CHOOSE i \in DOMAIN ones : ones[i] = s
      Share(s) == (rest \div Len(ones)) + (IF Place(s) <= rest % Len(ones) THEN 1 ELSE 0)
      \* the end of the share of the first s counters still to assign
      End(s) == LET c == PlusOf([t \in 1 .. s |-> IF norm[t] = -2 THEN count[t] ELSE 0])
                IN RoundedDown(left + c * (2 * rest + 1), 2 * left)
      Weight(s) == End(s) - End(s - 1)
  IN IF Poor(norm) = Len(count)
     THEN [ret |-> 0, norm |-> [norm EXCEPT ![most] = @ + rest]]
     ELSE IF left = 0
     THEN [ret |-> 0, norm |-> [s \in DOMAIN norm |->
                                 IF norm[s] > 0 THEN norm[s] + Share(s) ELSE norm[s]]]
     ELSE IF \E s \in DOMAIN norm : norm[s] = -2 /\ Weight(s) < 1 THEN Fail(Error.GENERIC)
     ELSE [ret |-> 0, norm |-> [s \in DOMAIN norm |-> IF norm[s] = -2 THEN Weight(s) ELSE norm[s]]]

\* What must be left, in 2 ^ 20ths, for a small share to be rounded up.
rtbTable == <<0, 473195, 504333, 520860, 550000, 700000, 750000, 830000>>

\* The share of a counter of c in 2 ^ log of total.
Share0(c, total, log) ==
  LET scaled == c * 2 ^ log
      proba == IF PowerOf2(total) THEN scaled \div total ELSE RoundedDown(scaled, total)
      more == proba < 8 /\ (scaled - proba * total) * 2 ^ 20 > rtbTable[proba + 1] * total
  IN IF more THEN proba + 1 ELSE proba

\* [ret, norm]: ret is tableLog, or 0 for a single symbol.
FSE_normalizeCount(tableLog, count, total) ==
  LET log == IF tableLog = 0 THEN FSE_DEFAULT_TABLELOG ELSE tableLog
      Norm(c) == IF c = 0 THEN 0 ELSE IF c <= total \div 2 ^ log THEN -1
                 ELSE Share0(c, total, log)
      norm == [s \in DOMAIN count |-> Norm(count[s])]
      left == 2 ^ log - PlusOf([s \in DOMAIN norm |-> IF norm[s] = -1 THEN 1 ELSE norm[s]])
      \* the first of the largest; symbol 0 when all are rare
      largest == IF \A s \in DOMAIN norm : norm[s] <= 0 THEN 1
                 ELSE CHOOSE s \in DOMAIN norm : /\ \A t \in DOMAIN norm : norm[t] <= norm[s]
                                                 /\ \A t \in 1 .. s - 1 : norm[t] < norm[s]
      second == FSE_normalizeM2(log, count, total)
  IN IF log < FSE_MIN_TABLELOG THEN Fail(Error.GENERIC)
     ELSE IF log > FSE_MAX_TABLELOG THEN Fail(Error.tableLog_tooLarge)
     ELSE IF log < FSE_minTableLog(total, Len(count) - 1) THEN Fail(Error.GENERIC)
     ELSE IF \E s \in DOMAIN count : count[s] = total THEN [ret |-> 0, norm |-> norm]
     ELSE IF -left >= norm[largest] \div 2
     THEN IF IsError(second.ret) THEN second ELSE [ret |-> log, norm |-> second.norm]
     ELSE [ret |-> log, norm |-> [norm EXCEPT ![largest] = @ + left]]

-----------------------------------------------------------------------------
\* Writing normalized counters.

FSE_NCOUNTBOUND == 512
FSE_NCountWriteBound(maxSV, log) ==
  IF maxSV = 0 THEN FSE_NCOUNTBOUND ELSE (((maxSV + 1) * log) \div 8) + 3

\* How a run of n zeros behind a first one is told.
ZeroRun(n, bits) ==
  IF n >= 24 THEN ZeroRun(n - 24, bits \o BitsOf(65535, 16))
  ELSE IF n >= 3 THEN ZeroRun(n - 3, bits \o <<1, 1>>)
  ELSE bits \o BitsOf(n, 2)

\* All the bits from counter r.s on; remaining and threshold as the reader has them.
NCountBits(norm, r) ==
  LET zeros == CHOOSE n \in 0 .. Len(norm) :
                 /\ \A i \in 0 .. n - 1 : norm[r.s + i] = 0
                 /\ r.s + n > Len(norm) \/ norm[r.s + n] # 0
      skip == IF r.previous0 THEN zeros ELSE 0
      start == IF r.previous0 THEN ZeroRun(zeros, r.bits) ELSE r.bits
      count == norm[r.s + skip] + 1
      max == 2 * r.threshold - 1 - r.remaining
      coded == IF count >= r.threshold THEN count + max ELSE count
      left == r.remaining - (IF norm[r.s + skip] < 0 THEN 1 ELSE norm[r.s + skip])
      shift == CHOOSE k \in 0 .. 16 : /\ left >= r.threshold \div 2 ^ k
                                      /\ k > 0 => left < r.threshold \div 2 ^ (k - 1)
  IN IF r.remaining <= 1 THEN r
     ELSE IF left < 1 THEN Fail(Error.GENERIC)
     ELSE NCountBits(norm, [ret |-> 0, s |-> r.s + skip + 1, previous0 |-> count = 1,
            bits |-> start \o BitsOf(coded, IF coded < max THEN r.nbBits - 1 ELSE r.nbBits),
            remaining |-> left, nbBits |-> r.nbBits - shift, threshold |-> r.threshold \div 2 ^ shift])

\* Two bytes at a time are written, the last two only if there is room for both.
FSE_writeNCount_generic(cap, norm, log, safe) ==
  LET Finish(r) ==
        LET out == BytesOf(Padded(r.bits))
        IN IF ~safe /\ 2 * ((Len(r.bits) - 1) \div 16) > cap - 2 THEN Fail(Error.dstSize_tooSmall)
           ELSE IF r.s > Len(norm) + 1 THEN Fail(Error.GENERIC)
           ELSE [ret |-> Len(out), out |-> out]
  IN Then(NCountBits(norm, [ret |-> 0, s |-> 1, previous0 |-> FALSE, remaining |-> 2 ^ log + 1,
                            threshold |-> 2 ^ log, nbBits |-> log + 1,
                            bits |-> BitsOf(log - FSE_MIN_TABLELOG, 4)]), Finish)

FSE_writeNCount(cap, norm, log) ==
  IF log > FSE_MAX_TABLELOG THEN Fail(Error.tableLog_tooLarge)
  ELSE IF log < FSE_MIN_TABLELOG THEN Fail(Error.GENERIC)
  ELSE FSE_writeNCount_generic(cap, norm, log, cap >= FSE_NCountWriteBound(Len(norm) - 1, log))

-----------------------------------------------------------------------------
\* Encoding tables: next has the states of symbol 0, of symbol 1 and so on; tt[s]
\* tells the bits a symbol takes out of a state and where its states are.

\* The states of the symbols from s on.
LaidOut(symbol, s) ==
  LET size == Cardinality(DOMAIN symbol)
      mine == SelectSeq([u \in 1 .. size |-> u - 1], LAMBDA u : symbol[u] = s)
  IN IF \A u \in DOMAIN symbol : symbol[u] < s THEN <<>>
     ELSE [i \in DOMAIN mine |-> size + mine[i]] \o LaidOut(symbol, s + 1)

FSE_buildCTable_wksp(norm, log) ==
  LET size == 2 ^ log
      low == LowProbability(norm)
      high == size - 1 - Len(low)
      spread == Spread([u \in 0 .. size - 1 |-> IF u > high THEN low[size - u] - 1 ELSE 0],
                       Occurrences(norm), 0, high)
      Times(n) == IF n < 0 THEN 1 ELSE n
      Total(s) == PlusOf([t \in 1 .. s |-> Times(norm[t])])
      MaxBitsOut(n) == log - HighBit(n - 1)
      Transform(s) ==
        LET n == norm[s + 1]
        IN IF n \in {-1, 1} THEN [deltaNbBits |-> log * 2 ^ 16 - size, find |-> Total(s) - 1]
           ELSE IF n = 0 THEN [deltaNbBits |-> 0, find |-> 0]
           ELSE [deltaNbBits |-> MaxBitsOut(n) * 2 ^ 16 - n * 2 ^ MaxBitsOut(n), find |-> Total(s) - n]
  IN IF spread.ret # 0 THEN Fail(Error.GENERIC)
     ELSE [ret |-> 0, tableLog |-> log, next |-> LaidOut(spread.symbol, 0),
           tt |-> [s \in 0 .. Len(norm) - 1 |-> Transform(s)]]

FSE_buildCTable_raw(nbBits) ==
  IF nbBits < 1 THEN Fail(Error.GENERIC)
  ELSE [ret |-> 0, tableLog |-> nbBits, next |-> [u \in 1 .. 2 ^ nbBits |-> 2 ^ nbBits + u - 1],
        tt |-> [s \in 0 .. 2 ^ nbBits - 1 |->
                 [deltaNbBits |-> nbBits * 2 ^ 16 - 2 ^ nbBits, find |-> s - 1]]]

FSE_buildCTable_rle(symbol) ==
  [ret |-> 0, tableLog |-> 0, next |-> <<0, 0>>,
   tt |-> [s \in {symbol} |-> [deltaNbBits |-> 0, find |-> 0]]]

FSE_initCState(ct) == 2 ^ ct.tableLog
\* The first symbol takes the smallest state, so that it costs nothing.
FSE_initCState2(ct, symbol) ==
  LET t == ct.tt[symbol]
      nb == (t.deltaNbBits + 2 ^ 15) \div 2 ^ 16
  IN ct.next[((nb * 2 ^ 16 - t.deltaNbBits) \div 2 ^ nb) + t.find + 1]

\* [b, state] behind the symbol.
FSE_encodeSymbol(b, state, ct, symbol) ==
  LET t == ct.tt[symbol]
      nb == (state + t.deltaNbBits) \div 2 ^ 16
  IN [b |-> BIT_addBits(b, state, nb), state |-> ct.next[(state \div 2 ^ nb) + t.find + 1]]
FSE_flushCState(b, state, ct) == BIT_flushBits(BIT_addBits(b, state, ct.tableLog))

-----------------------------------------------------------------------------
\* Symbols from the last to the first, by two states in turn.  e is [b, s1, s2].

By1(e, ct, symbol) == LET r == FSE_encodeSymbol(e.b, e.s1, ct, symbol)
                      IN [e EXCEPT !.b = r.b, !.s1 = r.state]
By2(e, ct, symbol) == LET r == FSE_encodeSymbol(e.b, e.s2, ct, symbol)
                      IN [e EXCEPT !.b = r.b, !.s2 = r.state]

\* The container is flushed behind four symbols, or two where it is of four bytes.
FSE_compress_usingCTable_generic(cap, src, ct, fast) ==
  LET n == Len(src)
      Flushed(e) == [e EXCEPT !.b = IF fast THEN BIT_flushBitsFast(@) ELSE BIT_flushBits(@)]
      Two(e, k) == By1(By2(e, ct, src[k]), ct, src[k - 1])
      RECURSIVE Down(_, _)
      Down(e, k) ==
        IF IsError(e.b.ret) \/ k = 0 THEN e
        ELSE IF Word = 8 /\ k % 4 = 0 THEN Down(Flushed(Two(Two(e, k), k - 2)), k - 4)
        ELSE Down(Flushed(Two(e, k)), k - 2)
      b == BIT_initCStream(cap)
      Start == IF n % 2 = 1
               THEN Flushed(By1([b |-> b, s1 |-> FSE_initCState2(ct, src[n]),
                                 s2 |-> FSE_initCState2(ct, src[n - 1])], ct, src[n - 2]))
               ELSE [b |-> b, s1 |-> FSE_initCState2(ct, src[n - 1]),
                     s2 |-> FSE_initCState2(ct, src[n])]
      Close(e) == BIT_closeCStream(FSE_flushCState(FSE_flushCState(e.b, e.s2, ct), e.s1, ct))
  IN IF n <= 2 \/ IsError(b.ret) THEN [ret |-> 0, out |-> <<>>, overflow |-> FALSE]
     ELSE Close(Down(Start, IF n % 2 = 1 THEN n - 3 ELSE n - 2))

FSE_BLOCKBOUND(size) == size + (size \div 2 ^ 7)
FSE_compress_usingCTable(cap, src, ct) ==
  FSE_compress_usingCTable_generic(cap, src, ct, cap >= FSE_BLOCKBOUND(Len(src)))

\* Counters, table and symbols: a single symbol returns 1, what does not shrink 0.
\* Useful says whether the largest counter is worth a table.
Compressed(cap, src, maxSV, maxLog, Useful(_)) ==
  LET Body(n, header) ==
        LET With(ct) ==
              LET c == FSE_compress_usingCTable(cap - header.ret, src, ct)
              IN IF c.ret = 0 THEN c
                 ELSE [ret |-> header.ret + c.ret, out |-> header.out \o c.out,
                       overflow |-> c.overflow]
        IN Then(FSE_buildCTable_wksp(n.norm, n.ret), With)
      Counted(h) ==
        LET log == FSE_optimalTableLog(maxLog, Len(src), Len(h.count) - 1)
            Header(n) == LET Written(w) == Body(n, w)
                         IN Then(FSE_writeNCount(cap, n.norm, n.ret), Written)
        IN IF h.ret = Len(src) THEN [ret |-> 1, out |-> <<>>, overflow |-> FALSE]
           ELSE IF ~Useful(h.ret) THEN [ret |-> 0, out |-> <<>>, overflow |-> FALSE]
           ELSE Then(FSE_normalizeCount(log, h.count, Len(src)), Header)
  IN IF Len(src) <= 1 THEN [ret |-> 0, out |-> <<>>, overflow |-> FALSE]
     ELSE Then(FSE_count_wksp(src, maxSV), Counted)

FSE_compress_wksp(cap, src, maxSV, tableLog) ==
  LET Useful(most) == most > 1 /\ most >= Len(src) \div 2 ^ 7
      r == Compressed(cap, src, IF maxSV = 0 THEN MaxSymbolValue ELSE maxSV,
                      IF tableLog = 0 THEN FSE_DEFAULT_TABLELOG ELSE tableLog, Useful)
  IN IF r.ret > 1 /\ r.ret >= Len(src) - 1 THEN [r EXCEPT !.ret = 0, !.out = <<>>] ELSE r

-----------------------------------------------------------------------------
\* huf_compress.c: from the counters of symbols to a Huffman code, from the
\* code to its description, and from literals to one or four streams.  A code
\* is a sequence, [val, nbBits] of symbol 0 first.

HUF_TABLELOG_DEFAULT == 11
HUF_SYMBOLVALUE_MAX == 255
HUF_BLOCKSIZE_MAX == 128 * 1024
MAX_FSE_TABLELOG_FOR_HUFF_HEADER == 6

RECURSIVE Merge(_, _, _), PayBack(_, _, _), TakeBack(_, _)

HUF_optimalTableLog(max, size, maxSV) == FSE_optimalTableLog_internal(max, size, maxSV, 1)

-----------------------------------------------------------------------------
\* The description of a code: the weights of all symbols but the last.

HUF_compressWeights(cap, weights) ==
  LET Useful(most) == most > 1
  IN Compressed(cap, weights, HUF_TABLELOG_MAX, MAX_FSE_TABLELOG_FOR_HUFF_HEADER, Useful)

HUF_writeCTable(cap, ct, log) ==
  LET n == Len(ct) - 1
      weights == [s \in 1 .. n |-> IF ct[s].nbBits = 0 THEN 0 ELSE log + 1 - ct[s].nbBits]
      WeightAt(i) == IF i <= n THEN weights[i] ELSE 0
      size == ((n + 1) \div 2) + 1
      Choose(c) ==
        IF c.ret > 1 /\ c.ret < n \div 2
        THEN [ret |-> c.ret + 1, out |-> <<c.ret>> \o c.out, overflow |-> c.overflow]
        ELSE IF n > 128 THEN Fail(Error.GENERIC)
        ELSE IF size > cap THEN Fail(Error.dstSize_tooSmall)
        ELSE [ret |-> size, overflow |-> FALSE,
              out |-> <<127 + n>> \o [i \in 1 .. size - 1 |->
                                       16 * WeightAt(2 * i - 1) + WeightAt(2 * i)]]
  IN IF n > HUF_SYMBOLVALUE_MAX THEN Fail(Error.maxSymbolValue_tooLarge)
     ELSE Then(HUF_compressWeights(cap - 1, weights), Choose)

\* Codes by their lengths: within a length by symbol, the longest first.
Codes0(nb, log) ==
  LET Number(b) == Cardinality({s \in DOMAIN nb : nb[s] = b})
      First[b \in 1 .. log] ==
        IF b = log THEN 0 ELSE (First[b + 1] + Number(b + 1)) \div 2
  IN [s \in DOMAIN nb |->
        [nbBits |-> nb[s],
         val |-> IF nb[s] \notin 1 .. log THEN 0
                 ELSE First[nb[s]] + Cardinality({t \in DOMAIN nb : t < s /\ nb[t] = nb[s]})]]

\* A symbol of no weight has a code longer than any other, never used.
HUF_readCTable(src, maxSV) ==
  LET Read(stats) ==
        IF stats.tableLog > HUF_TABLELOG_MAX THEN Fail(Error.tableLog_tooLarge)
        ELSE IF Len(stats.weights) > maxSV + 1 THEN Fail(Error.maxSymbolValue_tooSmall)
        ELSE [ret |-> stats.ret,
              ct |-> Codes0([s \in DOMAIN stats.weights |->
                              stats.tableLog + 1 - stats.weights[s]], stats.tableLog)]
  IN Then(HUF_readStats(src), Read)

-----------------------------------------------------------------------------
\* Building a code.  Nodes are the symbols, 0 the most frequent, and their parents,
\* HUF_SYMBOLVALUE_MAX + 1 the first of them.

STARTNODE == HUF_SYMBOLVALUE_MAX + 1

\* The symbols by decreasing counter.
HUF_sort(count) ==
  SortSeq([s \in DOMAIN count |-> s],
          LAMBDA s, t : count[s] > count[t] \/ (count[s] = count[t] /\ s < t))

\* The two smallest nodes get a parent: h has the counts of the leaves, those of the
\* parents made, and the parent of each node.
Merge(h, lowS, lowN) ==
  LET Leaf(s, n) == s >= 0 /\ (n > Len(h.made) \/ h.leaf[s + 1] < h.made[n])
      a == IF Leaf(lowS, lowN) THEN [id |-> lowS, s |-> lowS - 1, n |-> lowN]
           ELSE [id |-> STARTNODE + lowN - 1, s |-> lowS, n |-> lowN + 1]
      b == IF Leaf(a.s, a.n) THEN [id |-> a.s, s |-> a.s - 1, n |-> a.n]
           ELSE [id |-> STARTNODE + a.n - 1, s |-> a.s, n |-> a.n + 1]
      CountAt(id) == IF id < STARTNODE THEN h.leaf[id + 1] ELSE h.made[id - STARTNODE + 1]
      node == STARTNODE + Len(h.made)
  IN IF Len(h.made) = Len(h.leaf) - 1 THEN h
     ELSE Merge([h EXCEPT !.made = Append(@, CountAt(a.id) + CountAt(b.id)),
                          !.parent = (a.id :> node) @@ (b.id :> node) @@ @], b.s, b.n)

\* The lengths of the codes of leaves, which only their order and counts decide.
Heights(leaf) ==
  LET h == Merge([leaf |-> leaf, made |-> <<>>, parent |-> <<>>], Len(leaf) - 1, 1)
      root == STARTNODE + Len(leaf) - 2
      Depth[k \in STARTNODE .. root] == IF k = root THEN 0 ELSE Depth[h.parent[k]] + 1
  IN [r \in 0 .. Len(leaf) - 1 |-> Depth[h.parent[r]] + 1]

\* Codes too long are cut to max bits, and those they then stand in the way of grow:
\* x has the lengths nb, the cost still to pay, and last[k], the last symbol whose
\* length is max - k, -1 if there is none.
PayBack(x, leaf, max) ==
  LET most == HighBit(x.cost) + 1
      Worth(k) == /\ x.last[k] # -1
                  /\ x.last[k - 1] # -1 => leaf[x.last[k] + 1] <= 2 * leaf[x.last[k - 1] + 1]
      candidates == {k \in 2 .. most : Worth(k)}
      chosen == IF candidates = {} THEN 1
                ELSE CHOOSE k \in candidates : \A j \in candidates : j <= k
      k == CHOOSE i \in chosen .. HUF_TABLELOG_MAX + 1 :
             /\ x.last[i] # -1 \/ i = HUF_TABLELOG_MAX + 1
             /\ \A j \in chosen .. i - 1 : x.last[j] = -1
      pos == x.last[k]
      nb == [x.nb EXCEPT ![pos] = @ + 1]
  IN IF x.cost <= 0 THEN x
     ELSE PayBack([x EXCEPT !.cost = @ - 2 ^ (k - 1), !.nb = nb,
                            !.last = [@ EXCEPT
                              ![k - 1] = IF @ = -1 THEN pos ELSE @,
                              ![k] = IF pos = 0 \/ nb[pos - 1] # max - k THEN -1 ELSE pos - 1]],
                  leaf, max)

\* When too much was paid codes shrink again.
TakeBack(x, max) ==
  LET n == CHOOSE i \in 0 .. x.n : x.nb[i] # max /\ \A j \in i + 1 .. x.n : x.nb[j] = max
      at == IF x.last[1] = -1 THEN n + 1 ELSE x.last[1] + 1
  IN IF x.cost >= 0 THEN x
     ELSE TakeBack([x EXCEPT !.cost = @ + 1, !.nb[at] = @ - 1, !.last[1] = at,
                             !.n = IF x.last[1] = -1 THEN n ELSE @], max)

HUF_setMaxHeight(nb, leaf, max) ==
  LET last == Len(leaf) - 1
      largest == nb[last]
      long == {r \in DOMAIN nb : nb[r] > max}
      Excess[r \in 0 .. Len(leaf)] ==
        IF r = 0 THEN 0
        ELSE Excess[r - 1] + (IF r - 1 \in long
                              THEN 2 ^ (largest - max) - 2 ^ (largest - nb[r - 1]) ELSE 0)
      cut == [r \in DOMAIN nb |-> IF r \in long THEN max ELSE nb[r]]
      n == CHOOSE r \in DOMAIN nb : cut[r] < max /\ \A q \in DOMAIN nb : q > r => cut[q] = max
      LastOf(k) == IF k > 0 /\ \E r \in 0 .. n : cut[r] = max - k
                   THEN CHOOSE r \in 0 .. n :
                          cut[r] = max - k /\ \A q \in r + 1 .. n : cut[q] # max - k
                   ELSE -1
      start == [nb |-> cut, cost |-> Excess[Len(leaf)] \div 2 ^ (largest - max), n |-> n,
                last |-> [k \in 0 .. HUF_TABLELOG_MAX + 1 |-> LastOf(k)]]
  IN IF largest <= max THEN nb ELSE TakeBack(PayBack(start, leaf, max), max).nb

\* [ret, ct]: ret is the length of the longest code.
HUF_buildCTable_wksp(count, maxNbBits) ==
  LET max == IF maxNbBits = 0 THEN HUF_TABLELOG_DEFAULT ELSE maxNbBits
      order == HUF_sort(count)
      leaf == SelectSeq([r \in DOMAIN order |-> count[order[r]]], LAMBDA c : c > 0)
      nb == HUF_setMaxHeight(Heights(leaf), leaf, max)
      log == nb[Len(leaf) - 1]
      RankOf(s) == CHOOSE r \in DOMAIN order : order[r] = s
      Length(s) == IF count[s] = 0 THEN 0 ELSE nb[RankOf(s) - 1]
  IN IF log > HUF_TABLELOG_MAX THEN Fail(Error.GENERIC)
     ELSE [ret |-> log, ct |-> Codes0([s \in DOMAIN count |-> Length(s)], log)]

HUF_estimateCompressedSize(ct, count) ==
  PlusOf([s \in DOMAIN count |-> (IF s \in DOMAIN ct THEN ct[s].nbBits ELSE 0) * count[s]]) \div 8
HUF_validateCTable(ct, count) ==
  \A s \in DOMAIN count : count[s] # 0 => s \in DOMAIN ct /\ ct[s].nbBits # 0

-----------------------------------------------------------------------------
\* Streams, from the last symbol to the first.

HUF_encodeSymbol(b, ct, symbol) == BIT_addBits(b, ct[symbol + 1].val, ct[symbol + 1].nbBits)

\* The container is flushed before it may overflow: behind each symbol, of four bytes
\* behind every second and of eight behind every fourth.
FlushFor(b, bits) == IF 8 * Word < HUF_TABLELOG_MAX * bits + 7 THEN BIT_flushBits(b) ELSE b
HUF_compress1X_usingCTable_internal_body(cap, src, ct) ==
  LET b0 == BIT_initCStream(cap)
      \* behind symbol k, one of those that no group of four holds or one of a group
      Behind(b, k) ==
        LET left == Len(src) - (Len(src) % 4)
        IN CASE k > left /\ (k - left) % 4 = 1 -> BIT_flushBits(b)
             [] k > left /\ (k - left) % 4 = 2 -> FlushFor(b, 2)
             [] k > left /\ (k - left) % 4 = 3 -> FlushFor(b, 4)
             [] k <= left /\ k % 4 = 1 -> BIT_flushBits(b)
             [] k <= left /\ k % 4 = 3 -> FlushFor(b, 4)
             [] OTHER -> FlushFor(b, 2)
      RECURSIVE Down(_, _)
      Down(b, k) ==
        IF IsError(b.ret) \/ k = 0 THEN b
        ELSE Down(Behind(HUF_encodeSymbol(b, ct, src[k]), k), k - 1)
  IN IF cap < 8 \/ IsError(b0.ret) THEN [ret |-> 0, out |-> <<>>, overflow |-> FALSE]
     ELSE BIT_closeCStream(Down(b0, Len(src)))

HUF_compress4X_usingCTable_internal(cap, src, ct) ==
  LET segment == (Len(src) + 3) \div 4
      part == <<SubSeq(src, 1, segment), SubSeq(src, segment + 1, 2 * segment),
                SubSeq(src, 2 * segment + 1, 3 * segment), SubSeq(src, 3 * segment + 1, Len(src))>>
      \* each stream has the room the ones before it leave
      c[i \in 0 .. 4] ==
        IF i = 0 THEN [ret |-> 6, sizes |-> <<>>, out |-> <<>>, overflow |-> FALSE]
        ELSE LET p == c[i - 1]
                 s == HUF_compress1X_usingCTable_internal_body(cap - p.ret, part[i], ct)
             IN IF p.ret = 0 \/ s.ret = 0 THEN [p EXCEPT !.ret = 0, !.out = <<>>]
                ELSE [ret |-> p.ret + s.ret, out |-> p.out \o s.out,
                      sizes |-> p.sizes \o BytesOf(BitsOf(s.ret, 16)),
                      overflow |-> p.overflow \/ s.overflow]
  IN IF cap < 17 \/ Len(src) < 12 THEN [ret |-> 0, out |-> <<>>, overflow |-> FALSE]
     ELSE IF c[4].ret = 0 THEN [ret |-> 0, out |-> <<>>, overflow |-> FALSE]
     ELSE [ret |-> c[4].ret, out |-> SubSeq(c[4].sizes, 1, 6) \o c[4].out,
           overflow |-> c[4].overflow]

HUF_compressCTable_internal(cap, header, src, single, ct) ==
  LET c == IF single THEN HUF_compress1X_usingCTable_internal_body(cap - Len(header), src, ct)
           ELSE HUF_compress4X_usingCTable_internal(cap - Len(header), src, ct)
  IN IF c.ret = 0 \/ Len(header) + c.ret >= Len(src) - 1
     THEN [ret |-> 0, out |-> <<>>, overflow |-> c.overflow]
     ELSE [ret |-> Len(header) + c.ret, out |-> header \o c.out, overflow |-> c.overflow]

\* old is [ct, repeat], the code before and whether it serves: "none", "check" or
\* "valid"; old of the result is what the call leaves of it.
HUF_compress_internal(cap, src, maxSV, huffLog, single, old, prefer) ==
  LET Returned(r, o) == [ret |-> r.ret, out |-> r.out, overflow |-> r.overflow, old |-> o]
      Nothing(ret, o) == Returned([ret |-> ret, out |-> <<>>, overflow |-> FALSE], o)
      ByOld(o) == Returned(HUF_compressCTable_internal(cap, <<>>, src, single, o.ct), o)
      Described(count, o, t) ==
        LET Written(h) ==
              LET new == h.ret + HUF_estimateCompressedSize(t.ct, count)
              IN IF /\ o.repeat # "none"
                    /\ HUF_estimateCompressedSize(o.ct, count) <= new \/ h.ret + 12 >= Len(src)
                 THEN ByOld(o)
                 ELSE IF h.ret + 12 >= Len(src) THEN Nothing(0, o)
                 ELSE Returned(HUF_compressCTable_internal(cap, h.out, src, single, t.ct),
                               [ct |-> t.ct, repeat |-> "none"])
        IN Then(HUF_writeCTable(cap, t.ct, t.ret), Written)
      Counted(h) ==
        LET o == IF old.repeat = "check" /\ ~HUF_validateCTable(old.ct, h.count)
                 THEN [old EXCEPT !.repeat = "none"] ELSE old
            log == HUF_optimalTableLog(huffLog, Len(src), Len(h.count) - 1)
            Built(t) == Described(h.count, o, t)
        IN IF h.ret = Len(src)
           THEN Returned([ret |-> 1, out |-> <<src[1]>>, overflow |-> FALSE], old)
           ELSE IF h.ret <= (Len(src) \div 2 ^ 7) + 1 THEN Nothing(0, old)
           ELSE IF prefer /\ o.repeat # "none" THEN ByOld(o)
           ELSE Then(HUF_buildCTable_wksp(h.count, log), Built)
  IN IF src = <<>> \/ cap = 0 THEN Nothing(0, old)
     ELSE IF Len(src) > HUF_BLOCKSIZE_MAX THEN Fail(Error.srcSize_wrong)
     ELSE IF prefer /\ old.repeat = "valid" THEN ByOld(old)
     ELSE Then(FSE_count_wksp(src, maxSV), Counted)

=============================================================================
