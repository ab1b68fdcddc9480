-------------------------------- MODULE Fse ---------------------------------
(***************************************************************************)
(* Finite state entropy: entropy_common.c and fse_decompress.c, and what   *)
(* the copies of them in the decoders of older formats do otherwise.  A    *)
(* function that calls others of its file takes them as arguments, so that *)
(* each format is decoded by its own.                                      *)
(* A table is [tableLog, fast, cell], cell[s] = [symbol, nbBits, newState].*)
(***************************************************************************)
EXTENDS Bits, FiniteSets

RECURSIVE Counts(_, _, _), SkipZeros(_, _, _), Spread(_, _, _, _), Cells(_, _, _, _)

FSE_MIN_TABLELOG == 5
FSE_TABLELOG_ABSOLUTE_MAX == 15
FSE_MAX_TABLELOG == 12
MaxSymbolValue == 255

-----------------------------------------------------------------------------
\* Reading normalized counters.  The bits are those of the four bytes at ip,
\* from the bit-th on.

Peek(src, r, n) == Field(src, 8 * r.ip + r.bit, Smaller(n, 32 - r.bit))

CanAdvance(src, r) ==
  r.ip <= Len(src) - 7 \/ r.ip + (r.bit \div 8) <= Len(src) - 4
Advance(r) == [r EXCEPT !.ip = @ + (r.bit \div 8), !.bit = @ % 8]

Zeros(n) == [i \in 1 .. n |-> 0]

\* A run of symbols of probability zero: n of them are known.
SkipZeros(src, r, n) ==
  IF Peek(src, r, 16) = 65535
  THEN IF r.ip < Len(src) - 5 THEN SkipZeros(src, [r EXCEPT !.ip = @ + 2], n + 24)
       ELSE SkipZeros(src, [r EXCEPT !.bit = @ + 16], n + 24)
  ELSE IF Peek(src, r, 2) = 3 THEN SkipZeros(src, [r EXCEPT !.bit = @ + 2], n + 3)
  ELSE [[r EXCEPT !.bit = @ + 2] EXCEPT !.norm = @ \o Zeros(n + Peek(src, r, 2))]

\* One counter, of nbBits bits or of one less.
Counter(src, r) ==
  LET max == 2 * r.threshold - 1 - r.remaining
      small == Peek(src, r, r.nbBits - 1)
      large == Peek(src, r, r.nbBits)
      count == (IF small < max THEN small
                ELSE IF large >= r.threshold THEN large - max ELSE large) - 1
      left == r.remaining - (IF count < 0 THEN -count ELSE count)
      shift == CHOOSE k \in 0 .. 16 :
                 /\ left >= r.threshold \div 2 ^ k
                 /\ k > 0 => left < r.threshold \div 2 ^ (k - 1)
      after == [r EXCEPT !.bit = @ + (IF small < max THEN r.nbBits - 1 ELSE r.nbBits),
                         !.norm = Append(@, count), !.previous0 = count = 0,
                         !.remaining = left, !.nbBits = @ - shift,
                         !.threshold = @ \div 2 ^ shift]
  IN IF CanAdvance(src, after) THEN Advance(after)
     ELSE [after EXCEPT !.bit = @ - 8 * (Len(src) - 4 - after.ip), !.ip = Len(src) - 4]

Counts(src, maxSV, r) ==
  IF r.remaining <= 1 \/ Len(r.norm) > maxSV THEN r
  ELSE IF ~r.previous0 THEN Counts(src, maxSV, Counter(src, r))
  ELSE LET z == SkipZeros(src, r, 0)
       IN IF Len(z.norm) > maxSV THEN Fail(Error.maxSymbolValue_tooSmall)
          ELSE Counts(src, maxSV, Counter(src, IF CanAdvance(src, z) THEN Advance(z) ELSE z))

\* The counters at the start of src, of symbols up to maxSV; ret is their size.
\* Formats before 0.8 fail otherwise.
ReadNCount(src, maxSV, old) ==
  LET log == Field(src, 0, 4) + FSE_MIN_TABLELOG
      start == [ret |-> 0, ip |-> 0, bit |-> 4, norm |-> <<>>, previous0 |-> FALSE,
                remaining |-> 2 ^ log + 1, threshold |-> 2 ^ log, nbBits |-> log + 1]
      Finish(r) ==
        LET size == r.ip + ((r.bit + 7) \div 8)
        IN IF r.remaining # 1
           THEN Fail(IF old THEN Error.GENERIC ELSE Error.corruption_detected)
           ELSE IF ~old /\ r.bit > 32 THEN Fail(Error.corruption_detected)
           ELSE IF old /\ size > Len(src) THEN Fail(Error.srcSize_wrong)
           ELSE [ret |-> size, norm |-> r.norm, tableLog |-> log]
  IN IF Len(src) < 4 THEN Fail(Error.srcSize_wrong)
     ELSE IF log > FSE_TABLELOG_ABSOLUTE_MAX THEN Fail(Error.tableLog_tooLarge)
     ELSE Then(Counts(src, maxSV, start), Finish)

FSE_readNCount(src, maxSV) == ReadNCount(src, maxSV, FALSE)

-----------------------------------------------------------------------------
\* Building the decoding table.

TableStep(size) == (size \div 2) + (size \div 8) + 3

\* The symbols of positive probability, each as often as its counter says.
Occurrences(norm) ==
  LET Upto[s \in 0 .. Len(norm)] ==
        IF s = 0 THEN <<>>
        ELSE Upto[s - 1] \o [i \in 1 .. Larger(norm[s], 0) |-> s - 1]
  IN Upto[Len(norm)]

\* The rarest symbols (-1) take a cell each from the top down.
LowProbability(norm) == SelectSeq([s \in DOMAIN norm |-> s], LAMBDA s : norm[s] = -1)

\* Lays the symbols left on the cells up to high, a step apart; ret is the place
\* after the last.
Spread(cells, symbols, position, high) ==
  LET size == Cardinality(DOMAIN cells)
      Place[p \in 0 .. size - 1] ==
        IF p <= high THEN p ELSE Place[(p + TableStep(size)) % size]
  IN IF symbols = <<>> THEN [ret |-> position, symbol |-> cells]
     ELSE Spread([cells EXCEPT ![position] = Head(symbols)], Tail(symbols),
                 Place[(position + TableStep(size)) % size], high)

\* Cells u, u + 1, ...: the k-th cell of a symbol stands for its k-th state.
Cells(cells, u, next, log) ==
  IF u = 2 ^ log THEN cells
  ELSE LET s == cells[u].symbol
           nb == log - HighBit(next[s])
       IN Cells([cells EXCEPT ![u] = [symbol |-> s, nbBits |-> nb,
                                      newState |-> next[s] * 2 ^ nb - 2 ^ log]],
                u + 1, [next EXCEPT ![s] = @ + 1], log)

FSE_buildDTable(norm, log) ==
  LET size == 2 ^ log
      low == LowProbability(norm)
      high == size - 1 - Len(low)
      top == [u \in 0 .. size - 1 |-> IF u > high THEN low[size - u] - 1 ELSE 0]
      Build(spread) ==
        [ret |-> 0, tableLog |-> log, fast |-> \A s \in DOMAIN norm : norm[s] < 2 ^ (log - 1),
         cell |-> Cells([u \in 0 .. size - 1 |-> [symbol |-> spread.symbol[u]]], 0,
                        [s \in 0 .. Len(norm) - 1 |-> IF norm[s + 1] = -1 THEN 1 ELSE norm[s + 1]],
                        log)]
      Check(spread) == IF spread.ret # 0 THEN Fail(Error.GENERIC) ELSE Build(spread)
  IN IF Len(norm) > MaxSymbolValue + 1 THEN Fail(Error.maxSymbolValue_tooLarge)
     ELSE IF log > FSE_MAX_TABLELOG THEN Fail(Error.tableLog_tooLarge)
     ELSE Check(Spread(top, Occurrences(norm), 0, high))

FSE_buildDTable_rle(symbol) ==
  [ret |-> 0, tableLog |-> 0, fast |-> FALSE,
   cell |-> [u \in {0} |-> [symbol |-> symbol, nbBits |-> 0, newState |-> 0]]]

FSE_buildDTable_raw(nbBits) ==
  IF nbBits < 1 THEN Fail(Error.GENERIC)
  ELSE [ret |-> 0, tableLog |-> nbBits, fast |-> TRUE,
        cell |-> [u \in 0 .. 2 ^ nbBits - 1 |-> [symbol |-> u, nbBits |-> nbBits, newState |-> 0]]]

-----------------------------------------------------------------------------
\* Decoding: two states take turns on one stream.

\* The state an FSE stream starts in; reading it empties the container of tableLog bits.
InitDState(d, dt) ==
  [state |-> BIT_lookBits(d, dt.tableLog), d |-> BIT_skipBits(d, dt.tableLog)]

\* FSE_decodeSymbol: the symbol of the first state, whose turn is over.
GetSymbol(m, dt) ==
  LET c == dt.cell[m.s1]
  IN [m EXCEPT !.out = Append(@, c.symbol), !.d = BIT_skipBits(@, c.nbBits),
               !.s1 = m.s2, !.s2 = c.newState + BIT_lookBits(m.d, c.nbBits)]

Reloaded(m, Reload(_)) == [m EXCEPT !.d = Reload(@)]

\* Four symbols per turn, as long as the container can be filled and there is
\* room; a container of four bytes is filled half way.
FourByFour(m, cap, dt, Reload(_)) ==
  LET Two(n) == GetSymbol(GetSymbol(n, dt), dt)
      RECURSIVE Turns(_)
      Turns(n) ==
        LET r == Reloaded(n, Reload)
            half == Two(r)
            again == Reloaded(half, Reload)
        IN IF r.d.status # Unfinished \/ Len(r.out) >= cap - 3 THEN r
           ELSE IF 4 * FSE_MAX_TABLELOG + 7 <= 8 * Word THEN Turns(Two(half))
           ELSE IF again.d.status > Unfinished THEN again
           ELSE Turns(Two(again))
  IN Turns(m)

\* Formats 0.6 on: the stream ends when reading the next state overflows it.
TailUntilOverflow(m, cap, dt, Reload(_)) ==
  LET RECURSIVE Tail1(_)
      Tail1(n) ==
        LET r == Reloaded(GetSymbol(n, dt), Reload)
        IN IF Len(n.out) > cap - 2 THEN Fail(Error.dstSize_tooSmall)
           ELSE IF r.d.status = Overflow
                THEN [ret |-> Len(r.out) + 1, out |-> GetSymbol(r, dt).out]
           ELSE Tail1(r)
  IN Tail1(m)

\* Formats 0.1 to 0.5: it ends when all is read and both states are back at 0.
TailUntilEnd(m, cap, dt, Reload(_), EndOf(_)) ==
  LET RECURSIVE Tail2(_)
      Tail2(n) ==
        LET r == Reloaded(n, Reload)
        IN IF \/ r.d.status > Completed
              \/ Len(r.out) = cap
              \/ EndOf(r.d) /\ (dt.fast \/ r.s1 = 0)
           THEN IF EndOf(r.d) /\ r.s1 = 0 /\ r.s2 = 0
                THEN [ret |-> Len(r.out), out |-> r.out]
                ELSE Fail(IF Len(r.out) = cap THEN Error.dstSize_tooSmall
                          ELSE Error.corruption_detected)
           ELSE Tail2(GetSymbol(r, dt))
  IN Tail2(m)

\* FSE_decompress_usingDTable_generic, up to its last symbols.
UsingDTable(src, cap, dt, Init(_), Reload(_), Rest(_)) ==
  LET First(d) ==
        LET a == InitDState(d, dt)
            b == InitDState(Reload(a.d), dt)
        IN Rest(FourByFour([ret |-> 0, out |-> <<>>, d |-> Reload(b.d), s1 |-> a.state,
                            s2 |-> b.state], cap, dt, Reload))
  IN Then(Init(src), First)

FSE_decompress_usingDTable_generic(src, cap, dt) ==
  LET Rest(m) == TailUntilOverflow(m, cap, dt, BIT_reloadDStream)
  IN UsingDTable(src, cap, dt, BIT_initDStream, BIT_reloadDStream, Rest)

\* FSE_decompress_wksp, where tables have at most maxLog bits.
FSE_decompress_wksp(src, cap, maxLog) ==
  LET Decode(n) ==
        LET With(dt) == FSE_decompress_usingDTable_generic(From(src, n.ret), cap, dt)
        IN IF n.tableLog > maxLog THEN Fail(Error.tableLog_tooLarge)
           ELSE Then(FSE_buildDTable(n.norm, n.tableLog), With)
  IN Then(FSE_readNCount(src, MaxSymbolValue), Decode)

\* FSE_decompress of the older formats.
OldDecompress(src, cap, ReadCount(_, _), Build(_, _), Using(_, _, _)) ==
  LET Decode(n) ==
        LET With(dt) == Using(From(src, n.ret), cap, dt)
        IN IF n.ret >= Len(src) THEN Fail(Error.srcSize_wrong)
           ELSE Then(Build(n.norm, n.tableLog), With)
  IN IF Len(src) < 2 THEN Fail(Error.srcSize_wrong)
     ELSE Then(ReadCount(src, MaxSymbolValue), Decode)

=============================================================================
