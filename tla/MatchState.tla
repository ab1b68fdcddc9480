----------------------------- MODULE MatchState -----------------------------
(***************************************************************************)
(* The history of a compressor.  The caller brings the input in chunks,    *)
(* anywhere in its memory; the compressor keeps no copy, only a window     *)
(* (zstd_compress_internal.h) that gives every byte an index: from         *)
(* dictLimit on those of the segment at base, from lowLimit to dictLimit   *)
(* those of one segment before it, at dictBase.  Hash tables hold indices, *)
(* which the searches of zstd_fast.c and zstd_double_fast.c turn into      *)
(* matches.  A window outlives its frame: indices grow until they must be  *)
(* reduced to stay within 32 bits.                                         *)
(*                                                                         *)
(* What a chunk holds, how it hashes and whether a block is worth being    *)
(* compressed is left open.                                                *)
(***************************************************************************)
EXTENDS Common, Sequences

CONSTANTS
  Byte,         \* what a byte may be
  Area,         \* addresses of the caller's memory
  Memories,     \* and what may be there at first
  Places,       \* where it puts its chunks, when not behind the one before
  Chunks,       \* what a call brings
  Dicts,        \* dictionaries, and prefixes of jobs
  Strategies,   \* "fast", "dfast"
  MaxDist,      \* 1 << windowLog
  BlockSize,    \* the most bytes of a block
  Cycle,        \* 1 << cycleLog
  CurrentMax,   \* ZSTD1_CURRENT_MAX
  IndexMax,     \* bound: the largest index, (U32)-1
  DictIndexMax, \* rule for the caller: the largest index at the end of a dictionary
  LateMax, LateKeep,  \* 384 and 192, of the limited update
  HashSize, HashShort(_), HashLong(_), SearchLength, StepSize,
  MaxCalls      \* bound: frames begun and chunks given

\* A block is no longer than the window, which is 1 << ZSTD1_WINDOWLOG_MIN at least.
ASSUME SizesAssumption ==
  /\ {MaxDist, BlockSize, Cycle} \subseteq Nat \ {0}
  /\ {CurrentMax, IndexMax, DictIndexMax, MaxCalls, LateMax, LateKeep, StepSize, HashSize} \subseteq Nat
  /\ CurrentMax >= MaxDist + Cycle + BlockSize
  /\ BlockSize <= MaxDist /\ MaxDist >= 4 /\ StepSize >= 1
  /\ SearchLength \in 4 .. 7
ASSUME MemoryAssumption ==
  /\ Area \subseteq Nat \ {0} /\ Places \subseteq Area /\ Memories \subseteq [Area -> Byte]
  /\ Chunks \subseteq Seq(Byte) /\ Dicts \subseteq Seq(Byte)
  /\ \A data \in Chunks \cup Dicts : Len(data) > 0
\* The hash functions yield places of the tables, whatever the bytes.
ASSUME HashAssumption ==
  /\ \A bytes \in [1 .. SearchLength -> Byte \cup {-1}] : HashShort(bytes) \in 0 .. HashSize - 1
  /\ \A bytes \in [1 .. 8 -> Byte \cup {-1}] : HashLong(bytes) \in 0 .. HashSize - 1

VARIABLES
  mem,            \* the caller's memory
  window,         \* ms->window
  hashTable, chainTable,   \* of strategy dfast, the latter is the table of short matches
  nextToUpdate, loadedDictEnd,
  strategy,
  rep,            \* prevCBlock->rep, the two that are searched for
  todo,           \* bytes of the last chunk not compressed yet
  stream,         \* a dictionary and the frame's bytes so far, as a decoder has them
  dictSize,       \* how many of them are the dictionary
  forced,         \* params->forceWindow
  decRep,         \* the three repeat offsets of a decoder
  block,          \* the last block: [start, end] in stream, [seqs, wild], decRep before it
  calls

tables == <<hashTable, chainTable, nextToUpdate, strategy, rep>>
frameVars == <<stream, dictSize, forced>>
vars == <<mem, window, loadedDictEnd, tables, todo, frameVars, decRep, block, calls>>

HASH_READ_SIZE == 8
MINIMUM_BLOCK == 7     \* MIN_CBLOCK_SIZE + ZSTD1_blockHeaderSize + 1
kSearchStrength == 8

-----------------------------------------------------------------------------
\* The window: zstd_compress_internal.h.

NoWindow == [nextSrc |-> 0, base |-> 0, dictBase |-> 0, lowLimit |-> 0, dictLimit |-> 0]
EndOf(w) == w.nextSrc - w.base

WindowClear(w) == [w EXCEPT !.lowLimit = EndOf(w), !.dictLimit = EndOf(w)]
HasExtDict(w) == w.lowLimit < w.dictLimit

\* The prefix becomes the dictionary segment; one too short to be searched is dropped.
NewSegment(w, src) ==
  LET low == IF EndOf(w) - w.dictLimit < HASH_READ_SIZE THEN EndOf(w) ELSE w.dictLimit
  IN [w EXCEPT !.lowLimit = low, !.dictLimit = EndOf(w), !.dictBase = w.base,
               !.base = src - EndOf(w)]

\* The part of the dictionary segment that input was written over, and what lies before
\* it, is no longer referred to.
\* Mutant: what the input was written over is kept, and what lies before it dropped.
WithoutOverlapUpTo(w, src, size) ==
  IF src + size > w.dictBase + w.lowLimit /\ src < w.dictBase + w.dictLimit
  THEN [w EXCEPT !.lowLimit = Larger(src - w.dictBase, w.lowLimit)]
  ELSE w
WithoutOverlap(w, src, size) ==
  IF src + size > w.dictBase + w.lowLimit /\ src < w.dictBase + w.dictLimit
  THEN [w EXCEPT !.lowLimit = Smaller(src + size - w.dictBase, w.dictLimit)]
  ELSE w

WindowUpdate(w, src, size) ==
  LET v == IF src = w.nextSrc THEN w ELSE NewSegment(w, src)
  IN WithoutOverlap([v EXCEPT !.nextSrc = src + size], src, size)

\* Mutant: the block to come is not counted.
CorrectionOnceReached(current, n) == current > CurrentMax
NeedOverflowCorrection(current, n) == current + n > CurrentMax
Correction(current) == current - ((current % Cycle) + MaxDist)
CorrectOverflow(w, c) ==
  [w EXCEPT !.base = @ + c, !.dictBase = @ + c, !.lowLimit = @ - c, !.dictLimit = @ - c]

\* A dictionary is kept until the window has moved past its end.
PastMaxDist(blockEnd, dictEnd) == blockEnd > MaxDist + dictEnd
EnforceMaxDist(w, blockEnd, dictEnd) ==
  LET low == Larger(w.lowLimit, blockEnd - MaxDist)
  IN IF ~PastMaxDist(blockEnd, dictEnd) THEN w
     ELSE [w EXCEPT !.lowLimit = low, !.dictLimit = Larger(@, low)]

-----------------------------------------------------------------------------
\* Tables.

EmptyTable == [h \in 0 .. HashSize - 1 |-> 0]
ReduceTable(table, c) ==
  [h \in DOMAIN table |-> IF table[h] < c THEN 0 ELSE table[h] - c]
\* Mutant: only the hash table is reduced.
ReducedChainKept(table, c) == table
ReducedChain(table, c) == IF strategy = "fast" THEN table ELSE ReduceTable(table, c)

\* Bytes by their index, in memory m.
ByteAt(m, w, i) ==
  LET a == (IF i < w.dictLimit THEN w.dictBase ELSE w.base) + i
  IN IF a \in Area THEN m[a] ELSE -1
BytesAt(m, w, i, n) == [k \in 1 .. n |-> ByteAt(m, w, i + k - 1)]
Short(m, w, i) == HashShort(BytesAt(m, w, i, SearchLength))
Long(m, w, i) == HashLong(BytesAt(m, w, i, 8))

\* ZSTD1_fillHashTable, ZSTD1_fillDoubleHashTable: every third position, the others where
\* nothing is.  t is [hash, chain].
FilledTables(t, m, w, from, end, dfast) ==
  LET n == 3 * ((end - HASH_READ_SIZE - from + 1) \div 3)
      First(k) == (k - 1) % 3 = 0
      Put(table, h, k) ==
        IF First(k) \/ table[h] = 0 THEN [table EXCEPT ![h] = from + k - 1] ELSE table
      Upto[k \in 0 .. n] ==
        IF k = 0 THEN t
        ELSE LET s == Upto[k - 1]
                 i == from + k - 1
             IN IF dfast
                THEN [hash |-> Put(s.hash, Long(m, w, i), k),
                      chain |-> IF First(k) THEN Put(s.chain, Short(m, w, i), k) ELSE s.chain]
                ELSE [s EXCEPT !.hash = Put(s.hash, Short(m, w, i), k)]
  IN IF n > 0 THEN Upto[n] ELSE t

-----------------------------------------------------------------------------
\* The searches: ZSTD1_compressBlock_fast and ZSTD1_compressBlock_doubleFast, each with and
\* without a dictionary segment.  s is what a search has come to: [ip, anchor, o1, o2,
\* hash, chain, seqs, wild, immediate]; positions are indices.  A sequence is [ll, ml, off],
\* off 0 being the first repeat code.  wild tells that bytes were read that are not
\* history.

\* How far the bytes from i and from j < i on are the same.
Count(m, w, i, j, iend) ==
  LET stops == {n \in 0 .. iend - i : n = iend - i \/ ByteAt(m, w, i + n) # ByteAt(m, w, j + n)}
  IN CHOOSE n \in stops : \A k \in stops : n <= k
Same(m, w, i, j, n) == \A k \in 0 .. n - 1 : ByteAt(m, w, i + k) = ByteAt(m, w, j + k)

\* How far a match can be extended to the left.
Back(m, w, i, j, anchor) ==
  LET low == IF j < w.dictLimit THEN w.lowLimit ELSE w.dictLimit
      fits == {n \in 0 .. Smaller(i - anchor, j - low) :
                 \A k \in 1 .. n : ByteAt(m, w, i - k) = ByteAt(m, w, j - k)}
  IN CHOOSE n \in fits : \A k \in fits : k <= n

\* Whether n bytes at index j, read for a comparison, are history of one segment.
Held(w, j, n, iend) ==
  j >= w.lowLimit /\ j + n <= iend /\ (j < w.dictLimit => j + n <= w.dictLimit)

\* A repeated offset is looked at when it stays in the prefix, which is seen to before the
\* search, or does not straddle the end of the dictionary segment.  Indices are unsigned:
\* one below zero would be a high one.
\* Mutant: the four bytes compared may straddle the end of the segment.
RepAcrossSegments(w, j) == j > w.lowLimit \/ j < 0
RepInSegment(w, j) ==
  j \notin w.dictLimit - 3 .. w.dictLimit - 1 /\ (j > w.lowLimit \/ j < 0)
RepUsable(w, i, offset) ==
  IF HasExtDict(w) THEN RepInSegment(w, i - offset) ELSE offset > 0

\* An index from a table; only the fast search in two segments takes the lowest one.
IndexUsable(w, j, dfast) ==
  IF HasExtDict(w) /\ ~dfast THEN j >= w.lowLimit ELSE j > w.lowLimit

Noted(s, m, w, i, dfast) ==
  IF dfast THEN [s EXCEPT !.hash[Long(m, w, i)] = i, !.chain[Short(m, w, i)] = i]
  ELSE [s EXCEPT !.hash[Short(m, w, i)] = i]

\* A match of i at j, extended both ways.
Taken(s, m, w, i, j, iend) ==
  LET back == Back(m, w, i, j, s.anchor)
      ml == Count(m, w, i, j, iend) + back
  IN [s EXCEPT !.ip = i - back + ml, !.anchor = i - back + ml,
               !.o1 = i - j, !.o2 = s.o1,
               !.seqs = Append(@, [ll |-> i - back - s.anchor, ml |-> ml, off |-> i - j])]
Repeated(s, m, w, i, offset, iend) ==
  LET ml == Count(m, w, i, i - offset, iend)
  IN [s EXCEPT !.ip = i + ml, !.anchor = i + ml,
               !.seqs = Append(@, [ll |-> i - s.anchor, ml |-> ml, off |-> 0])]

\* What the tables propose at i: j for i, or at i + 1.  none is the search going on.
Proposed(s, m, w, i, iend, dfast) ==
  LET Match(j, n, k) == IndexUsable(w, j, dfast) /\ Same(m, w, j, k, n)
      Wild(j, n) == IndexUsable(w, j, dfast) /\ ~Held(w, j, n, iend)
      e == [Noted(s, m, w, i, dfast) EXCEPT !.immediate = TRUE]
      none == [e EXCEPT !.ip = i + ((i - s.anchor) \div 2 ^ kSearchStrength)
                                 + (IF dfast THEN 1 ELSE StepSize),
                        !.immediate = FALSE]
      jShort == IF dfast THEN s.chain[Short(m, w, i)] ELSE s.hash[Short(m, w, i)]
      jLong == s.hash[Long(m, w, i)]
      next == e.hash[Long(m, w, i + 1)]
      f == [e EXCEPT !.hash[Long(m, w, i + 1)] = i + 1]
      Seen(t, wild) == [t EXCEPT !.wild = @ \/ wild]
  IN IF dfast /\ Match(jLong, 8, i) THEN Seen(Taken(e, m, w, i, jLong, iend), Wild(jLong, 8))
     ELSE IF ~Match(jShort, 4, i) THEN Seen(none, Wild(jShort, 4) \/ (dfast /\ Wild(jLong, 8)))
     ELSE IF dfast /\ Match(next, 8, i + 1)
     THEN Seen(Taken(f, m, w, i + 1, next, iend), Wild(next, 8) \/ Wild(jShort, 4))
     ELSE Seen(Taken(IF dfast THEN f ELSE e, m, w, i, jShort, iend), Wild(jShort, 4))

\* Positions noted behind a match, when it leaves room for more.
Filled(t, m, w, i, iend, dfast) ==
  IF t.immediate /\ t.ip <= iend - HASH_READ_SIZE
  THEN Noted(Noted(t, m, w, i + 2, dfast), m, w, t.ip - 2, dfast)
  ELSE [t EXCEPT !.immediate = FALSE]

\* One turn of the search loop: the second repeat offset right behind a match, else the
\* first one at the next position, else the tables.
Turn(s, m, w, iend, dfast) ==
  LET i == s.ip
      ilimit == iend - HASH_READ_SIZE
      RepMatch(k, offset) == RepUsable(w, k, offset) /\ Same(m, w, k - offset, k, 4)
      swapped == [s EXCEPT !.o1 = s.o2, !.o2 = s.o1]
      Wild(k, offset) == RepUsable(w, k, offset) /\ ~Held(w, k - offset, 4, iend)
      again == s.immediate /\ i <= ilimit
      t == [s EXCEPT !.wild = @ \/ Wild(i + 1, s.o1) \/ (again /\ Wild(i, s.o2)),
                     !.immediate = TRUE]
  IN IF again /\ RepMatch(i, s.o2)
     THEN [Noted(Repeated(swapped, m, w, i, s.o2, iend), m, w, i, dfast)
             EXCEPT !.wild = @ \/ Wild(i, s.o2)]
     ELSE IF i >= ilimit THEN s
     ELSE IF RepMatch(i + 1, s.o1)
     THEN Filled(Noted(Repeated(t, m, w, i + 1, s.o1, iend), m, w, i, dfast),
                 m, w, i, iend, dfast)
     ELSE Filled(Proposed(t, m, w, i, iend, dfast), m, w, i, iend, dfast)

\* Without a dictionary segment, offsets that reach out of the prefix are put aside.
PutAside(w, istart, offset) ==
  LET ip == IF istart = w.dictLimit THEN istart + 1 ELSE istart
  IN ~HasExtDict(w) /\ offset > ip - w.dictLimit
Saved(w, istart) ==
  IF PutAside(w, istart, rep[1]) THEN rep[1]
  ELSE IF PutAside(w, istart, rep[2]) THEN rep[2] ELSE 0

Search(m, w, hash, chain, istart, iend, dfast) ==
  LET Start(offset) == IF PutAside(w, istart, offset) THEN 0 ELSE offset
      start == [ip |-> IF ~HasExtDict(w) /\ istart = w.dictLimit THEN istart + 1 ELSE istart,
                anchor |-> istart, o1 |-> Start(rep[1]), o2 |-> Start(rep[2]),
                hash |-> hash, chain |-> chain, seqs |-> <<>>, wild |-> FALSE,
                immediate |-> FALSE]
      Upto[k \in 0 .. iend - istart] ==
        IF k = 0 THEN start ELSE Turn(Upto[k - 1], m, w, iend, dfast)
      end == Upto[iend - istart]
      OrSaved(offset) == IF ~HasExtDict(w) /\ offset = 0 THEN Saved(w, istart) ELSE offset
  IN [end EXCEPT !.o1 = OrSaved(@), !.o2 = OrSaved(@)]

-----------------------------------------------------------------------------
\* A decoder, given a block's sequences: ZSTD1_decodeSequence and ZSTD1_execSequence.  An
\* offset may reach back as far as the window, and to a dictionary for as long as the
\* frame is not longer than the window.

Decoded(b) ==
  LET DictKept == ~forced /\ b.end - dictSize <= MaxDist
      After[k \in 0 .. Len(b.seqs)] ==
        IF k = 0 THEN [out |-> SubSeq(stream, 1, b.start), rep |-> b.decRep, ok |-> TRUE]
        ELSE LET s == b.seqs[k]
                 p == After[k - 1]
                 r == p.rep
                 out == p.out \o SubSeq(stream, Len(p.out) + 1, Len(p.out) + s.ll)
                 off == IF s.off # 0 THEN s.off ELSE IF s.ll > 0 THEN r[1] ELSE r[2]
                 ok == off \in 1 .. Len(out) /\ (off <= MaxDist \/ DictKept)
             IN IF ~p.ok \/ ~ok THEN [p EXCEPT !.ok = FALSE]
                ELSE [ok |-> TRUE,
                      out |-> out \o [j \in 1 .. s.ml |->
                                        out[Len(out) - off + 1 + ((j - 1) % off)]],
                      rep |-> IF s.off # 0 THEN <<off, r[1], r[2]>>
                              ELSE IF s.ll > 0 THEN r ELSE <<r[2], r[1], r[3]>>]
  IN After[Len(b.seqs)]

-----------------------------------------------------------------------------
\* Actions.

NoBlock == [start |-> 0, end |-> 0, seqs |-> <<>>, wild |-> FALSE, decRep |-> <<1, 4, 8>>]

Init ==
  /\ mem \in Memories
  /\ window = NoWindow /\ hashTable = EmptyTable /\ chainTable = EmptyTable
  /\ nextToUpdate = 0 /\ loadedDictEnd = 0 /\ strategy = "none"
  /\ rep = <<1, 4>> /\ decRep = <<1, 4, 8>>
  /\ todo = 0 /\ stream = <<>> /\ dictSize = 0 /\ forced = FALSE
  /\ block = NoBlock /\ calls = 0

\* The caller writes into its memory, over what may be there.
Fits(data, place) == place .. place + Len(data) - 1 \subseteq Area
Written(data, place) ==
  [a \in Area |-> IF a \in place .. place + Len(data) - 1 THEN data[a - place + 1] ELSE mem[a]]

NewFrame ==
  /\ rep' = <<1, 4>> /\ decRep' = <<1, 4, 8>>
  /\ todo' = 0 /\ block' = NoBlock
  /\ calls < MaxCalls /\ calls' = calls + 1

\* A frame without a dictionary behind window w, with tables t.
Plain(w, t) ==
  /\ window' = w /\ hashTable' = t.hash /\ chainTable' = t.chain
  /\ nextToUpdate' = w.dictLimit + 1 /\ loadedDictEnd' = 0
  /\ stream' = <<>> /\ dictSize' = 0 /\ forced' = FALSE
  /\ UNCHANGED mem

\* A dictionary that is still in use when indices are reduced may lie farther back than
\* they are reduced to: lowLimit -= correction would go below zero.  None is if it ends a
\* window and a block below CURRENT_MAX.  Nothing in the code sees to that: a context that
\* is kept takes a dictionary at whatever index it has come to.
LowDictionaries == DictIndexMax + MaxDist + BlockSize <= CurrentMax

\* ZSTD1_loadDictionaryContent, for a dictionary as LowDictionaries asks, or a job's prefix
\* (forceWindow), no longer than the window.  A content of HASH_READ_SIZE bytes or fewer,
\* behind the tables of a dictionary that has them, goes in no table; one without tables is
\* not loaded at all (zstd_compress.c:2353).
WithDict(w, t, dict, place, force) ==
  /\ Fits(dict, place)
  /\ IF force THEN /\ HASH_READ_SIZE < Len(dict) /\ Len(dict) <= MaxDist
                   /\ EndOf(w) + Len(dict) <= IndexMax
     ELSE EndOf(w) + Len(dict) <= DictIndexMax
  /\ mem' = Written(dict, place)
  /\ window' = WindowUpdate(w, place, Len(dict))
  /\ \E f \in {FilledTables(t, mem', window', w.dictLimit + 1, EndOf(window'),
                            strategy' = "dfast")} :
       hashTable' = f.hash /\ chainTable' = f.chain
  /\ nextToUpdate' = (IF Len(dict) <= HASH_READ_SIZE THEN w.dictLimit + 1 ELSE EndOf(window'))
  /\ loadedDictEnd' = (IF force THEN 0 ELSE EndOf(window'))
  /\ stream' = dict /\ dictSize' = Len(dict) /\ forced' = force

Begin(w, t) ==
  /\ NewFrame
  /\ \/ Plain(w, t)
     \/ \E dict \in Dicts, place \in Places \cup {w.nextSrc}, force \in BOOLEAN :
          WithDict(w, t, dict, place, force)

\* Of a context with other parameters, or new.
ResetContext ==
  /\ strategy' \in Strategies /\ strategy' # strategy
  /\ Begin(NoWindow, [hash |-> EmptyTable, chain |-> EmptyTable])

\* ZSTD1_continueCCtx: the tables stay.  A frame whose call failed may be given up.
ContinueContext ==
  /\ strategy # "none"
  /\ UNCHANGED strategy
  /\ Begin(WindowClear(window), [hash |-> hashTable, chain |-> chainTable])

\* ZSTD1_compressContinue, up to its first block.  IndexMax is for calls that fail before
\* it, one after the other.
AddChunk ==
  /\ strategy # "none" /\ todo = 0
  /\ calls < MaxCalls /\ calls' = calls + 1
  /\ \E data \in Chunks, place \in Places \cup {window.nextSrc} :
       /\ Fits(data, place)
       /\ EndOf(window) + Len(data) <= IndexMax
       /\ mem' = Written(data, place)
       /\ window' = WindowUpdate(window, place, Len(data))
       /\ nextToUpdate' = IF place = window.nextSrc THEN nextToUpdate ELSE window'.dictLimit
       /\ stream' = stream \o data
       /\ todo' = Len(data)
  /\ UNCHANGED <<hashTable, chainTable, strategy, rep, loadedDictEnd, dictSize, forced, decRep,
                 block>>

Raw(n) == [start |-> Len(stream) - todo, end |-> Len(stream) - todo + n, seqs |-> <<>>,
           wild |-> FALSE, decRep |-> decRep]

\* ZSTD1_compressBlock_internal: the block that begins at index i of w.  What the search
\* found is taken back when it saves nothing.
CompressOne(w, t, i, n) ==
  IF n < MINIMUM_BLOCK
  THEN /\ hashTable' = t.hash /\ chainTable' = t.chain /\ block' = Raw(n)
       /\ UNCHANGED <<rep, decRep>>
  ELSE \E r \in {Search(mem, w, t.hash, t.chain, i, i + n, strategy = "dfast")} :
         /\ hashTable' = r.hash /\ chainTable' = r.chain
         /\ \/ /\ block' = [Raw(n) EXCEPT !.seqs = r.seqs, !.wild = r.wild]
               /\ rep' = <<r.o1, r.o2>> /\ decRep' = Decoded(block').rep
            \/ /\ block' = [Raw(n) EXCEPT !.wild = r.wild]
               /\ UNCHANGED <<rep, decRep>>

Late(update, current) ==
  IF current > update + LateMax
  THEN current - Smaller(LateKeep, current - update - LateMax) ELSE update

\* One turn of ZSTD1_compress_frameChunk.
CompressBlock ==
  /\ todo > 0
  /\ LET n == Smaller(BlockSize, todo)
         current == EndOf(window) - todo
         correct == NeedOverflowCorrection(current, n)
         c == IF correct THEN Correction(current) ELSE 0
         dictEnd == IF correct THEN 0 ELSE loadedDictEnd
         w == EnforceMaxDist(CorrectOverflow(window, c), current - c + n, dictEnd)
         t == [hash |-> ReduceTable(hashTable, c),
               chain |-> ReducedChain(chainTable, c)]
         update == Larger(Larger(nextToUpdate - c, 0), w.lowLimit)
     IN /\ window' = w
        /\ loadedDictEnd' = (IF PastMaxDist(current - c + n, dictEnd) THEN 0 ELSE dictEnd)
        /\ nextToUpdate' = (IF n < MINIMUM_BLOCK THEN update ELSE Late(update, current - c))
        /\ CompressOne(w, t, current - c, n)
        /\ todo' = todo - n
  /\ UNCHANGED <<mem, strategy, stream, dictSize, forced, calls>>

Next == ResetContext \/ ContinueContext \/ AddChunk \/ CompressBlock

Spec == Init /\ [][Next]_vars

-----------------------------------------------------------------------------
\* Properties.

End == EndOf(window)
Reached == End - todo
NextBlock == Smaller(BlockSize, todo)

\* When indices are to be reduced, no repeat offset reaches back farther than they will.
\* One found in a dictionary longer ago than a window may: blocks left as they are keep it.
\* Nothing in the code sees to that; the index a search makes of it is below zero.
OffsetsInReach ==
  todo > 0 /\ NeedOverflowCorrection(Reached, NextBlock) =>
    \A k \in 1 .. 2 : rep[k] <= Reached - Correction(Reached)

(* The variables keep their types; the window's limits are in order and no *)
(* table holds an index that was not reached yet: a search would take what *)
(* lies there for a match.                                                 *)
TypeOK ==
  /\ mem \in [Area -> Byte] /\ stream \in Seq(Byte) /\ dictSize \in 0 .. Len(stream)
  /\ window.lowLimit \in 0 .. window.dictLimit /\ window.dictLimit \in 0 .. End
  /\ todo \in 0 .. Len(stream) - dictSize
  /\ \A table \in {hashTable, chainTable} :
       /\ DOMAIN table = 0 .. HashSize - 1
       /\ \A h \in DOMAIN table : table[h] \in 0 .. Larger(Reached - 1, 0)
  /\ nextToUpdate \in 0 .. Reached + 1 /\ loadedDictEnd \in 0 .. Reached
  /\ \A k \in 1 .. 2 : rep[k] > 0
  /\ strategy \in Strategies \cup {"none"} /\ forced \in BOOLEAN /\ calls \in 0 .. MaxCalls

(* Every index the window lets a search refer to is a byte of the frame or *)
(* of its dictionary, still in the caller's memory, whatever the caller    *)
(* wrote over since and wherever it puts its chunks, across frames and     *)
(* reductions of the indices.                                              *)
AddressOf(i) == (IF i < window.dictLimit THEN window.dictBase ELSE window.base) + i
HistoryIntact ==
  \A i \in window.lowLimit .. End - 1 :
    /\ End - i <= Len(stream)
    /\ AddressOf(i) \in Area
    /\ mem[AddressOf(i)] = stream[Len(stream) - (End - i) + 1]

(* A decoder that keeps a window of history makes the block out of the     *)
(* sequences found, with the repeat offsets as it knows them: also when    *)
(* blocks in between were left as they are, when offsets were put aside    *)
(* for a block and when matches cross the segments.  No search reads what  *)
(* is not history, as long as no repeat offset that was found in a         *)
(* dictionary outlives a reduction of the indices (OffsetsInReach).        *)
Regenerates ==
  LET d == Decoded(block)
  IN /\ ~block.wild /\ d.ok
     /\ d.out = SubSeq(stream, 1, Len(d.out)) /\ Len(d.out) <= block.end

(* Indices stay below ZSTD1_CURRENT_MAX for as long as blocks are          *)
(* compressed, whatever frames and chunks came before, provided that every *)
(* dictionary was loaded at a low index (LowDictionaries, a rule the code  *)
(* does not enforce and zstd_compress_internal.h:521 relies on).  Reducing *)
(* them takes none below zero that may still be referred to, and leaves    *)
(* history in place.                                                       *)
IndicesReduced ==
  [][CompressBlock =>
       /\ Reached' <= CurrentMax
       /\ NeedOverflowCorrection(Reached, NextBlock) =>
            Correction(Reached) \in 1 .. window.lowLimit
       /\ Reached' - window'.lowLimit >=
            Smaller(Reached - window.lowLimit, MaxDist)]_vars
=============================================================================
