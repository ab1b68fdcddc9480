-------------------------- MODULE MatchSearchProofs --------------------------
(***************************************************************************)
(* The tables of MatchState never hold an index that a search could        *)
(* mistake for history, and what the searches of zstd_fast.c and           *)
(* zstd_double_fast.c find is what a decoder makes the block out of        *)
(* (TypeOK and Regenerates): for any memory, chunks, dictionaries, sizes   *)
(* and hash functions.                                                     *)
(*                                                                         *)
(* Spot says what a table may hold while a search is at ip.  SearchInv     *)
(* says what a turn of the search keeps: the sequences so far are a Path   *)
(* that takes a decoder through the stream (Encoded), and its repeat       *)
(* offsets are those the search has, or has put aside (Agrees).  SInv is   *)
(* what holds between blocks.  A recursive function of the model is met as *)
(* a Recursion: one with those values exists by induction on how many      *)
(* turns were taken.                                                       *)
(***************************************************************************)
EXTENDS MatchStateProofs, SequenceTheorems, WellFoundedInduction

Table == [0 .. HashSize - 1 -> Nat]
Sequence == [ll : Nat, ml : Nat, off : Nat]
Found == [ip : Nat, anchor : Nat, o1 : Nat, o2 : Nat, hash : Table, chain : Table,
          seqs : Seq(Sequence), wild : BOOLEAN, immediate : BOOLEAN]

\* What a table may hold while the search is at ip: an index too low to be used, one whose
\* bytes are in the dictionary segment, or in the prefix before ip; or the zero of an empty
\* place.
Spot(w, t, ip, iend) ==
  \/ t < w.lowLimit
  \/ t + 8 <= w.dictLimit
  \/ w.dictLimit <= t /\ t < ip /\ t + 8 <= iend
  \/ t = 0 /\ w.dictLimit = 0
Spots(w, table, ip, iend) == \A h \in 0 .. HashSize - 1 : Spot(w, table[h], ip, iend)

\* Where index i is in the stream.
Pos(w, i) == Len(stream) - (EndOf(w) - i)
\* Whether a decoder has the dictionary still when it makes the block that ends at iend.
Kept(w, iend) == ~forced /\ Pos(w, iend) - dictSize <= MaxDist

\* A block from index st to iend of a window that holds the stream.
Ctx(w, st, iend) ==
  /\ mem \in [Area -> Byte] /\ stream \in Seq(Byte) /\ dictSize \in Nat
  /\ IsWindow(w) /\ Holds(mem, w, stream)
  /\ st \in Nat /\ iend \in Nat
  /\ w.dictLimit <= st /\ st < iend /\ iend <= EndOf(w)
  /\ HasExtDict(w) => st >= 4
  /\ iend - w.lowLimit <= MaxDist \/ Kept(w, iend)

-----------------------------------------------------------------------------
\* Induction.
LEMMA SmallestNat ==
  ASSUME NEW T \in SUBSET Nat, T # {}
  PROVE  \E n \in T : \A m \in T : n <= m
<1> DEFINE R == {ss \in Nat \X Nat : ss[1] < ss[2]}
<1>1. IsWellFoundedOn(R, Nat)
  BY NatLessThanWellFounded DEF OpToRel
<1>2. PICK n \in T : \A m \in T : ~ (<<m, n>> \in R)
  BY <1>1, WFMin
<1>3. ASSUME NEW m \in T PROVE n <= m
  <2>1. m \in Nat /\ n \in Nat /\ <<m, n>> \notin R
    BY <1>2
  <2> QED
    BY <2>1
<1> QED
  BY <1>2, <1>3

\* What holds at 0, and at the next when it holds at one, holds up to n.
LEMMA Along ==
  ASSUME NEW n \in Nat, NEW T, 0 \in T, \A k \in 1 .. n : k - 1 \in T => k \in T
  PROVE  \A k \in 0 .. n : k \in T
<1> DEFINE Out == {k \in 0 .. n : k \notin T}
<1>1. SUFFICES ASSUME Out # {} PROVE FALSE
  OBVIOUS
<1>2. PICK k \in Out : \A m \in Out : k <= m
  <2>1. Out \in SUBSET Nat
    OBVIOUS
  <2> HIDE DEF Out
  <2> QED
    BY <1>1, <2>1, SmallestNat
<1>3. k \in 0 .. n /\ k # 0
  BY <1>2
<1>4. k - 1 \in 0 .. n /\ k - 1 \notin Out /\ k \in 1 .. n
  BY <1>2, <1>3
<1> QED
  BY <1>2, <1>4

\* A function defined by recursion on 0 .. n exists.
Recursion(n, S, a, step) ==
  \E h \in [0 .. n -> S] : h[0] = a /\ \A k \in 1 .. n : h[k] = step[<<k, h[k - 1]>>]
LEMMA RecursionExists ==
  ASSUME NEW n \in Nat, NEW S, NEW a \in S, NEW step \in [(1 .. n) \X S -> S]
  PROVE  Recursion(n, S, a, step)
<1> DEFINE Upto(m, h) == h[0] = a /\ \A k \in 1 .. m : h[k] = step[<<k, h[k - 1]>>]
           T == {m \in 0 .. n : ~ \E h \in [0 .. m -> S] : Upto(m, h)}
<1>1. SUFFICES ASSUME T # {} PROVE FALSE
  <2>1. n \in 0 .. n
    OBVIOUS
  <2>2. n \notin T
    BY <1>1
  <2>3. \E h \in [0 .. n -> S] : Upto(n, h)
    BY <2>1, <2>2
  <2> QED
    BY <2>3 DEF Recursion
<1>2. PICK m \in T : \A j \in T : m <= j
  <2>1. T \in SUBSET Nat
    <3> HIDE DEF Upto
    <3> QED
      OBVIOUS
  <2> HIDE DEF T
  <2> QED
    BY <1>1, <2>1, SmallestNat
<1>3. m # 0
  <2>1. [k \in 0 .. 0 |-> a] \in [0 .. 0 -> S] /\ Upto(0, [k \in 0 .. 0 |-> a])
    OBVIOUS
  <2> QED
    BY <1>2, <2>1
<1>4. m - 1 \in 0 .. n /\ m - 1 \notin T /\ m \in 1 .. n
  BY <1>2, <1>3
<1>5. PICK h \in [0 .. m - 1 -> S] : Upto(m - 1, h)
  BY <1>4
<1> DEFINE last == step[<<m, h[m - 1]>>]
           g == [k \in 0 .. m |-> IF k < m THEN h[k] ELSE last]
<1>6. last \in S
  BY <1>4, <1>5
<1> HIDE DEF last
<1>7. g \in [0 .. m -> S]
  BY <1>4, <1>5, <1>6
<1>8. ASSUME NEW k \in 1 .. m PROVE g[k] = step[<<k, g[k - 1]>>]
  <2>1. CASE k = m
    <3>1. g[k] = last /\ g[k - 1] = h[m - 1]
      BY <2>1, <1>4
    <3> QED
      BY <2>1, <3>1 DEF last
  <2>2. CASE k # m
    <3>1. k \in 1 .. m - 1 /\ g[k] = h[k] /\ g[k - 1] = h[k - 1]
      BY <2>2, <1>4
    <3> QED
      BY <3>1, <1>5
  <2> QED
    BY <2>1, <2>2
<1>9. g[0] = a
  BY <1>4, <1>5
<1>10. Upto(m, g)
  <2> HIDE DEF g
  <2> QED
    BY <1>8, <1>9
<1> HIDE DEF Upto
<1> QED
  BY <1>2, <1>7, <1>10


-----------------------------------------------------------------------------
\* Bytes, and how far they are the same.

(* What a block's window and limits are.                                   *)
LEMMA Block ==
  ASSUME NEW w, NEW st, NEW iend, Ctx(w, st, iend)
  PROVE  /\ st \in Nat /\ iend \in Nat /\ EndOf(w) \in Nat
         /\ w.lowLimit \in Nat /\ w.dictLimit \in Nat
         /\ w.lowLimit <= w.dictLimit /\ w.dictLimit <= st /\ st < iend /\ iend <= EndOf(w)
         /\ w.base \in Int /\ w.dictBase \in Int /\ w.nextSrc \in Int
         /\ Len(stream) \in Nat /\ stream \in Seq(Byte)
         /\ MaxDist \in Nat /\ dictSize \in Nat
  BY Limits, Sizes DEF Ctx, IsWindow

(* A byte of the window is the stream's.                                   *)
LEMMA ByteHeld ==
  ASSUME NEW w, NEW st, NEW iend, Ctx(w, st, iend),
         NEW i \in Nat, w.lowLimit <= i, i < EndOf(w)
  PROVE  /\ ByteAt(mem, w, i) = stream[Pos(w, i) + 1]
         /\ Pos(w, i) \in 0 .. Len(stream) - 1
<1>1. /\ EndOf(w) \in Nat
      /\ w.lowLimit \in Nat
      /\ Len(stream) \in Nat
  BY Block
<1>2. HeldAt(mem, w, stream, i)
  <2>1. i \in w.lowLimit .. EndOf(w) - 1
    BY <1>1
  <2> QED
    BY <2>1 DEF Ctx, Holds
<1>3. /\ EndOf(w) - i <= Len(stream)
      /\ Place(w, i) \in Area
      /\ mem[Place(w, i)] = stream[Pos(w, i) + 1]
  BY <1>2 DEF HeldAt, Pos
<1>4. ByteAt(mem, w, i) = mem[Place(w, i)]
  BY <1>3 DEF ByteAt, Place
<1> QED
  BY <1>1, <1>3, <1>4 DEF Pos

(* Whatever is hashed, its place is in the table.                          *)
LEMMA HashPlace ==
  ASSUME NEW m \in [Area -> Byte], NEW w, NEW i
  PROVE  Short(m, w, i) \in 0 .. HashSize - 1 /\ Long(m, w, i) \in 0 .. HashSize - 1
<1>1. \A k : ByteAt(m, w, k) \in Byte \cup {-1}
  BY DEF ByteAt
<1>2. \A n : BytesAt(m, w, i, n) \in [1 .. n -> Byte \cup {-1}]
  BY <1>1 DEF BytesAt
<1>3. SearchLength \in Nat /\ 8 \in Nat
  BY SizesAssumption
<1> QED
  BY <1>2, <1>3, HashAssumption DEF Short, Long

(* ZSTD1_count: it stops where bytes differ or at the block's end.         *)
IsCount(w, i, j, iend, n) ==
  /\ n \in 0 .. iend - i
  /\ \A x \in 0 .. n - 1 : ByteAt(mem, w, i + x) = ByteAt(mem, w, j + x)
  /\ n = iend - i \/ ByteAt(mem, w, i + n) # ByteAt(mem, w, j + n)
  /\ \A k \in 0 .. iend - i : Same(mem, w, j, i, k) => k <= n
LEMMA Counted ==
  ASSUME NEW w, NEW i \in Nat, NEW j, NEW iend \in Nat, i <= iend
  PROVE  IsCount(w, i, j, iend, Count(mem, w, i, j, iend))
<1> DEFINE Stop(n) == n = iend - i \/ ByteAt(mem, w, i + n) # ByteAt(mem, w, j + n)
           stops == {n \in 0 .. iend - i : Stop(n)}
           c == Count(mem, w, i, j, iend)
<1>1. c = CHOOSE n \in stops : \A k \in stops : n <= k
  BY DEF Count
<1>2. stops # {} /\ stops \in SUBSET Nat
  <2>1. iend - i \in 0 .. iend - i
    OBVIOUS
  <2>2. iend - i \in stops
    BY <2>1
  <2>3. stops \in SUBSET Nat
    <3> HIDE DEF Stop
    <3> QED
      OBVIOUS
  <2> QED
    BY <2>2, <2>3
<1>3. c \in stops /\ \A k \in stops : c <= k
  <2> HIDE DEF stops, c
  <2>1. \E n \in stops : \A k \in stops : n <= k
    BY <1>2, SmallestNat
  <2> QED
    BY <1>1, <2>1
<1> HIDE DEF c
<1>4. c \in 0 .. iend - i /\ Stop(c)
  BY <1>3
<1>5. ASSUME NEW x \in 0 .. c - 1 PROVE ByteAt(mem, w, i + x) = ByteAt(mem, w, j + x)
  <2>1. x \in 0 .. iend - i /\ ~ (c <= x)
    BY <1>4
  <2>2. ~Stop(x)
    BY <1>3, <2>1
  <2> QED
    BY <2>2
<1>6. ASSUME NEW k \in 0 .. iend - i, Same(mem, w, j, i, k) PROVE k <= c
  <2>1. SUFFICES ASSUME c < k PROVE FALSE
    BY <1>4
  <2>2. c \in 0 .. k - 1 /\ c # iend - i
    BY <1>4, <2>1
  <2>3. ByteAt(mem, w, j + c) = ByteAt(mem, w, i + c)
    BY <1>6, <2>2 DEF Same
  <2> QED
    BY <1>4, <2>2, <2>3
<1> QED
  BY <1>4, <1>5, <1>6 DEF c, IsCount

(* A match is extended to the left over bytes that are the same, not below *)
(* the segment nor over what is encoded.                                   *)
IsBack(w, i, j, anchor, n) ==
  /\ n \in Nat
  /\ n <= i - anchor
  /\ n <= j - w.lowLimit
  /\ \A k \in 1 .. n : ByteAt(mem, w, i - k) = ByteAt(mem, w, j - k)
LEMMA Extended ==
  ASSUME NEW w, NEW i \in Nat, NEW j \in Nat, NEW anchor \in Nat, anchor <= i,
         w.lowLimit \in Nat, w.dictLimit \in Nat, w.lowLimit <= w.dictLimit, w.lowLimit <= j
  PROVE  IsBack(w, i, j, anchor, Back(mem, w, i, j, anchor))
<1> DEFINE low == IF j < w.dictLimit THEN w.lowLimit ELSE w.dictLimit
           most == Smaller(i - anchor, j - low)
           Fit(n) == \A k \in 1 .. n : ByteAt(mem, w, i - k) = ByteAt(mem, w, j - k)
           fits == {n \in 0 .. most : Fit(n)}
           b == Back(mem, w, i, j, anchor)
<1>1. b = CHOOSE n \in fits : \A k \in fits : k <= n
  BY DEF Back
<1>2. most \in Nat /\ most <= i - anchor /\ most <= j - w.lowLimit
  BY DEF Smaller
<1> HIDE DEF most
<1>3. 0 \in fits /\ fits \subseteq 0 .. most
  BY <1>2
<1> HIDE DEF Fit
<1>4. \E n \in fits : \A k \in fits : k <= n
  <2> DEFINE T == {most - n : n \in fits}
  <2> HIDE DEF fits
  <2>1. T \in SUBSET Nat /\ T # {}
    BY <1>2, <1>3
  <2>2. PICK d \in T : \A e \in T : d <= e
    <3> HIDE DEF T
    <3> QED
      BY <2>1, SmallestNat
  <2>3. PICK n \in fits : d = most - n
    BY <2>2
  <2>4. ASSUME NEW k \in fits PROVE k <= n
    <3>1. d <= most - k
      BY <2>2
    <3> QED
      BY <1>2, <1>3, <2>3, <3>1
  <2> QED
    BY <2>4
<1>5. b \in fits
  <2> HIDE DEF b, fits
  <2> QED
    BY <1>1, <1>4
<1>6. b \in 0 .. most /\ Fit(b)
  <2> HIDE DEF b
  <2> QED
    BY <1>5
<1> HIDE DEF b
<1> QED
  BY <1>2, <1>6 DEF b, Fit, IsBack

-----------------------------------------------------------------------------
\* A decoder.

\* ml bytes of stream s behind at are a copy of those off before.
Copied(s, keep, at, off, ml) ==
  /\ off \in 1 .. at /\ at + ml <= Len(s)
  /\ off <= MaxDist \/ keep
  /\ \A x \in 1 .. ml : s[at + x] = s[at + x - off]

Resolved(q, r) == IF q.off # 0 THEN q.off ELSE IF q.ll > 0 THEN r[1] ELSE r[2]
Turned(q, r) ==
  IF q.off # 0 THEN <<q.off, r[1], r[2]>> ELSE IF q.ll > 0 THEN r ELSE <<r[2], r[1], r[3]>>

\* What a decoder is at: how far in the stream, and its repeat offsets.
Progress == [at : Nat, rep : Nat \X Nat \X Nat]
Executes(s, keep, q, a, b) ==
  /\ Copied(s, keep, a.at + q.ll, Resolved(q, a.rep), q.ml)
  /\ b = [at |-> a.at + q.ll + q.ml, rep |-> Turned(q, a.rep)]
\* The sequences take it from a to b.
Path(s, keep, seqs, a, b) ==
  \E T \in [0 .. Len(seqs) -> Progress] :
    /\ T[0] = a /\ T[Len(seqs)] = b
    /\ \A k \in 1 .. Len(seqs) : Executes(s, keep, seqs[k], T[k - 1], T[k])

(* The numbers of a sequence and of a decoder.                             *)
LEMMA Numbers ==
  /\ \A q \in Sequence : q.ll \in Nat /\ q.ml \in Nat /\ q.off \in Nat
  /\ \A a \in Progress : a.at \in Nat
  BY DEF Sequence, Progress

\* An element of a sequence.
LEMMA Member ==
  ASSUME NEW S, NEW s \in Seq(S), NEW k \in 1 .. Len(s)
  PROVE  s[k] \in S
  OBVIOUS

\* No sequences take a decoder nowhere.
LEMMA PathEmpty ==
  ASSUME NEW s, NEW keep, NEW a \in Progress
  PROVE  Path(s, keep, <<>>, a, a)
<1> DEFINE T == [k \in 0 .. 0 |-> a]
<1>1. T \in [0 .. Len(<<>>) -> Progress] /\ T[0] = a /\ Len(<<>>) = 0
  OBVIOUS
<1> HIDE DEF T
<1> QED
  BY <1>1 DEF Path

\* One more sequence makes the path longer by what it executes.
LEMMA PathLonger ==
  ASSUME NEW s, NEW keep, NEW seqs \in Seq(Sequence), NEW a, NEW b, Path(s, keep, seqs, a, b),
         NEW q \in Sequence, NEW c \in Progress, Executes(s, keep, q, b, c)
  PROVE  Path(s, keep, Append(seqs, q), a, c)
<1> DEFINE n == Len(seqs)
           longer == Append(seqs, q)
<1>1. PICK T \in [0 .. n -> Progress] :
        /\ T[0] = a /\ T[n] = b
        /\ \A k \in 1 .. n : Executes(s, keep, seqs[k], T[k - 1], T[k])
  BY DEF Path
<1>2. n \in Nat /\ Len(longer) = n + 1 /\ longer[n + 1] = q
      /\ \A k \in 1 .. n : longer[k] = seqs[k]
  OBVIOUS
<1> HIDE DEF longer, n
<1> DEFINE U == [k \in 0 .. n + 1 |-> IF k = n + 1 THEN c ELSE T[k]]
<1>3. U \in [0 .. n + 1 -> Progress] /\ U[n + 1] = c /\ \A k \in 0 .. n : U[k] = T[k]
  BY <1>1, <1>2
<1> HIDE DEF U
<1>4. ASSUME NEW k \in 1 .. n + 1 PROVE Executes(s, keep, longer[k], U[k - 1], U[k])
  <2>1. CASE k = n + 1
    <3>1. U[k - 1] = b /\ U[k] = c /\ longer[k] = q
      BY <1>1, <1>2, <1>3, <2>1
    <3> QED
      BY <3>1
  <2>2. CASE k # n + 1
    <3>1. k \in 1 .. n /\ k - 1 \in 0 .. n /\ k \in 0 .. n
      BY <1>2, <2>2
    <3>2. U[k - 1] = T[k - 1] /\ U[k] = T[k] /\ longer[k] = seqs[k]
      BY <1>2, <1>3, <3>1
    <3> QED
      BY <1>1, <3>1, <3>2
  <2> QED
    BY <2>1, <2>2
<1>5. U[0] = a
  BY <1>1, <1>2, <1>3
<1> QED
  BY <1>2, <1>3, <1>4, <1>5 DEF Path, longer

(* A stream that goes on is decoded the same so far.                       *)
LEMMA PathStays ==
  ASSUME NEW s \in Seq(Byte), NEW data \in Seq(Byte), NEW keep, NEW seqs \in Seq(Sequence),
         NEW a, NEW b, Path(s, keep, seqs, a, b)
  PROVE  Path(s \o data, keep, seqs, a, b)
<1> DEFINE n == Len(seqs)
           t == s \o data
<1>1. PICK T \in [0 .. n -> Progress] :
        /\ T[0] = a /\ T[n] = b
        /\ \A k \in 1 .. n : Executes(s, keep, seqs[k], T[k - 1], T[k])
  BY DEF Path
<1>2. n \in Nat /\ Len(s) \in Nat /\ Len(t) >= Len(s) /\ Len(t) \in Nat /\ \A x \in 1 .. Len(s) : t[x] = s[x]
  OBVIOUS
<1> HIDE DEF t
<1>3. ASSUME NEW at \in Nat, NEW off, NEW ml \in Nat, Copied(s, keep, at, off, ml)
      PROVE  Copied(t, keep, at, off, ml)
  <2>1. off \in 1 .. at /\ at + ml <= Len(s)
    BY <1>3 DEF Copied
  <2>2. ASSUME NEW x \in 1 .. ml PROVE t[at + x] = t[at + x - off]
    <3>1. at + x \in 1 .. Len(s) /\ at + x - off \in 1 .. Len(s)
      BY <1>2, <2>1
    <3>2. s[at + x] = s[at + x - off]
      BY <1>3 DEF Copied
    <3> QED
      BY <1>2, <3>1, <3>2
  <2> QED
    BY <1>2, <1>3, <2>1, <2>2 DEF Copied
<1>4. ASSUME NEW k \in 1 .. n PROVE Executes(t, keep, seqs[k], T[k - 1], T[k])
  <2>1. Executes(s, keep, seqs[k], T[k - 1], T[k])
    BY <1>1
  <2>2. seqs[k] \in Sequence /\ T[k - 1] \in Progress
    <3>1. k \in 1 .. Len(seqs) /\ k - 1 \in 0 .. n
      BY <1>2
    <3> QED
      BY <3>1, Member
  <2>3. T[k - 1].at + seqs[k].ll \in Nat /\ seqs[k].ml \in Nat
    BY <2>2, Numbers
  <2> QED
    BY <1>3, <2>1, <2>3 DEF Executes
<1> HIDE DEF n
<1> QED
  BY <1>1, <1>4 DEF Path, t, n

(* Remainders come back after as many as they are of.                      *)
LEMMA Remainder ==
  ASSUME NEW d \in Nat, d > 0, NEW x \in Nat
  PROVE  /\ x % d \in 0 .. d - 1
         /\ x < d => x % d = x
         /\ x >= d => x % d = (x - d) % d
<1>1. x % d \in 0 .. d - 1
  BY SMTT(20)
<1>2. ASSUME x < d PROVE x % d = x
  BY <1>2, SMTT(20)
<1>3. ASSUME x >= d PROVE x % d = (x - d) % d
  <2> DEFINE q == x \div d
             r == x % d
             q2 == (x - d) \div d
             r2 == (x - d) % d
  <2>1. q \in Int /\ r \in 0 .. d - 1 /\ x = d * q + r
    BY SMTT(20)
  <2>2. q2 \in Int /\ r2 \in 0 .. d - 1 /\ x - d = d * q2 + r2
    BY <1>3, SMTT(20)
  <2> HIDE DEF q, r, q2, r2
  <2> DEFINE k == q - q2 - 1
  <2>3. d * k = r2 - r
    BY <2>1, <2>2, SMTT(20)
  <2>4. k \in Int
    BY <2>1, <2>2
  <2> HIDE DEF k
  <2>5. k = 0
    <3>1. CASE k >= 1
      <4>1. d * k >= d
        BY <2>4, <3>1, SMTT(20)
      <4> QED
        BY <2>1, <2>2, <2>3, <4>1
    <3>2. CASE k <= -1
      <4>1. d * k <= -d
        BY <2>4, <3>2, SMTT(20)
      <4> QED
        BY <2>1, <2>2, <2>3, <4>1
    <3> QED
      BY <2>4, <3>1, <3>2
  <2>6. r = r2
    BY <2>1, <2>2, <2>3, <2>5
  <2> QED
    BY <2>6 DEF r, r2
<1> QED
  BY <1>1, <1>2, <1>3

(* A match that overlaps what it makes repeats the bytes before it.        *)
Repeats(s, at, off, ml) == \A x \in 1 .. ml : s[at + x] = s[at - off + 1 + ((x - 1) % off)]
LEMMA Periodic ==
  ASSUME NEW s, NEW keep, NEW at \in Nat, NEW off \in Nat, NEW ml \in Nat,
         Copied(s, keep, at, off, ml)
  PROVE  Repeats(s, at, off, ml)
<1>0. off \in 1 .. at /\ \A x \in 1 .. ml : s[at + x] = s[at + x - off]
  BY DEF Copied
<1> DEFINE Source(x) == at - off + 1 + ((x - 1) % off)
           Odd == {x \in 1 .. ml : s[at + x] # s[Source(x)]}
<1>1. SUFFICES ASSUME Odd # {} PROVE FALSE
  BY DEF Repeats
<1>2. PICK x \in Odd : \A y \in Odd : x <= y
  <2>1. Odd \in SUBSET Nat
    <3> HIDE DEF Source
    <3> QED
      OBVIOUS
  <2> HIDE DEF Odd
  <2> QED
    BY <1>1, <2>1, SmallestNat
<1>3. x \in 1 .. ml /\ s[at + x] # s[Source(x)]
  BY <1>2
<1>4. s[at + x] = s[at + x - off]
  BY <1>0, <1>3
<1>5. CASE x <= off
  <2>1. (x - 1) % off = x - 1
    <3>1. x - 1 \in Nat /\ x - 1 < off /\ off \in Nat /\ off > 0
      BY <1>0, <1>3, <1>5
    <3> QED
      BY <3>1, Remainder
  <2>2. at - off + 1 + (x - 1) = at + x - off
    BY <1>3
  <2> QED
    BY <1>3, <1>4, <2>1, <2>2
<1>6. CASE x > off
  <2> DEFINE y == x - off
  <2>1. y \in 1 .. ml /\ y < x /\ at + y = at + x - off
    BY <1>0, <1>3, <1>6
  <2>2. Source(y) = Source(x)
    <3>1. x - 1 \in Nat /\ x - 1 >= off /\ off \in Nat /\ off > 0
      BY <1>0, <1>3, <1>6
    <3>2. (x - 1) % off = (x - 1 - off) % off
      BY <3>1, Remainder
    <3>3. x - 1 - off = y - 1
      BY <1>3
    <3> QED
      BY <3>2, <3>3
  <2> HIDE DEF y
  <2>3. y \notin Odd
    <3> HIDE DEF Odd
    <3>1. x \in Nat /\ y \in Nat
      BY <1>3, <2>1
    <3> QED
      BY <1>2, <2>1, <3>1
  <2> HIDE DEF Source
  <2>4. s[at + y] = s[Source(y)]
    BY <2>1, <2>3
  <2> QED
    BY <1>3, <1>4, <2>1, <2>2, <2>4
<1> QED
  BY <1>3, <1>5, <1>6

\* The stream up to from, and its literals up to at; and a match's bytes behind out.
UpTo(s, from, at) == SubSeq(s, 1, from) \o SubSeq(s, from + 1, at)
MatchOf(out, off, ml) == [j \in 1 .. ml |-> out[Len(out) - off + 1 + ((j - 1) % off)]]
Execution(s, keep, from, at, off, ml) ==
  LET out == UpTo(s, from, at)
  IN /\ Len(SubSeq(s, 1, from)) = from
     /\ Len(out) = at
     /\ off \in 1 .. at
     /\ off <= MaxDist \/ keep
     /\ out \o MatchOf(out, off, ml) = SubSeq(s, 1, at + ml)

(* ZSTD1_execSequence makes the next bytes of the stream.                  *)
LEMMA OneMore ==
  ASSUME NEW s \in Seq(Byte), NEW from \in Nat, NEW at \in Nat, from <= at,
         NEW ml \in Nat, NEW off \in Nat, NEW keep, Copied(s, keep, at, off, ml)
  PROVE  Execution(s, keep, from, at, off, ml)
<1> DEFINE end == at + ml
           out == SubSeq(s, 1, from) \o SubSeq(s, from + 1, at)
<1>1. /\ end \in Nat /\ Len(s) \in Nat
      /\ from <= at /\ at <= end
      /\ off \in 1 .. at /\ end <= Len(s)
      /\ off <= MaxDist \/ keep
      /\ \A x \in 1 .. ml : s[at + x] = s[at + x - off]
  BY DEF Copied
<1>2. out = SubSeq(s, 1, at)
  <2>1. /\ 1 \in 1 .. Len(s) + 1
        /\ from \in 1 - 1 .. Len(s)
        /\ at \in from .. Len(s)
    BY <1>1
  <2> QED
    BY <2>1, ConcatAdjacentSubSeq
<1> HIDE DEF out
<1>3. ASSUME NEW n \in 0 .. Len(s) PROVE Len(SubSeq(s, 1, n)) = n
  <2>1. \A i \in 1 .. n : s[i] \in Byte
    BY <1>1
  <2> QED
    BY <1>1, <2>1, SubSeqProperties
<1>4. Len(SubSeq(s, 1, from)) = from /\ Len(out) = at
  BY <1>1, <1>2, <1>3
<1>5. \A i \in 1 .. at : out[i] = s[i]
  <2>1. \A i \in 1 .. at : s[i] \in Byte
    BY <1>1
  <2>2. \A i \in 1 .. at - 1 + 1 : SubSeq(s, 1, at)[i] = s[1 + i - 1]
    BY <1>1, <2>1, SubSeqProperties
  <2> QED
    BY <1>1, <1>2, <2>2
<1>8. \A x \in 1 .. ml : s[at + x] = s[at - off + 1 + ((x - 1) % off)]
  <2>1. Repeats(s, at, off, ml)
    BY Periodic
  <2> QED
    BY <2>1 DEF Repeats
<1> DEFINE match == [j \in 1 .. ml |-> out[Len(out) - off + 1 + ((j - 1) % off)]]
<1>6. match = SubSeq(s, at + 1, end)
  <2> DEFINE copy == SubSeq(s, at + 1, end)
  <2>1. /\ copy \in Seq(Byte) /\ Len(copy) = ml
        /\ \A i \in 1 .. ml : copy[i] = s[at + i]
    <3>1. \A i \in at + 1 .. end : s[i] \in Byte
      BY <1>1
    <3>2. at + 1 \in Int /\ end \in Int
      BY <1>1
    <3> HIDE DEF end
    <3>3. /\ copy \in Seq(Byte)
          /\ Len(copy) = IF at + 1 <= end THEN end - (at + 1) + 1 ELSE 0
          /\ \A i \in 1 .. end - (at + 1) + 1 : copy[i] = s[at + 1 + i - 1]
      BY <3>1, <3>2, SubSeqProperties
    <3> HIDE DEF copy
    <3> QED
      BY <1>1, <3>3 DEF end
  <2>2. copy \in [1 .. ml -> Byte]
    <3> HIDE DEF copy
    <3> QED
      BY <2>1, LenProperties
  <2>3. ASSUME NEW j \in 1 .. ml PROVE out[Len(out) - off + 1 + ((j - 1) % off)] = copy[j]
    <3>1. (j - 1) % off \in 0 .. off - 1
      <4>1. j - 1 \in Nat /\ off \in Nat /\ off > 0
        BY <1>1
      <4> QED
        BY <4>1, Remainder
    <3>2. at - off + 1 + ((j - 1) % off) \in 1 .. at
      <4> DEFINE r == (j - 1) % off
      <4> HIDE DEF r
      <4>1. r \in 0 .. off - 1
        BY <3>1 DEF r
      <4>2. at - off + 1 + r \in 1 .. at
        BY <1>1, <4>1
      <4> QED
        BY <4>2 DEF r
    <3>3. s[at + j] = s[at - off + 1 + ((j - 1) % off)]
      BY <1>8, Zenon
    <3> HIDE DEF copy
    <3> QED
      BY <1>4, <1>5, <2>1, <3>2, <3>3
  <2> HIDE DEF copy
  <2> QED
    BY <2>2, <2>3 DEF copy
<1>7. out \o match = SubSeq(s, 1, end)
  <2>1. /\ 1 \in 1 .. Len(s) + 1
        /\ at \in 1 - 1 .. Len(s)
        /\ end \in at .. Len(s)
    BY <1>1
  <2> HIDE DEF end, match
  <2>2. SubSeq(s, 1, at) \o SubSeq(s, at + 1, end) = SubSeq(s, 1, end)
    BY <2>1, ConcatAdjacentSubSeq
  <2> QED
    BY <1>2, <1>6, <2>2
<1> QED
  BY <1>1, <1>4, <1>7 DEF out, UpTo, MatchOf, Execution

(* ZSTD1_decodeSequence and ZSTD1_execSequence, one after the other, make  *)
(* the stream as far as the sequences' path leads.                         *)
LEMMA Made ==
  ASSUME stream \in Seq(Byte), NEW b, b.seqs \in Seq(Sequence),
         b.start \in Nat, b.start <= Len(stream), NEW e, NEW keep,
         keep <=> ~forced /\ b.end - dictSize <= MaxDist,
         Path(stream, keep, b.seqs, [at |-> b.start, rep |-> b.decRep], e)
  PROVE  /\ Decoded(b) = [out |-> SubSeq(stream, 1, e.at), rep |-> e.rep, ok |-> TRUE]
         /\ e.at \in Nat /\ e.at <= Len(stream)
<1> DEFINE n == Len(b.seqs)
           DictKept == ~forced /\ b.end - dictSize <= MaxDist
           One(k, p) ==
             LET s == b.seqs[k]
                 r == p.rep
                 out == p.out \o SubSeq(stream, Len(p.out) + 1, Len(p.out) + s.ll)
                 off == IF s.off # 0 THEN s.off ELSE IF s.ll > 0 THEN r[1] ELSE r[2]
                 ok == off \in 1 .. Len(out) /\ (off <= MaxDist \/ DictKept)
             IN IF ~p.ok \/ ~ok THEN [p EXCEPT !.ok = FALSE]
                ELSE [ok |-> TRUE,
                      out |-> out \o [j \in 1 .. s.ml |->
                                        out[Len(out) - off + 1 + ((j - 1) % off)]],
                      rep |-> IF s.off # 0 THEN <<off, r[1], r[2]>>
                              ELSE IF s.ll > 0 THEN r ELSE <<r[2], r[1], r[3]>>]
           start == [out |-> SubSeq(stream, 1, b.start), rep |-> b.decRep, ok |-> TRUE]
           After[k \in 0 .. n] == IF k = 0 THEN start ELSE One(k, After[k - 1])
<1>1. Decoded(b) = After[n]
  BY DEF Decoded
<1>2. PICK T \in [0 .. n -> Progress] :
        /\ T[0] = [at |-> b.start, rep |-> b.decRep] /\ T[n] = e
        /\ \A k \in 1 .. n : Executes(stream, keep, b.seqs[k], T[k - 1], T[k])
  BY DEF Path
<1>3. n \in Nat
  OBVIOUS
<1> DEFINE Is(k) == [out |-> SubSeq(stream, 1, T[k].at), rep |-> T[k].rep, ok |-> TRUE]
<1>4. Is(0) = start
  BY <1>2
<1> HIDE DEF start
<1>5. ASSUME NEW k \in 1 .. n
      PROVE  Is(k) = One(k, Is(k - 1)) /\ T[k].at <= Len(stream)
  <2> DEFINE q == b.seqs[k]
             a == T[k - 1]
             r == a.rep
             from == a.at
             at == from + q.ll
             off == Resolved(q, r)
             out == UpTo(stream, from, at)
             match == MatchOf(out, off, q.ml)
  <2>1. k - 1 \in 0 .. n /\ k \in 1 .. Len(b.seqs)
    BY <1>3
  <2>2. q \in Sequence /\ a \in Progress
    BY <1>2, <2>1, Member
  <2>3. from \in Nat /\ at \in Nat /\ from <= at /\ q.ml \in Nat /\ q.ll \in Nat
    <3> HIDE DEF q, a
    <3> QED
      BY <2>2, Numbers
  <2>4. /\ Copied(stream, keep, at, off, q.ml)
        /\ T[k] = [at |-> at + q.ml, rep |-> Turned(q, r)]
    BY <1>2 DEF Executes
  <2>5. off \in Nat /\ at + q.ml <= Len(stream)
    <3> HIDE DEF at, off
    <3> QED
      BY <2>3, <2>4 DEF Copied
  <2> HIDE DEF q, a, at, off
  <2>6. /\ Len(SubSeq(stream, 1, from)) = from
        /\ Len(out) = at
        /\ off \in 1 .. at
        /\ off <= MaxDist \/ keep
        /\ out \o match = SubSeq(stream, 1, at + q.ml)
    <3>1. /\ from \in Nat /\ at \in Nat /\ from <= at /\ q.ml \in Nat /\ off \in Nat
          /\ stream \in Seq(Byte) /\ Copied(stream, keep, at, off, q.ml)
      BY <2>3, <2>4, <2>5
    <3> HIDE DEF from
    <3>2. Execution(stream, keep, from, at, off, q.ml)
      BY <3>1, OneMore
    <3> QED
      BY <3>2 DEF Execution
  <2> QED
    <3> HIDE DEF from, r, out, match
    <3>1. Is(k) = [out |-> out \o match, rep |-> Turned(q, r), ok |-> TRUE]
      BY <2>4, <2>6
    <3>2. One(k, Is(k - 1)) = [out |-> out \o match, rep |-> Turned(q, r), ok |-> TRUE]
      <4> DEFINE p == Is(k - 1)
                 o == p.out \o SubSeq(stream, Len(p.out) + 1, Len(p.out) + q.ll)
                 f == IF q.off # 0 THEN q.off ELSE IF q.ll > 0 THEN p.rep[1] ELSE p.rep[2]
                 ok == f \in 1 .. Len(o) /\ (f <= MaxDist \/ DictKept)
                 copy == [j \in 1 .. q.ml |-> o[Len(o) - f + 1 + ((j - 1) % f)]]
                 turned == IF q.off # 0 THEN <<f, p.rep[1], p.rep[2]>>
                           ELSE IF q.ll > 0 THEN p.rep ELSE <<p.rep[2], p.rep[1], p.rep[3]>>
      <4>1. p.out = SubSeq(stream, 1, from) /\ p.rep = r /\ p.ok = TRUE
        BY DEF from, r, a
      <4>2. Len(p.out) = from
        BY <2>6, <4>1
      <4>3. One(k, p) = IF ~p.ok \/ ~ok THEN [p EXCEPT !.ok = FALSE]
                        ELSE [ok |-> TRUE, out |-> o \o copy, rep |-> turned]
        BY DEF q
      <4> HIDE DEF One, Is, p
      <4>4. o = out
        BY <4>1, <4>2 DEF out, UpTo, at
      <4>5. f = off /\ turned = Turned(q, r)
        BY <4>1 DEF off, Resolved, Turned
      <4>6. copy = match
        <5> HIDE DEF o, f
        <5> QED
          BY <4>4, <4>5 DEF match, MatchOf
      <4> HIDE DEF o, f, copy, turned
      <4>7. ok
        BY <2>6, <4>4, <4>5
      <4> HIDE DEF ok
      <4>8. One(k, p) = [ok |-> TRUE, out |-> out \o match, rep |-> Turned(q, r)]
        BY <4>1, <4>3, <4>4, <4>5, <4>6, <4>7
      <4> QED
        BY <4>8 DEF p
    <3>3. T[k].at = at + q.ml
      BY <2>4
    <3> HIDE DEF Is, One
    <3> QED
      BY <2>5, <3>1, <3>2, <3>3
<1> HIDE DEF One, Is
<1>6. After = [k \in 0 .. n |-> IF k = 0 THEN start ELSE One(k, After[k - 1])]
  <2> DEFINE h == [k \in 0 .. n |-> Is(k)]
  <2>1. h = [k \in 0 .. n |-> IF k = 0 THEN start ELSE One(k, h[k - 1])]
    <3>1. ASSUME NEW k \in 0 .. n PROVE Is(k) = IF k = 0 THEN start ELSE One(k, h[k - 1])
      <4>1. CASE k = 0
        BY <1>4, <4>1
      <4>2. CASE k # 0
        <5>1. k \in 1 .. n /\ k - 1 \in 0 .. n
          BY <1>3, <4>2
        <5>2. h[k - 1] = Is(k - 1)
          BY <5>1
        <5> QED
          BY <1>5, <4>2, <5>1, <5>2
      <4> QED
        BY <4>1, <4>2
    <3> QED
      BY <3>1
  <2> HIDE DEF h
  <2> QED
    BY <2>1
<1> HIDE DEF After
<1>7. \A k \in 0 .. n : After[k] = Is(k)
  <2> DEFINE Z == {k \in 0 .. n : After[k] = Is(k)}
  <2>1. 0 \in Z
    BY <1>3, <1>4, <1>6
  <2>2. ASSUME NEW k \in 1 .. n, k - 1 \in Z PROVE k \in Z
    <3>1. After[k] = One(k, After[k - 1])
      <4>1. k \in 0 .. n /\ k # 0
        BY <1>3
      <4> QED
        BY <1>6, <4>1
    <3> QED
      BY <1>5, <2>2, <3>1
  <2> HIDE DEF Z
  <2>3. \A k \in 0 .. n : k \in Z
    BY <1>3, <2>1, <2>2, Along
  <2> QED
    BY <2>3 DEF Z
<1>8. e \in Progress /\ e.at <= Len(stream)
  <2>1. e \in Progress
    BY <1>2, <1>3
  <2>2. CASE n = 0
    BY <1>2, <2>2
  <2>3. CASE n # 0
    <3>1. n \in 1 .. n
      BY <1>3, <2>3
    <3> QED
      BY <1>2, <1>5, <3>1
  <2> QED
    BY <2>1, <2>2, <2>3
<1>9. After[n] = Is(n) /\ n \in 0 .. n
  BY <1>3, <1>7
<1> QED
  BY <1>1, <1>2, <1>8, <1>9, Numbers DEF Is

-----------------------------------------------------------------------------
\* The steps of a search.

(* A position noted in the tables.                                         *)
LEMMA NotedFields ==
  ASSUME mem \in [Area -> Byte], NEW w, NEW s \in Found, NEW i \in Nat,
         NEW dfast \in BOOLEAN
  PROVE  LET t == Noted(s, mem, w, i, dfast)
         IN /\ t \in Found
            /\ t.ip = s.ip /\ t.anchor = s.anchor /\ t.o1 = s.o1 /\ t.o2 = s.o2
            /\ t.seqs = s.seqs /\ t.wild = s.wild /\ t.immediate = s.immediate
            /\ \A h \in 0 .. HashSize - 1 :
                 t.hash[h] \in {s.hash[h], i} /\ t.chain[h] \in {s.chain[h], i}
<1> DEFINE l == Long(mem, w, i)
           k == Short(mem, w, i)
<1>1. l \in 0 .. HashSize - 1 /\ k \in 0 .. HashSize - 1
  BY HashPlace
<1>2. s.hash \in Table /\ s.chain \in Table
  BY DEF Found
<1>3. \A t \in Table, x \in 0 .. HashSize - 1 :
        /\ [t EXCEPT ![x] = i] \in Table
        /\ \A h \in 0 .. HashSize - 1 : [t EXCEPT ![x] = i][h] \in {t[h], i}
  BY DEF Table
<1>4. CASE dfast
  <2>1. Noted(s, mem, w, i, dfast) =
          [s EXCEPT !.hash = [s.hash EXCEPT ![l] = i], !.chain = [s.chain EXCEPT ![k] = i]]
    BY <1>4 DEF Noted
  <2> HIDE DEF l, k
  <2> DEFINE hash == [s.hash EXCEPT ![l] = i]
             chain == [s.chain EXCEPT ![k] = i]
  <2>2. /\ hash \in Table /\ chain \in Table
        /\ \A h \in 0 .. HashSize - 1 : hash[h] \in {s.hash[h], i} /\ chain[h] \in {s.chain[h], i}
    BY <1>1, <1>2, <1>3
  <2> HIDE DEF hash, chain
  <2> DEFINE t == Noted(s, mem, w, i, dfast)
  <2>3. t = [s EXCEPT !.hash = hash, !.chain = chain]
    BY <2>1 DEF hash, chain
  <2> HIDE DEF t
  <2>4. /\ t \in Found /\ t.hash = hash /\ t.chain = chain
        /\ t.ip = s.ip /\ t.anchor = s.anchor /\ t.o1 = s.o1 /\ t.o2 = s.o2
        /\ t.seqs = s.seqs /\ t.wild = s.wild /\ t.immediate = s.immediate
    BY <2>2, <2>3 DEF Found
  <2> QED
    BY <2>2, <2>4 DEF t
<1>5. CASE ~dfast
  <2>1. Noted(s, mem, w, i, dfast) = [s EXCEPT !.hash = [s.hash EXCEPT ![k] = i]]
    BY <1>5 DEF Noted
  <2> HIDE DEF l, k
  <2> DEFINE hash == [s.hash EXCEPT ![k] = i]
             t == Noted(s, mem, w, i, dfast)
  <2>2. hash \in Table /\ \A h \in 0 .. HashSize - 1 : hash[h] \in {s.hash[h], i}
    BY <1>1, <1>2, <1>3
  <2>3. t = [s EXCEPT !.hash = hash]
    BY <2>1
  <2> HIDE DEF hash, t
  <2>4. /\ t \in Found /\ t.hash = hash /\ t.chain = s.chain
        /\ t.ip = s.ip /\ t.anchor = s.anchor /\ t.o1 = s.o1 /\ t.o2 = s.o2
        /\ t.seqs = s.seqs /\ t.wild = s.wild /\ t.immediate = s.immediate
    BY <1>2, <2>2, <2>3 DEF Found
  <2> QED
    BY <2>2, <2>4 DEF t
<1> QED
  BY <1>4, <1>5

(* What is noted before ip and behind the dictionary segment, eight bytes  *)
(* from the end, may be in the tables.                                     *)
LEMMA NotedSpots ==
  ASSUME mem \in [Area -> Byte], NEW w, NEW s \in Found, NEW i \in Nat,
         NEW dfast \in BOOLEAN, NEW ip \in Nat, NEW iend \in Nat, w.dictLimit \in Nat,
         w.lowLimit \in Nat,
         Spots(w, s.hash, ip, iend), Spots(w, s.chain, ip, iend),
         w.dictLimit <= i, i < ip, i + 8 <= iend
  PROVE  LET t == Noted(s, mem, w, i, dfast)
         IN Spots(w, t.hash, ip, iend) /\ Spots(w, t.chain, ip, iend)
<1> DEFINE t == Noted(s, mem, w, i, dfast)
<1>1. \A h \in 0 .. HashSize - 1 : t.hash[h] \in {s.hash[h], i} /\ t.chain[h] \in {s.chain[h], i}
  BY NotedFields
<1>2. Spot(w, i, ip, iend)
  BY DEF Spot
<1> HIDE DEF t
<1>3. Spots(w, t.hash, ip, iend) /\ Spots(w, t.chain, ip, iend)
  BY <1>1, <1>2 DEF Spots
<1> QED
  BY <1>3 DEF t

(* Spots stay when the search goes on.                                     *)
LEMMA SpotsLater ==
  ASSUME NEW w, NEW table \in Table, NEW ip \in Nat, NEW later \in Nat, ip <= later, NEW iend \in Nat,
         w.lowLimit \in Nat, w.dictLimit \in Nat, Spots(w, table, ip, iend)
  PROVE  Spots(w, table, later, iend)
<1>1. \A h \in 0 .. HashSize - 1 : table[h] \in Nat
  BY DEF Table
<1> QED
  BY <1>1 DEF Spots, Spot

\* What a repeat offset may be while the search is at ip, the bytes before anchor encoded.
Within(o) == o <= MaxDist \/ (dictSize > 0 /\ ~forced)
Offset(w, o, ip, anchor) ==
  /\ IF HasExtDict(w) THEN o > 0 ELSE o = 0 \/ ip - o >= w.dictLimit
  /\ o <= Larger(anchor, 4)
  /\ Within(o)

(* A repeat offset that may be used leads to four bytes of one segment.    *)
LEMMA RepHeld ==
  ASSUME NEW w, NEW st, NEW iend, Ctx(w, st, iend),
         NEW o \in Nat, NEW ip \in Nat, NEW anchor \in Nat, Offset(w, o, ip, anchor),
         st <= anchor, anchor <= ip, NEW k \in Nat, ip <= k, k + 4 <= iend, RepUsable(w, k, o)
  PROVE  /\ o >= 1 /\ k - o \in Nat /\ w.lowLimit <= k - o
         /\ Held(w, k - o, 4, iend)
<1>1. /\ st \in Nat /\ iend \in Nat
      /\ w.lowLimit \in Nat /\ w.dictLimit \in Nat
      /\ w.lowLimit <= w.dictLimit /\ w.dictLimit <= st /\ st < iend
      /\ HasExtDict(w) => st >= 4
  BY Block DEF Ctx
<1>2. o <= Larger(anchor, 4)
  BY DEF Offset
<1>3. CASE HasExtDict(w)
  <2>1. o > 0 /\ st >= 4
    BY <1>1, <1>3 DEF Offset
  <2>2. RepInSegment(w, k - o)
    BY <1>3 DEF RepUsable
  <2>3. o <= anchor
    BY <1>1, <1>2, <2>1 DEF Larger
  <2> DEFINE j == k - o
  <2>4. j \in Nat /\ o >= 1
    BY <2>1, <2>3
  <2>5. j \notin w.dictLimit - 3 .. w.dictLimit - 1 /\ j > w.lowLimit
    BY <2>2, <2>4 DEF RepInSegment
  <2> QED
    BY <1>1, <2>4, <2>5 DEF Held
<1>4. CASE ~HasExtDict(w)
  <2>1. o > 0
    BY <1>4 DEF RepUsable
  <2>2. ip - o >= w.dictLimit
    BY <1>4, <2>1 DEF Offset
  <2> QED
    BY <1>1, <2>1, <2>2 DEF Held
<1> QED
  BY <1>3, <1>4

(* An index from a table that may be used leads to as many bytes as are    *)
(* compared.                                                               *)
LEMMA EntryHeld ==
  ASSUME NEW w, NEW st, NEW iend, Ctx(w, st, iend),
         NEW j \in Nat, NEW ip \in Nat, st <= ip, Spot(w, j, ip, iend),
         NEW dfast, IndexUsable(w, j, dfast)
  PROVE  /\ w.lowLimit <= j /\ j < ip
         /\ Held(w, j, 4, iend) /\ Held(w, j, 8, iend)
<1>1. /\ st \in Nat /\ iend \in Nat
      /\ w.lowLimit \in Nat /\ w.dictLimit \in Nat
      /\ w.lowLimit <= w.dictLimit /\ w.dictLimit <= st /\ st < iend
  BY Block
<1>2. w.lowLimit <= j /\ (w.lowLimit < j \/ w.lowLimit < w.dictLimit)
  BY <1>1 DEF IndexUsable, HasExtDict
<1> QED
  BY <1>1, <1>2 DEF Spot, Held

(* Bytes that are those off before, in the window and so in the stream.    *)
LEMMA CopyFrom ==
  ASSUME NEW w, NEW st, NEW iend, Ctx(w, st, iend),
         NEW a \in Nat, NEW e \in Nat, a <= e, e <= iend,
         NEW off \in Nat, off >= 1, a - off \in Nat, w.lowLimit <= a - off,
         \A x \in a .. e - 1 : ByteAt(mem, w, x) = ByteAt(mem, w, x - off)
  PROVE  /\ Pos(w, a) \in Nat /\ Pos(w, e) = Pos(w, a) + (e - a)
         /\ Copied(stream, Kept(w, iend), Pos(w, a), off, e - a)
         /\ Within(off)
<1>1. /\ st \in Nat /\ iend \in Nat /\ EndOf(w) \in Nat /\ Len(stream) \in Nat
      /\ w.lowLimit \in Nat /\ iend <= EndOf(w) /\ MaxDist \in Nat /\ dictSize \in Nat
  BY Block
<1>2. Pos(w, a - off) \in Nat
  BY <1>1, ByteHeld
<1> DEFINE p == Pos(w, a)
<1>3. \A x \in Int : Pos(w, x) = p + (x - a)
  BY <1>1 DEF Pos
<1>4. p \in Nat /\ off <= p
  <2>1. p \in Int
    BY <1>1 DEF Pos
  <2> HIDE DEF p
  <2> QED
    BY <1>2, <1>3, <2>1
<1>5. Pos(w, e) = p + (e - a) /\ Pos(w, e) <= Pos(w, iend) /\ Pos(w, iend) <= Len(stream)
  BY <1>1 DEF Pos
<1> HIDE DEF p
<1>6. off <= MaxDist \/ Kept(w, iend)
  <2>1. iend - w.lowLimit <= MaxDist \/ Kept(w, iend)
    BY DEF Ctx
  <2> QED
    BY <1>1, <2>1
<1>7. Within(off)
  <2>1. CASE off <= MaxDist
    BY <2>1 DEF Within
  <2>2. CASE ~(off <= MaxDist)
    <3>1. ~forced /\ Pos(w, iend) - dictSize <= MaxDist
      BY <1>6, <2>2 DEF Kept
    <3>2. Pos(w, iend) \in Int
      BY <1>1 DEF Pos
    <3>3. dictSize > 0
      BY <1>1, <1>4, <1>5, <2>2, <3>1, <3>2
    <3> QED
      BY <3>1, <3>3 DEF Within
  <2> QED
    BY <2>1, <2>2
<1>8. ASSUME NEW x \in 1 .. e - a
      PROVE  stream[p + x] = stream[p + x - off]
  <2> DEFINE y == a + x - 1
  <2>1. y \in a .. e - 1 /\ y \in Nat /\ y - off \in Nat
        /\ w.lowLimit <= y /\ y < EndOf(w) /\ w.lowLimit <= y - off /\ y - off < EndOf(w)
    BY <1>1
  <2>2. Pos(w, y) + 1 = p + x /\ Pos(w, y - off) + 1 = p + x - off
    <3>1. Pos(w, y) = p + (y - a) /\ Pos(w, y - off) = p + (y - off - a)
      BY <1>3, <2>1
    <3> QED
      BY <1>4, <3>1
  <2>3. ByteAt(mem, w, y) = ByteAt(mem, w, y - off)
    BY <2>1
  <2> HIDE DEF y
  <2>4. ByteAt(mem, w, y) = stream[Pos(w, y) + 1]
    BY <2>1, ByteHeld
  <2>5. ByteAt(mem, w, y - off) = stream[Pos(w, y - off) + 1]
    BY <2>1, ByteHeld
  <2> QED
    BY <2>2, <2>3, <2>4, <2>5
<1>9. Copied(stream, Kept(w, iend), p, off, e - a)
  <2>1. off \in 1 .. p /\ p + (e - a) <= Len(stream)
    <3>1. Pos(w, iend) \in Int /\ Pos(w, e) \in Int
      BY <1>1 DEF Pos
    <3> QED
      BY <1>1, <1>4, <1>5, <3>1
  <2> QED
    BY <1>6, <1>8, <2>1 DEF Copied
<1> QED
  BY <1>4, <1>5, <1>7, <1>9 DEF p

-----------------------------------------------------------------------------
\* What a search has encoded.

Positive == Nat \ {0}
Triples == Positive \X Positive \X Positive
At(w, i, r) == [at |-> Pos(w, i), rep |-> r]
\* The sequences take a decoder from index st to anchor, and its repeat offsets to r.
Encoded(w, st, iend, seqs, anchor, r) ==
  r \in Triples /\ Path(stream, Kept(w, iend), seqs, At(w, st, decRep), At(w, anchor, r))

LEMMA TurnedTriples ==
  ASSUME NEW q \in Sequence, NEW r \in Triples
  PROVE  /\ Turned(q, r) \in Triples
         /\ r[1] \in Nat /\ r[2] \in Nat
         /\ q.off # 0 => Turned(q, r)[1] = q.off /\ Turned(q, r)[2] = r[1]
         /\ q.off = 0 /\ q.ll > 0 => Turned(q, r) = r
         /\ q.off = 0 /\ q.ll = 0 => Turned(q, r)[1] = r[2] /\ Turned(q, r)[2] = r[1]
<1>1. q.ll \in Nat /\ q.off \in Nat
  BY DEF Sequence
<1> QED
  BY <1>1 DEF Triples, Positive, Turned

(* One more sequence, of a match from a to e that is off behind what it    *)
(* is the same as.                                                         *)
LEMMA EncodedMore ==
  ASSUME NEW w, NEW st, NEW iend, Ctx(w, st, iend),
         NEW a \in Nat, NEW e \in Nat, a <= e, e <= iend,
         NEW off \in Nat, off >= 1, a - off \in Nat, w.lowLimit <= a - off,
         \A x \in a .. e - 1 : ByteAt(mem, w, x) = ByteAt(mem, w, x - off),
         NEW seqs \in Seq(Sequence), NEW anchor \in Nat, anchor <= a,
         NEW r, Encoded(w, st, iend, seqs, anchor, r),
         NEW q \in Sequence, q.ll = a - anchor, q.ml = e - a, off = Resolved(q, r)
  PROVE  /\ Encoded(w, st, iend, Append(seqs, q), e, Turned(q, r))
         /\ Within(off)
<1> DEFINE keep == Kept(w, iend)
           b == At(w, anchor, r)
           c == At(w, e, Turned(q, r))
<1>1. /\ Pos(w, a) \in Nat /\ Pos(w, e) = Pos(w, a) + (e - a)
      /\ Copied(stream, keep, Pos(w, a), off, e - a)
      /\ Within(off)
  BY CopyFrom
<1>2. r \in Triples /\ Path(stream, keep, seqs, At(w, st, decRep), b)
  BY DEF Encoded
<1>3. Pos(w, a) = Pos(w, anchor) + (a - anchor)
  <2>1. Len(stream) \in Nat /\ EndOf(w) \in Nat
    BY Block
  <2> QED
    BY <2>1 DEF Pos
<1>4. Turned(q, r) \in Triples
  BY <1>2, TurnedTriples
<1>5. c \in Progress
  <2>1. Pos(w, e) \in Nat
    BY <1>1
  <2> QED
    BY <1>4, <2>1 DEF At, Progress, Triples, Positive
<1>6. Executes(stream, keep, q, b, c)
  <2>1. b.at = Pos(w, anchor) /\ b.rep = r
    BY DEF At
  <2>2. b.at + q.ll = Pos(w, a) /\ b.at + q.ll + q.ml = Pos(w, e)
    BY <1>1, <1>3, <2>1
  <2>3. c = [at |-> Pos(w, e), rep |-> Turned(q, r)]
    BY DEF At
  <2> HIDE DEF b, c, keep
  <2> QED
    BY <1>1, <2>1, <2>2, <2>3 DEF Executes
<1> HIDE DEF b, c, keep
<1>7. Path(stream, keep, Append(seqs, q), At(w, st, decRep), c)
  BY <1>2, <1>5, <1>6, PathLonger
<1> QED
  BY <1>1, <1>4, <1>7 DEF Encoded, c, keep

(* A match of i at j, extended both ways, and the sequence it is stored    *)
(* as.                                                                     *)
LEMMA TakenKeeps ==
  ASSUME NEW w, NEW st, NEW iend, Ctx(w, st, iend), NEW s \in Found,
         NEW i \in Nat, st <= s.anchor, s.anchor <= i, i + 4 <= iend,
         NEW j \in Nat, w.lowLimit <= j, j < i, Same(mem, w, j, i, 4),
         NEW r, Encoded(w, st, iend, s.seqs, s.anchor, r)
  PROVE  LET t == Taken(s, mem, w, i, j, iend)
         IN /\ t \in Found
            /\ t.anchor = t.ip /\ t.ip >= i + 4 /\ t.ip <= iend
            /\ t.o1 = i - j /\ t.o2 = s.o1
            /\ t.hash = s.hash /\ t.chain = s.chain
            /\ t.wild = s.wild /\ t.immediate = s.immediate
            /\ \E u \in Triples : /\ Encoded(w, st, iend, t.seqs, t.anchor, u)
                                  /\ u[1] = i - j /\ u[2] = r[1]
            /\ Within(i - j)
<1> DEFINE anchor == s.anchor
           back == Back(mem, w, i, j, anchor)
           n == Count(mem, w, i, j, iend)
           a == i - back
           e == i + n
           off == i - j
           q == [ll |-> a - anchor, ml |-> n + back, off |-> off]
           seqs == Append(s.seqs, q)
           t == Taken(s, mem, w, i, j, iend)
<1>1. /\ st \in Nat /\ iend \in Nat
      /\ w.lowLimit \in Nat /\ w.dictLimit \in Nat /\ w.lowLimit <= w.dictLimit
  BY Block
<1>2. anchor \in Nat /\ s.seqs \in Seq(Sequence) /\ s.o1 \in Nat
  BY DEF Found
<1>3. t = [s EXCEPT !.ip = i - back + (n + back), !.anchor = i - back + (n + back),
                    !.o1 = off, !.o2 = s.o1, !.seqs = Append(s.seqs, q)]
  BY DEF Taken
<1> HIDE DEF anchor
<1>4. /\ back \in Nat /\ back <= i - anchor /\ back <= j - w.lowLimit
      /\ \A k \in 1 .. back : ByteAt(mem, w, i - k) = ByteAt(mem, w, j - k)
  <2>1. anchor <= i
    BY DEF anchor
  <2>2. IsBack(w, i, j, anchor, back)
    BY <1>1, <1>2, <2>1, Extended
  <2> HIDE DEF back
  <2> QED
    BY <2>2 DEF IsBack
<1>5. /\ n \in 0 .. iend - i /\ n >= 4
      /\ \A x \in 0 .. n - 1 : ByteAt(mem, w, i + x) = ByteAt(mem, w, j + x)
  <2>1. i <= iend /\ 4 \in 0 .. iend - i
    BY <1>1
  <2>2. IsCount(w, i, j, iend, n)
    BY <1>1, <2>1, Counted
  <2> HIDE DEF n
  <2> QED
    BY <2>1, <2>2 DEF IsCount
<1> HIDE DEF back, n
<1>6. /\ a \in Nat /\ e \in Nat /\ anchor <= a /\ a <= e /\ e <= iend /\ e >= i + 4
      /\ off \in Nat /\ off >= 1 /\ a - off \in Nat /\ w.lowLimit <= a - off
      /\ i - back + (n + back) = e /\ n + back = e - a
  BY <1>1, <1>2, <1>4, <1>5
<1>7. \A x \in a .. e - 1 : ByteAt(mem, w, x) = ByteAt(mem, w, x - off)
  <2> TAKE x \in a .. e - 1
  <2>1. CASE x < i
    <3> DEFINE k == i - x
    <3>1. k \in 1 .. back /\ i - k = x /\ j - k = x - off
      BY <1>4, <1>5, <2>1
    <3> HIDE DEF k
    <3> QED
      BY <1>4, <3>1
  <2>2. CASE x >= i
    <3> DEFINE k == x - i
    <3>1. k \in 0 .. n - 1 /\ i + k = x /\ j + k = x - off
      BY <1>4, <1>5, <2>2
    <3> HIDE DEF k
    <3> QED
      BY <1>5, <3>1
  <2> QED
    BY <1>4, <1>5, <2>1, <2>2
<1>8. /\ q \in Sequence /\ q.ll = a - anchor /\ q.ml = e - a /\ q.off = off
      /\ Resolved(q, r) = off
  <2>1. a - anchor \in Nat /\ n + back \in Nat /\ off \in Nat /\ off # 0
    BY <1>2, <1>4, <1>6
  <2> QED
    BY <1>6, <2>1 DEF Sequence, Resolved
<1> HIDE DEF q, a, e, off
<1>9. Encoded(w, st, iend, s.seqs, anchor, r)
  BY DEF anchor
<1>10. Encoded(w, st, iend, seqs, e, Turned(q, r)) /\ Within(off)
  BY <1>2, <1>6, <1>7, <1>8, <1>9, EncodedMore
<1>11. Turned(q, r) \in Triples /\ Turned(q, r)[1] = off /\ Turned(q, r)[2] = r[1]
  <2>1. r \in Triples
    BY <1>9 DEF Encoded
  <2> QED
    BY <1>6, <1>8, <2>1, TurnedTriples
<1>12. seqs \in Seq(Sequence)
  BY <1>2, <1>8
<1> HIDE DEF seqs, t
<1>13. /\ t \in Found
       /\ t.ip = e /\ t.anchor = e /\ t.o1 = off /\ t.o2 = s.o1 /\ t.seqs = seqs
       /\ t.hash = s.hash /\ t.chain = s.chain
       /\ t.wild = s.wild /\ t.immediate = s.immediate
  <2>1. t = [s EXCEPT !.ip = e, !.anchor = e, !.o1 = off, !.o2 = s.o1, !.seqs = seqs]
    BY <1>3, <1>6 DEF seqs
  <2> QED
    BY <1>2, <1>6, <1>12, <2>1 DEF Found
<1> QED
  BY <1>6, <1>10, <1>11, <1>13 DEF t, off

(* A match of i at a repeat offset, which the decoder has in its place.    *)
LEMMA RepeatedKeeps ==
  ASSUME NEW w, NEW st, NEW iend, Ctx(w, st, iend), NEW s \in Found,
         NEW i \in Nat, st <= s.anchor, s.anchor <= i, i + 4 <= iend,
         NEW off \in Nat, off >= 1, i - off \in Nat, w.lowLimit <= i - off,
         Same(mem, w, i - off, i, 4),
         NEW r, Encoded(w, st, iend, s.seqs, s.anchor, r),
         off = IF i > s.anchor THEN r[1] ELSE r[2]
  PROVE  LET t == Repeated(s, mem, w, i, off, iend)
         IN /\ t \in Found
            /\ t.anchor = t.ip /\ t.ip >= i + 4 /\ t.ip <= iend
            /\ t.o1 = s.o1 /\ t.o2 = s.o2
            /\ t.hash = s.hash /\ t.chain = s.chain
            /\ t.wild = s.wild /\ t.immediate = s.immediate
            /\ \E u \in Triples : /\ Encoded(w, st, iend, t.seqs, t.anchor, u)
                                  /\ i > s.anchor => u = r
                                  /\ i = s.anchor => u[1] = r[2] /\ u[2] = r[1]
            /\ t.ip = iend \/ ByteAt(mem, w, t.ip) # ByteAt(mem, w, t.ip - off)
<1> DEFINE anchor == s.anchor
           n == Count(mem, w, i, i - off, iend)
           e == i + n
           q == [ll |-> i - anchor, ml |-> n, off |-> 0]
           seqs == Append(s.seqs, q)
           t == Repeated(s, mem, w, i, off, iend)
<1>1. /\ st \in Nat /\ iend \in Nat
      /\ w.lowLimit \in Nat /\ w.dictLimit \in Nat /\ w.lowLimit <= w.dictLimit
  BY Block
<1>2. anchor \in Nat /\ s.seqs \in Seq(Sequence) /\ anchor <= i
  BY DEF Found
<1>3. t = [s EXCEPT !.ip = e, !.anchor = e, !.seqs = seqs]
  BY DEF Repeated
<1> HIDE DEF anchor
<1>4. /\ n \in 0 .. iend - i /\ n >= 4
      /\ \A x \in 0 .. n - 1 : ByteAt(mem, w, i + x) = ByteAt(mem, w, i - off + x)
      /\ n = iend - i \/ ByteAt(mem, w, i + n) # ByteAt(mem, w, i - off + n)
  <2>1. i <= iend /\ 4 \in 0 .. iend - i
    BY <1>1
  <2>2. IsCount(w, i, i - off, iend, n)
    BY <1>1, <2>1, Counted
  <2> HIDE DEF n
  <2> QED
    BY <2>1, <2>2 DEF IsCount
<1> HIDE DEF n
<1>5. /\ e \in Nat /\ i <= e /\ e <= iend /\ e >= i + 4 /\ n = e - i /\ n \in Nat
  BY <1>1, <1>4
<1>6. \A x \in i .. e - 1 : ByteAt(mem, w, x) = ByteAt(mem, w, x - off)
  <2> TAKE x \in i .. e - 1
  <2> DEFINE k == x - i
  <2>1. k \in 0 .. n - 1 /\ i + k = x /\ i - off + k = x - off
    BY <1>4
  <2> HIDE DEF k
  <2> QED
    BY <1>4, <2>1
<1>7. e = iend \/ ByteAt(mem, w, e) # ByteAt(mem, w, e - off)
  <2>1. i - off + n = e - off /\ (n = iend - i => e = iend)
    BY <1>1, <1>4
  <2> QED
    BY <1>4, <2>1
<1>8. /\ q \in Sequence /\ q.ll = i - anchor /\ q.ml = e - i /\ q.off = 0
      /\ Resolved(q, r) = off
  <2>1. i - anchor \in Nat /\ (i - anchor > 0 <=> i > anchor)
    BY <1>2
  <2>2. off = IF i > anchor THEN r[1] ELSE r[2]
    BY DEF anchor
  <2>3. q \in Sequence /\ q.ll = i - anchor /\ q.ml = e - i /\ q.off = 0
    BY <1>5, <2>1 DEF Sequence
  <2> HIDE DEF q
  <2> QED
    BY <2>1, <2>2, <2>3 DEF Resolved
<1> HIDE DEF q, e
<1>9. Encoded(w, st, iend, s.seqs, anchor, r)
  BY DEF anchor
<1>10. Encoded(w, st, iend, seqs, e, Turned(q, r))
  BY <1>2, <1>5, <1>6, <1>8, <1>9, EncodedMore
<1>11. /\ Turned(q, r) \in Triples
       /\ i > anchor => Turned(q, r) = r
       /\ i = anchor => Turned(q, r)[1] = r[2] /\ Turned(q, r)[2] = r[1]
  <2>1. r \in Triples
    BY <1>9 DEF Encoded
  <2>2. (i > anchor => q.ll > 0) /\ (i = anchor => q.ll = 0)
    BY <1>2, <1>8
  <2> QED
    BY <1>8, <2>1, <2>2, TurnedTriples
<1>12. seqs \in Seq(Sequence)
  BY <1>2, <1>8
<1> HIDE DEF seqs, t
<1>13. /\ t \in Found
       /\ t.ip = e /\ t.anchor = e /\ t.o1 = s.o1 /\ t.o2 = s.o2 /\ t.seqs = seqs
       /\ t.hash = s.hash /\ t.chain = s.chain
       /\ t.wild = s.wild /\ t.immediate = s.immediate
  BY <1>3, <1>5, <1>12 DEF Found
<1> QED
  BY <1>5, <1>7, <1>10, <1>11, <1>13 DEF t, anchor

\* An offset put aside for the block, 0, stands for sv.
Full(sv, o) == IF o = 0 THEN sv ELSE o
\* The offsets are the decoder's; the second one may be a copy of the first instead.
Agrees(sv, r, o1, o2) ==
  /\ Full(sv, o1) = r[1]
  /\ Full(sv, o2) = r[2] \/ Full(sv, o2) = Full(sv, o1)

Steady(w, st, iend, s) ==
  /\ s \in Found
  /\ st <= s.anchor /\ s.anchor <= s.ip /\ s.anchor <= iend
  /\ ~s.wild
  /\ Spots(w, s.hash, s.ip, iend) /\ Spots(w, s.chain, s.ip, iend)
  /\ Offset(w, s.o1, s.ip, s.anchor) /\ Offset(w, s.o2, s.ip, s.anchor)
Tracked(w, st, iend, sv, s, r) ==
  /\ Encoded(w, st, iend, s.seqs, s.anchor, r)
  /\ Agrees(sv, r, s.o1, s.o2)
\* Right behind a match, where the second offset is tried: it is the decoder's, or it leads
\* to a byte that is another.
Behind(w, iend, sv, s, r) ==
  /\ s.anchor = s.ip /\ s.o1 > 0
  /\ \/ Full(sv, s.o2) = r[2]
     \/ s.o2 = 0
     \/ s.o2 = s.o1 /\ (s.ip = iend \/ ByteAt(mem, w, s.ip) # ByteAt(mem, w, s.ip - s.o1))
SearchInv(w, st, iend, sv, s) ==
  /\ Steady(w, st, iend, s)
  /\ \E r \in Triples : /\ Tracked(w, st, iend, sv, s, r)
                        /\ s.immediate => Behind(w, iend, sv, s, r)
\* A match was found at i or at the next position.
Arrived(w, st, iend, sv, i, s) ==
  /\ Steady(w, st, iend, s) /\ s.ip >= i + 4
  /\ \E r \in Triples : Tracked(w, st, iend, sv, s, r) /\ Behind(w, iend, sv, s, r)

LEMMA OffsetLater ==
  ASSUME NEW w, w.dictLimit \in Nat, NEW o \in Nat, NEW ip \in Nat, NEW anchor \in Nat,
         Offset(w, o, ip, anchor), NEW ip2 \in Nat, NEW anchor2 \in Nat,
         ip <= ip2, anchor <= anchor2
  PROVE  Offset(w, o, ip2, anchor2)
<1>1. o <= Larger(anchor2, 4)
  BY DEF Offset, Larger
<1> QED
  BY <1>1 DEF Offset

(* What a table proposes is taken.                                         *)
LEMMA TakenArrives ==
  ASSUME NEW w, NEW st, NEW iend, Ctx(w, st, iend), NEW sv, NEW s \in Found,
         NEW i \in Nat, st <= s.anchor, s.anchor <= i, s.ip <= i, i + 4 <= iend, ~s.wild,
         NEW j \in Nat, w.lowLimit <= j, j < i, Same(mem, w, j, i, 4),
         NEW r, Tracked(w, st, iend, sv, s, r), Offset(w, s.o1, s.ip, s.anchor),
         Spots(w, s.hash, i + 4, iend), Spots(w, s.chain, i + 4, iend)
  PROVE  LET t == Taken(s, mem, w, i, j, iend)
         IN Arrived(w, st, iend, sv, i, t) /\ t.immediate = s.immediate
<1> DEFINE t == Taken(s, mem, w, i, j, iend)
<1>0. /\ st \in Nat /\ iend \in Nat /\ w.lowLimit \in Nat /\ w.dictLimit \in Nat
      /\ w.lowLimit <= w.dictLimit
  BY Block
<1>1. Encoded(w, st, iend, s.seqs, s.anchor, r) /\ Full(sv, s.o1) = r[1]
  BY DEF Tracked, Agrees
<1>2. /\ t \in Found
      /\ t.anchor = t.ip /\ t.ip >= i + 4 /\ t.ip <= iend
      /\ t.o1 = i - j /\ t.o2 = s.o1
      /\ t.hash = s.hash /\ t.chain = s.chain
      /\ t.wild = s.wild /\ t.immediate = s.immediate
      /\ \E u \in Triples : /\ Encoded(w, st, iend, t.seqs, t.anchor, u)
                            /\ u[1] = i - j /\ u[2] = r[1]
      /\ Within(i - j)
  BY <1>1, TakenKeeps
<1> HIDE DEF t
<1>3. PICK u \in Triples : /\ Encoded(w, st, iend, t.seqs, t.anchor, u)
                           /\ u[1] = i - j /\ u[2] = r[1]
  BY <1>2
<1>4. /\ t.ip \in Nat /\ t.anchor \in Nat /\ t.o1 \in Nat /\ t.o2 \in Nat
      /\ t.hash \in Table /\ t.chain \in Table
      /\ s.ip \in Nat /\ s.anchor \in Nat /\ s.o1 \in Nat
  BY <1>2 DEF Found
<1>5. Offset(w, t.o1, t.ip, t.anchor)
  <2>1. t.o1 > 0 /\ t.o1 <= Larger(t.anchor, 4)
    BY <1>2, <1>4 DEF Larger
  <2>2. ~HasExtDict(w) => t.ip - t.o1 >= w.dictLimit
    BY <1>0, <1>2, <1>4 DEF HasExtDict
  <2> QED
    BY <1>2, <2>1, <2>2 DEF Offset
<1>6. Offset(w, t.o2, t.ip, t.anchor)
  <2>1. s.ip <= t.ip /\ s.anchor <= t.anchor
    BY <1>2, <1>4
  <2> QED
    BY <1>0, <1>2, <1>4, <2>1, OffsetLater
<1>7. Spots(w, t.hash, t.ip, iend) /\ Spots(w, t.chain, t.ip, iend)
  <2>1. i + 4 \in Nat
    OBVIOUS
  <2> QED
    BY <1>0, <1>2, <1>4, <2>1, SpotsLater
<1>8. Steady(w, st, iend, t)
  BY <1>0, <1>2, <1>4, <1>5, <1>6, <1>7 DEF Steady
<1>9. Full(sv, t.o1) = u[1] /\ Full(sv, t.o2) = u[2] /\ t.o1 > 0
  BY <1>1, <1>2, <1>3, <1>4 DEF Full
<1>10. Tracked(w, st, iend, sv, t, u) /\ Behind(w, iend, sv, t, u)
  BY <1>2, <1>3, <1>9 DEF Tracked, Agrees, Behind
<1> QED
  BY <1>2, <1>8, <1>10 DEF Arrived, t

(* The first repeat offset, at a later position than anchor.               *)
LEMMA RepeatedArrives ==
  ASSUME NEW w, NEW st, NEW iend, Ctx(w, st, iend), NEW sv, NEW s, Steady(w, st, iend, s),
         NEW i \in Nat, s.ip < i, i + 4 <= iend, RepUsable(w, i, s.o1),
         Same(mem, w, i - s.o1, i, 4), NEW r, Tracked(w, st, iend, sv, s, r)
  PROVE  LET t == Repeated(s, mem, w, i, s.o1, iend)
         IN Arrived(w, st, iend, sv, i, t) /\ t.immediate = s.immediate
<1> DEFINE t == Repeated(s, mem, w, i, s.o1, iend)
           off == s.o1
<1>0. /\ st \in Nat /\ iend \in Nat /\ w.lowLimit \in Nat /\ w.dictLimit \in Nat
      /\ w.lowLimit <= w.dictLimit
  BY Block
<1>1. /\ s \in Found /\ st <= s.anchor /\ s.anchor <= s.ip /\ ~s.wild
      /\ s.ip \in Nat /\ s.anchor \in Nat /\ s.o1 \in Nat /\ s.o2 \in Nat
      /\ Offset(w, s.o1, s.ip, s.anchor) /\ Offset(w, s.o2, s.ip, s.anchor)
      /\ s.hash \in Table /\ s.chain \in Table
      /\ Spots(w, s.hash, s.ip, iend) /\ Spots(w, s.chain, s.ip, iend)
  BY DEF Steady, Found
<1>2. off >= 1 /\ i - off \in Nat /\ w.lowLimit <= i - off
  <2>1. s.ip <= i
    BY <1>1
  <2> QED
    BY <1>1, <2>1, RepHeld
<1>3. /\ Encoded(w, st, iend, s.seqs, s.anchor, r) /\ Full(sv, off) = r[1]
      /\ Full(sv, s.o2) = r[2] \/ Full(sv, s.o2) = Full(sv, off)
  BY DEF Tracked, Agrees
<1>4. i > s.anchor /\ s.anchor <= i /\ off = IF i > s.anchor THEN r[1] ELSE r[2]
  BY <1>1, <1>2, <1>3 DEF Full
<1> HIDE DEF off
<1>5. Same(mem, w, i - off, i, 4) /\ off \in Nat
  BY <1>1 DEF off
<1> DEFINE y == Repeated(s, mem, w, i, off, iend)
<1>6. /\ y \in Found
      /\ y.anchor = y.ip /\ y.ip >= i + 4 /\ y.ip <= iend
      /\ y.o1 = s.o1 /\ y.o2 = s.o2
      /\ y.hash = s.hash /\ y.chain = s.chain
      /\ y.wild = s.wild /\ y.immediate = s.immediate
      /\ \E u \in Triples : /\ Encoded(w, st, iend, y.seqs, y.anchor, u)
                            /\ i > s.anchor => u = r
                            /\ i = s.anchor => u[1] = r[2] /\ u[2] = r[1]
      /\ y.ip = iend \/ ByteAt(mem, w, y.ip) # ByteAt(mem, w, y.ip - off)
  BY <1>1, <1>2, <1>3, <1>4, <1>5, RepeatedKeeps
<1>7. y = t
  BY DEF off
<1> HIDE DEF t, y
<1>8. Encoded(w, st, iend, t.seqs, t.anchor, r) /\ r \in Triples
  BY <1>4, <1>6, <1>7
<1>9. t.ip \in Nat /\ t.anchor \in Nat /\ s.ip <= t.ip /\ s.anchor <= t.anchor
  BY <1>1, <1>6, <1>7 DEF Found
<1>10. Spots(w, t.hash, t.ip, iend) /\ Spots(w, t.chain, t.ip, iend)
  BY <1>0, <1>1, <1>6, <1>7, <1>9, SpotsLater
<1>11. Offset(w, t.o1, t.ip, t.anchor) /\ Offset(w, t.o2, t.ip, t.anchor)
  BY <1>0, <1>1, <1>6, <1>7, <1>9, OffsetLater
<1>12. Steady(w, st, iend, t)
  BY <1>0, <1>1, <1>6, <1>7, <1>9, <1>10, <1>11 DEF Steady
<1>13. Tracked(w, st, iend, sv, t, r) /\ Behind(w, iend, sv, t, r)
  <2>1. t.o1 = off /\ off > 0 /\ t.o2 = s.o2 /\ t.o2 \in Nat
    BY <1>1, <1>2, <1>6, <1>7 DEF off
  <2>2. Full(sv, t.o2) = r[2] \/ t.o2 = 0 \/ t.o2 = t.o1
    BY <1>3, <2>1 DEF Full
  <2> QED
    BY <1>3, <1>6, <1>7, <1>8, <2>1, <2>2 DEF Tracked, Agrees, Behind
<1> QED
  BY <1>6, <1>7, <1>8, <1>12, <1>13 DEF Arrived, t

(* The second repeat offset right behind a match: the two change places.   *)
LEMMA AgainArrives ==
  ASSUME NEW w, NEW st, NEW iend, Ctx(w, st, iend), NEW sv, NEW s, Steady(w, st, iend, s),
         s.immediate, s.ip + 8 <= iend, RepUsable(w, s.ip, s.o2),
         Same(mem, w, s.ip - s.o2, s.ip, 4),
         NEW r, Tracked(w, st, iend, sv, s, r), Behind(w, iend, sv, s, r)
  PROVE  LET t == Repeated([s EXCEPT !.o1 = s.o2, !.o2 = s.o1], mem, w, s.ip, s.o2, iend)
         IN Arrived(w, st, iend, sv, s.ip, t) /\ t.immediate = s.immediate
<1> DEFINE i == s.ip
           off == s.o2
           x == [s EXCEPT !.o1 = s.o2, !.o2 = s.o1]
           t == Repeated(x, mem, w, i, off, iend)
<1>0. /\ st \in Nat /\ iend \in Nat /\ w.lowLimit \in Nat /\ w.dictLimit \in Nat
      /\ w.lowLimit <= w.dictLimit
  BY Block
<1>1. /\ s \in Found /\ st <= s.anchor /\ s.anchor = i /\ ~s.wild
      /\ i \in Nat /\ s.anchor \in Nat /\ s.o1 \in Nat /\ off \in Nat
      /\ Offset(w, s.o1, i, s.anchor) /\ Offset(w, off, i, s.anchor)
      /\ s.hash \in Table /\ s.chain \in Table
      /\ Spots(w, s.hash, i, iend) /\ Spots(w, s.chain, i, iend)
  BY DEF Steady, Found, Behind
<1>2. /\ x \in Found /\ x.ip = i /\ x.anchor = s.anchor /\ x.o1 = off /\ x.o2 = s.o1
      /\ x.hash = s.hash /\ x.chain = s.chain /\ x.seqs = s.seqs
      /\ x.wild = s.wild /\ x.immediate = s.immediate
  BY <1>1 DEF Found
<1>3. off >= 1 /\ i - off \in Nat /\ w.lowLimit <= i - off
  <2>1. s.anchor <= s.ip /\ s.ip <= s.ip /\ s.ip + 4 <= iend
    BY <1>0, <1>1
  <2>2. s.ip \in Nat /\ s.o2 \in Nat /\ s.anchor \in Nat /\ Offset(w, s.o2, s.ip, s.anchor)
    BY <1>1
  <2> QED
    BY <1>1, <2>1, <2>2, RepHeld
<1>4. /\ Encoded(w, st, iend, s.seqs, s.anchor, r) /\ Full(sv, s.o1) = r[1]
      /\ s.o1 > 0
      /\ \/ Full(sv, off) = r[2]
         \/ off = 0
         \/ off = s.o1 /\ (i = iend \/ ByteAt(mem, w, i) # ByteAt(mem, w, i - s.o1))
  BY DEF Tracked, Agrees, Behind
<1>5. Same(mem, w, i - off, i, 4) /\ i + 8 <= iend
  OBVIOUS
<1> HIDE DEF i, off, x
<1>6. Full(sv, off) = r[2] /\ off = r[2]
  <2>1. ByteAt(mem, w, i - off) = ByteAt(mem, w, i)
    <3>1. 0 \in 0 .. 4 - 1 /\ i + 0 = i /\ i - off + 0 = i - off
      BY <1>1, <1>3
    <3> QED
      BY <1>5, <3>1 DEF Same
  <2>2. i # iend /\ off # 0
    BY <1>0, <1>1, <1>3, <1>5
  <2>3. Full(sv, off) = r[2]
    BY <1>4, <2>1, <2>2
  <2> QED
    BY <2>2, <2>3 DEF Full
<1>7. /\ t \in Found
      /\ t.anchor = t.ip /\ t.ip >= i + 4 /\ t.ip <= iend
      /\ t.o1 = x.o1 /\ t.o2 = x.o2
      /\ t.hash = x.hash /\ t.chain = x.chain
      /\ t.wild = x.wild /\ t.immediate = x.immediate
      /\ \E u \in Triples : /\ Encoded(w, st, iend, t.seqs, t.anchor, u)
                            /\ i > x.anchor => u = r
                            /\ i = x.anchor => u[1] = r[2] /\ u[2] = r[1]
      /\ t.ip = iend \/ ByteAt(mem, w, t.ip) # ByteAt(mem, w, t.ip - off)
  <2>1. off = IF i > x.anchor THEN r[1] ELSE r[2]
    BY <1>0, <1>1, <1>2, <1>6
  <2>2. st <= x.anchor /\ x.anchor <= i /\ i + 4 <= iend
    BY <1>0, <1>1, <1>2, <1>5
  <2>3. /\ x \in Found /\ i \in Nat /\ off \in Nat /\ off >= 1 /\ i - off \in Nat
        /\ w.lowLimit <= i - off /\ Same(mem, w, i - off, i, 4)
        /\ Encoded(w, st, iend, x.seqs, x.anchor, r)
    BY <1>1, <1>2, <1>3, <1>4, <1>5
  <2> QED
    BY <2>1, <2>2, <2>3, RepeatedKeeps
<1> HIDE DEF t
<1>8. PICK u \in Triples : /\ Encoded(w, st, iend, t.seqs, t.anchor, u)
                           /\ u[1] = r[2] /\ u[2] = r[1]
  BY <1>1, <1>2, <1>7
<1>9. t.ip \in Nat /\ t.anchor \in Nat /\ i <= t.ip /\ s.anchor <= t.anchor
  BY <1>1, <1>7 DEF Found
<1>10. Spots(w, t.hash, t.ip, iend) /\ Spots(w, t.chain, t.ip, iend)
  BY <1>0, <1>1, <1>2, <1>7, <1>9, SpotsLater
<1>11. Offset(w, t.o1, t.ip, t.anchor) /\ Offset(w, t.o2, t.ip, t.anchor)
  BY <1>0, <1>1, <1>2, <1>7, <1>9, OffsetLater
<1>12. Steady(w, st, iend, t)
  BY <1>0, <1>1, <1>2, <1>7, <1>9, <1>10, <1>11 DEF Steady
<1>13. Tracked(w, st, iend, sv, t, u) /\ Behind(w, iend, sv, t, u)
  <2>1. t.o1 = off /\ off > 0 /\ t.o2 = s.o1
    BY <1>1, <1>2, <1>3, <1>7
  <2> QED
    BY <1>4, <1>6, <1>7, <1>8, <2>1 DEF Tracked, Agrees, Behind
<1>14. Arrived(w, st, iend, sv, i, t) /\ t.immediate = s.immediate
  BY <1>2, <1>7, <1>12, <1>13 DEF Arrived
<1> QED
  BY <1>14 DEF i, off, x, t

(* Noting a position the search has passed changes nothing else.           *)
LEMMA NotedKeeps ==
  ASSUME NEW w, NEW st, NEW iend, Ctx(w, st, iend), NEW s, Steady(w, st, iend, s),
         NEW i \in Nat, w.dictLimit <= i, i < s.ip, i + 8 <= iend, NEW dfast \in BOOLEAN
  PROVE  LET t == Noted(s, mem, w, i, dfast)
         IN /\ Steady(w, st, iend, t)
            /\ t.ip = s.ip /\ t.anchor = s.anchor /\ t.o1 = s.o1 /\ t.o2 = s.o2
            /\ t.seqs = s.seqs /\ t.immediate = s.immediate
<1> DEFINE t == Noted(s, mem, w, i, dfast)
<1>1. /\ mem \in [Area -> Byte] /\ w.dictLimit \in Nat /\ w.lowLimit \in Nat /\ iend \in Nat
  BY Block DEF Ctx
<1>2. /\ s \in Found /\ s.ip \in Nat
      /\ Spots(w, s.hash, s.ip, iend) /\ Spots(w, s.chain, s.ip, iend)
  BY DEF Steady, Found
<1>3. /\ t \in Found
      /\ t.ip = s.ip /\ t.anchor = s.anchor /\ t.o1 = s.o1 /\ t.o2 = s.o2
      /\ t.seqs = s.seqs /\ t.wild = s.wild /\ t.immediate = s.immediate
  BY <1>1, <1>2, NotedFields
<1>4. Spots(w, t.hash, s.ip, iend) /\ Spots(w, t.chain, s.ip, iend)
  BY <1>1, <1>2, NotedSpots
<1> HIDE DEF t
<1>5. Steady(w, st, iend, t)
  BY <1>3, <1>4 DEF Steady
<1> QED
  BY <1>3, <1>5 DEF t

(* What is tracked does not depend on the tables.                          *)
LEMMA SameTrack ==
  ASSUME NEW w, NEW st, NEW iend, NEW sv, NEW s, NEW t, NEW r,
         t.ip = s.ip, t.anchor = s.anchor, t.o1 = s.o1, t.o2 = s.o2, t.seqs = s.seqs
  PROVE  /\ Tracked(w, st, iend, sv, s, r) => Tracked(w, st, iend, sv, t, r)
         /\ Behind(w, iend, sv, s, r) => Behind(w, iend, sv, t, r)
  BY DEF Tracked, Behind

LEMMA ArrivedNoted ==
  ASSUME NEW w, NEW st, NEW iend, Ctx(w, st, iend), NEW sv, NEW i \in Nat,
         NEW s, Arrived(w, st, iend, sv, i, s),
         NEW k \in Nat, w.dictLimit <= k, k < s.ip, k + 8 <= iend, NEW dfast \in BOOLEAN
  PROVE  LET t == Noted(s, mem, w, k, dfast)
         IN Arrived(w, st, iend, sv, i, t) /\ t.immediate = s.immediate /\ t.ip = s.ip
<1> DEFINE t == Noted(s, mem, w, k, dfast)
<1>1. Steady(w, st, iend, s) /\ s.ip >= i + 4
  BY DEF Arrived
<1>2. /\ Steady(w, st, iend, t)
      /\ t.ip = s.ip /\ t.anchor = s.anchor /\ t.o1 = s.o1 /\ t.o2 = s.o2
      /\ t.seqs = s.seqs /\ t.immediate = s.immediate
  BY <1>1, NotedKeeps
<1>3. PICK r \in Triples : Tracked(w, st, iend, sv, s, r) /\ Behind(w, iend, sv, s, r)
  BY DEF Arrived
<1> HIDE DEF t
<1>4. Tracked(w, st, iend, sv, t, r) /\ Behind(w, iend, sv, t, r)
  BY <1>2, <1>3, SameTrack
<1> QED
  BY <1>1, <1>2, <1>4 DEF Arrived, t

(* What is behind a match is a state of the search.                        *)
LEMMA ArrivedSearch ==
  ASSUME NEW w, NEW st, NEW iend, NEW sv, NEW i, NEW s, Arrived(w, st, iend, sv, i, s)
  PROVE  SearchInv(w, st, iend, sv, s)
  BY DEF Arrived, SearchInv

LEMMA Unwild ==
  ASSUME NEW s \in Found, ~s.wild, NEW wild, ~wild
  PROVE  [s EXCEPT !.wild = @ \/ wild] = s
<1> DEFINE x == s.wild \/ wild
           t == [s EXCEPT !.wild = x]
<1>1. x = FALSE /\ s.wild = FALSE
  BY DEF Found
<1> HIDE DEF x
<1>2. t = s
  BY <1>1 DEF Found
<1> QED
  BY <1>2 DEF x

(* Whether positions are to be noted does not matter to what was found.    *)
Resembles(w, st, iend, s, t) ==
  /\ Steady(w, st, iend, t)
  /\ t.ip = s.ip /\ t.anchor = s.anchor /\ t.o1 = s.o1 /\ t.o2 = s.o2
  /\ t.seqs = s.seqs /\ t.hash = s.hash /\ t.chain = s.chain
LEMMA SetImmediate ==
  ASSUME NEW w, NEW st, NEW iend, NEW s, Steady(w, st, iend, s)
  PROVE  /\ Resembles(w, st, iend, s, [s EXCEPT !.immediate = TRUE])
         /\ Resembles(w, st, iend, s, [s EXCEPT !.immediate = FALSE])
         /\ [s EXCEPT !.immediate = TRUE].immediate
         /\ ~[s EXCEPT !.immediate = FALSE].immediate
<1>1. s \in Found
  BY DEF Steady
<1>2. ASSUME NEW b \in BOOLEAN, NEW t, t = [s EXCEPT !.immediate = b]
      PROVE  Resembles(w, st, iend, s, t) /\ t.immediate = b
  <2>1. /\ t \in Found /\ t.immediate = b
        /\ t.ip = s.ip /\ t.anchor = s.anchor /\ t.o1 = s.o1 /\ t.o2 = s.o2
        /\ t.seqs = s.seqs /\ t.hash = s.hash /\ t.chain = s.chain /\ t.wild = s.wild
    BY <1>1, <1>2 DEF Found
  <2>2. Steady(w, st, iend, t)
    BY <2>1 DEF Steady
  <2> QED
    BY <2>1, <2>2 DEF Resembles
<1>3. TRUE \in BOOLEAN /\ FALSE \in BOOLEAN
  OBVIOUS
<1> QED
  BY <1>2, <1>3

(* The positions noted behind a match are ones the search has passed.      *)
LEMMA FilledKeeps ==
  ASSUME NEW w, NEW st, NEW iend, Ctx(w, st, iend), NEW sv, NEW i \in Nat, st <= i,
         NEW t, NEW dfast \in BOOLEAN,
         \/ Arrived(w, st, iend, sv, i, t)
         \/ SearchInv(w, st, iend, sv, t) /\ ~t.immediate
  PROVE  SearchInv(w, st, iend, sv, Filled(t, mem, w, i, iend, dfast))
<1>0. /\ st \in Nat /\ iend \in Nat /\ w.dictLimit \in Nat /\ w.dictLimit <= st
  BY Block
<1>1. Steady(w, st, iend, t) /\ \E r \in Triples : Tracked(w, st, iend, sv, t, r)
  BY DEF Arrived, SearchInv
<1>2. t.ip \in Nat
  BY <1>1 DEF Steady, Found
<1>3. CASE t.immediate /\ t.ip <= iend - HASH_READ_SIZE
  <2>1. Arrived(w, st, iend, sv, i, t) /\ t.ip >= i + 4 /\ t.ip + 8 <= iend
    BY <1>0, <1>2, <1>3 DEF Arrived, HASH_READ_SIZE
  <2> DEFINE k == i + 2
             l == t.ip - 2
             x == Noted(t, mem, w, k, dfast)
             y == Noted(x, mem, w, l, dfast)
  <2>2. /\ k \in Nat /\ w.dictLimit <= k /\ k < t.ip /\ k + 8 <= iend
        /\ l \in Nat /\ w.dictLimit <= l /\ l < t.ip /\ l + 8 <= iend
    BY <1>0, <1>2, <2>1
  <2>3. Filled(t, mem, w, i, iend, dfast) = y
    BY <1>3 DEF Filled
  <2> HIDE DEF k, l
  <2>4. Arrived(w, st, iend, sv, i, x) /\ x.immediate = t.immediate /\ x.ip = t.ip
    BY <2>1, <2>2, ArrivedNoted
  <2> HIDE DEF x
  <2>5. l < x.ip
    BY <2>2, <2>4
  <2>6. Arrived(w, st, iend, sv, i, y)
    BY <2>2, <2>4, <2>5, ArrivedNoted
  <2> HIDE DEF y
  <2> QED
    BY <2>3, <2>6, ArrivedSearch
<1>4. CASE ~(t.immediate /\ t.ip <= iend - HASH_READ_SIZE)
  <2> DEFINE x == [t EXCEPT !.immediate = FALSE]
  <2>1. Filled(t, mem, w, i, iend, dfast) = x
    BY <1>4 DEF Filled
  <2>2. Resembles(w, st, iend, t, x) /\ ~x.immediate
    BY <1>1, SetImmediate
  <2> HIDE DEF x
  <2>3. \E r \in Triples : Tracked(w, st, iend, sv, x, r)
    BY <1>1, <2>2, SameTrack DEF Resembles
  <2> QED
    BY <2>1, <2>2, <2>3 DEF SearchInv, Resembles
<1> QED
  BY <1>3, <1>4

(* The search going on, by more the longer nothing was found.              *)
LEMMA NoneKeeps ==
  ASSUME NEW w, NEW st, NEW iend, Ctx(w, st, iend), NEW sv, NEW s, Steady(w, st, iend, s),
         NEW r, Tracked(w, st, iend, sv, s, r), NEW x \in Found,
         x.anchor = s.anchor, x.o1 = s.o1, x.o2 = s.o2, x.seqs = s.seqs, ~x.wild,
         NEW ip \in Nat, s.ip + 1 <= ip,
         Spots(w, x.hash, s.ip + 1, iend), Spots(w, x.chain, s.ip + 1, iend)
  PROVE  LET t == [x EXCEPT !.ip = ip, !.immediate = FALSE]
         IN SearchInv(w, st, iend, sv, t) /\ ~t.immediate /\ t \in Found /\ ~t.wild
<1> DEFINE t == [x EXCEPT !.ip = ip, !.immediate = FALSE]
<1>1. /\ t \in Found /\ t.ip = ip /\ ~t.immediate
      /\ t.anchor = s.anchor /\ t.o1 = s.o1 /\ t.o2 = s.o2 /\ t.seqs = s.seqs
      /\ t.hash = x.hash /\ t.chain = x.chain /\ ~t.wild
  BY DEF Found
<1> HIDE DEF t
<1>2. /\ s.ip \in Nat /\ s.anchor \in Nat /\ s.o1 \in Nat /\ s.o2 \in Nat
      /\ st <= s.anchor /\ s.anchor <= s.ip /\ s.anchor <= iend
      /\ Offset(w, s.o1, s.ip, s.anchor) /\ Offset(w, s.o2, s.ip, s.anchor)
      /\ x.hash \in Table /\ x.chain \in Table
  BY DEF Steady, Found
<1>3. /\ w.dictLimit \in Nat /\ w.lowLimit \in Nat /\ iend \in Nat /\ s.ip + 1 \in Nat
      /\ s.ip <= ip /\ s.anchor <= ip
  <2>1. w.dictLimit \in Nat /\ w.lowLimit \in Nat /\ iend \in Nat /\ st \in Nat
    BY Block
  <2> QED
    BY <1>2, <2>1
<1>4. Spots(w, t.hash, ip, iend) /\ Spots(w, t.chain, ip, iend)
  BY <1>1, <1>2, <1>3, SpotsLater
<1>5. Offset(w, s.o1, ip, s.anchor) /\ Offset(w, s.o2, ip, s.anchor)
  <2>1. s.anchor <= s.anchor
    BY <1>2
  <2> QED
    BY <1>2, <1>3, <2>1, OffsetLater
<1>6. Steady(w, st, iend, t)
  BY <1>1, <1>2, <1>3, <1>4, <1>5 DEF Steady
<1>7. Tracked(w, st, iend, sv, t, r) /\ r \in Triples
  BY <1>1 DEF Tracked, Encoded
<1> QED
  BY <1>1, <1>6, <1>7 DEF SearchInv, t

(* What the tables propose at i, or at i + 1, or the search going on.      *)
LEMMA Proposal ==
  ASSUME NEW w, NEW st, NEW iend, Ctx(w, st, iend), NEW sv, NEW s,
         Steady(w, st, iend, s), s.immediate, NEW i \in Nat, s.ip = i, i + 8 < iend,
         NEW r, Tracked(w, st, iend, sv, s, r), NEW dfast \in BOOLEAN
  PROVE  LET t == Proposed(s, mem, w, i, iend, dfast)
         IN \/ Arrived(w, st, iend, sv, i, t)
            \/ SearchInv(w, st, iend, sv, t) /\ ~t.immediate
<1> DEFINE Match(j, n, k) == IndexUsable(w, j, dfast) /\ Same(mem, w, j, k, n)
           Wild(j, n) == IndexUsable(w, j, dfast) /\ ~Held(w, j, n, iend)
           e == [Noted(s, mem, w, i, dfast) EXCEPT !.immediate = TRUE]
           later == i + ((i - s.anchor) \div 2 ^ kSearchStrength)
                      + (IF dfast THEN 1 ELSE StepSize)
           none == [e EXCEPT !.ip = i + ((i - s.anchor) \div 2 ^ kSearchStrength)
                                      + (IF dfast THEN 1 ELSE StepSize),
                             !.immediate = FALSE]
           jShort == IF dfast THEN s.chain[Short(mem, w, i)] ELSE s.hash[Short(mem, w, i)]
           jLong == s.hash[Long(mem, w, i)]
           next == e.hash[Long(mem, w, i + 1)]
           f == [e EXCEPT !.hash[Long(mem, w, i + 1)] = i + 1]
           Seen(t, wild) == [t EXCEPT !.wild = @ \/ wild]
           ef == IF dfast THEN f ELSE e
           t1 == Taken(e, mem, w, i, jLong, iend)
           t2 == Taken(f, mem, w, i + 1, next, iend)
           t3 == Taken(IF dfast THEN f ELSE e, mem, w, i, jShort, iend)
           t == Proposed(s, mem, w, i, iend, dfast)
           Good(x) == \/ Arrived(w, st, iend, sv, i, x)
                      \/ SearchInv(w, st, iend, sv, x) /\ ~x.immediate
<1>1. t = IF dfast /\ Match(jLong, 8, i) THEN Seen(t1, Wild(jLong, 8))
          ELSE IF ~Match(jShort, 4, i)
          THEN Seen(none, Wild(jShort, 4) \/ (dfast /\ Wild(jLong, 8)))
          ELSE IF dfast /\ Match(next, 8, i + 1)
          THEN Seen(t2, Wild(next, 8) \/ Wild(jShort, 4))
          ELSE Seen(t3, Wild(jShort, 4))
  BY Zenon DEF Proposed
<1>0. /\ st \in Nat /\ iend \in Nat /\ w.lowLimit \in Nat /\ w.dictLimit \in Nat
      /\ w.lowLimit <= w.dictLimit /\ w.dictLimit <= st /\ mem \in [Area -> Byte]
  BY Block DEF Ctx
<1>2. /\ s \in Found /\ s.hash \in Table /\ s.chain \in Table /\ ~s.wild
      /\ s.anchor \in Nat /\ st <= s.anchor /\ s.anchor <= i /\ i + 1 \in Nat
      /\ Spots(w, s.hash, i, iend) /\ Spots(w, s.chain, i, iend)
      /\ Offset(w, s.o1, s.ip, s.anchor)
  BY DEF Steady, Found
<1> HIDE DEF t, t1, t2, t3, none
<1>3. /\ e \in Found /\ e.ip = i /\ e.anchor = s.anchor /\ e.o1 = s.o1 /\ e.o2 = s.o2
      /\ e.seqs = s.seqs /\ ~e.wild
      /\ Spots(w, e.hash, i + 1, iend) /\ Spots(w, e.chain, i + 1, iend)
      /\ e.hash \in Table /\ e.chain \in Table
  <2> DEFINE x == Noted(s, mem, w, i, dfast)
  <2>1. /\ x \in Found /\ x.ip = s.ip /\ x.anchor = s.anchor /\ x.o1 = s.o1 /\ x.o2 = s.o2
        /\ x.seqs = s.seqs /\ x.wild = s.wild
    <3>1. mem \in [Area -> Byte] /\ s \in Found
      BY <1>0, <1>2
    <3> HIDE DEF e, f, Good, Match, Wild, jLong, jShort, later, ef
    <3> QED
      BY <3>1, NotedFields
  <2>2. Spots(w, s.hash, i + 1, iend) /\ Spots(w, s.chain, i + 1, iend)
    <3>1. i <= i + 1 /\ i + 1 \in Nat
      BY <1>2
    <3> QED
      BY <1>0, <1>2, <3>1, SpotsLater
  <2>3. w.dictLimit <= i /\ i < i + 1 /\ i + 8 <= iend
    BY <1>0, <1>2
  <2>4. Spots(w, x.hash, i + 1, iend) /\ Spots(w, x.chain, i + 1, iend)
    BY <1>0, <1>2, <2>2, <2>3, NotedSpots
  <2> HIDE DEF x
  <2>5. e = [x EXCEPT !.immediate = TRUE]
    BY DEF x
  <2> HIDE DEF e
  <2>6. /\ e \in Found /\ e.ip = x.ip /\ e.anchor = x.anchor /\ e.o1 = x.o1 /\ e.o2 = x.o2
        /\ e.seqs = x.seqs /\ e.wild = x.wild /\ e.hash = x.hash /\ e.chain = x.chain
        /\ e.hash \in Table /\ e.chain \in Table
    BY <2>1, <2>5 DEF Found
  <2> QED
    BY <1>2, <2>1, <2>4, <2>6
<1> HIDE DEF e
<1>4. /\ f \in Found /\ f.ip = i /\ f.anchor = s.anchor /\ f.o1 = s.o1 /\ f.o2 = s.o2
      /\ f.seqs = s.seqs /\ ~f.wild
      /\ Spots(w, f.hash, i + 2, iend) /\ Spots(w, f.chain, i + 2, iend)
      /\ f.hash \in Table /\ f.chain \in Table
  <2> DEFINE h == Long(mem, w, i + 1)
             hash == [e.hash EXCEPT ![h] = i + 1]
  <2>1. h \in 0 .. HashSize - 1
    BY <1>0, HashPlace
  <2>2. f = [e EXCEPT !.hash = hash]
    BY <1>3
  <2> HIDE DEF h, f
  <2>3. hash \in Table /\ \A x \in 0 .. HashSize - 1 : hash[x] \in {e.hash[x], i + 1}
    BY <1>2, <1>3, <2>1 DEF Table
  <2> HIDE DEF hash
  <2>4. i + 2 \in Nat /\ i + 1 <= i + 2 /\ Spot(w, i + 1, i + 2, iend)
    BY <1>0, <1>2 DEF Spot
  <2>5. Spots(w, e.hash, i + 2, iend) /\ Spots(w, e.chain, i + 2, iend)
    BY <1>0, <1>2, <1>3, <2>4, SpotsLater
  <2>6. Spots(w, hash, i + 2, iend)
    BY <2>3, <2>4, <2>5 DEF Spots
  <2>7. /\ f \in Found /\ f.hash = hash /\ f.chain = e.chain
        /\ f.ip = e.ip /\ f.anchor = e.anchor /\ f.o1 = e.o1 /\ f.o2 = e.o2
        /\ f.seqs = e.seqs /\ f.wild = e.wild
    BY <1>3, <2>2, <2>3 DEF Found
  <2> QED
    BY <1>3, <2>3, <2>5, <2>6, <2>7
<1> HIDE DEF f
<1>5. /\ jShort \in Nat /\ Spot(w, jShort, i, iend)
      /\ jLong \in Nat /\ Spot(w, jLong, i, iend)
      /\ next \in Nat /\ Spot(w, next, i + 1, iend)
  <2>1. /\ Short(mem, w, i) \in 0 .. HashSize - 1 /\ Long(mem, w, i) \in 0 .. HashSize - 1
        /\ Long(mem, w, i + 1) \in 0 .. HashSize - 1
    BY <1>0, HashPlace
  <2>2. jShort \in Nat /\ Spot(w, jShort, i, iend)
    BY <1>2, <2>1 DEF Spots, Table
  <2>3. jLong \in Nat /\ Spot(w, jLong, i, iend)
    BY <1>2, <2>1 DEF Spots, Table
  <2>4. next \in Nat /\ Spot(w, next, i + 1, iend)
    BY <1>3, <2>1 DEF Spots, Table
  <2> QED
    BY <2>2, <2>3, <2>4
<1> HIDE DEF jShort, jLong, next
<1>6. ASSUME NEW k \in Nat, st <= k, NEW j \in Nat, Spot(w, j, k, iend)
      PROVE  ~Wild(j, 4) /\ ~Wild(j, 8)
  BY <1>6, EntryHeld
<1>7. st <= i /\ st <= i + 1
  BY <1>0, <1>2
<1>8. /\ ~Wild(jShort, 4) /\ ~Wild(jLong, 8) /\ ~Wild(next, 8)
  BY <1>2, <1>5, <1>6, <1>7
<1> HIDE DEF Wild
<1>9. ASSUME NEW g \in Found, g.ip = i, g.anchor = s.anchor, g.o1 = s.o1, g.o2 = s.o2,
             g.seqs = s.seqs, ~g.wild, g.hash \in Table, g.chain \in Table,
             Spots(w, g.hash, i + 2, iend), Spots(w, g.chain, i + 2, iend),
             NEW k \in {i, i + 1}, NEW j \in Nat, Spot(w, j, k, iend), NEW n \in {4, 8},
             Match(j, n, k)
      PROVE  Good(Seen(Taken(g, mem, w, k, j, iend), FALSE))
  <2> DEFINE y == Taken(g, mem, w, k, j, iend)
  <2>1. k \in Nat /\ st <= k /\ i <= k /\ i + 2 \in Nat /\ i + 2 <= k + 4 /\ k + 4 <= iend
        /\ k + 4 \in Nat
    BY <1>0, <1>2
  <2>2. w.lowLimit <= j /\ j < k
    BY <1>9, <2>1, EntryHeld
  <2>3. Same(mem, w, j, k, 4)
    BY <1>9 DEF Same
  <2>4. Tracked(w, st, iend, sv, g, r)
    BY <1>9 DEF Tracked
  <2>5. Spots(w, g.hash, k + 4, iend) /\ Spots(w, g.chain, k + 4, iend)
    BY <1>0, <1>9, <2>1, SpotsLater
  <2>6. st <= g.anchor /\ g.anchor <= k /\ g.ip <= k /\ Offset(w, g.o1, g.ip, g.anchor)
    BY <1>2, <1>9, <2>1
  <2>7. Arrived(w, st, iend, sv, k, y)
    BY <1>9, <2>1, <2>2, <2>3, <2>4, <2>5, <2>6, TakenArrives
  <2> HIDE DEF y
  <2>8. y \in Found /\ ~y.wild /\ y.ip \in Nat /\ y.ip >= i + 4
    <3>1. y \in Found /\ ~y.wild /\ y.ip \in Nat /\ y.ip >= k + 4
      BY <2>7 DEF Arrived, Steady, Found
    <3> QED
      BY <2>1, <3>1
  <2>9. Arrived(w, st, iend, sv, i, y)
    BY <2>7, <2>8 DEF Arrived
  <2>10. Seen(y, FALSE) = y
    BY <2>8, Unwild
  <2> QED
    BY <2>9, <2>10 DEF y
<1>10. none = [e EXCEPT !.ip = later, !.immediate = FALSE]
  BY DEF none
<1>11. later \in Nat /\ i + 1 <= later
  <2>1. (i - s.anchor) \div 2 ^ kSearchStrength \in Nat
    <3>1. 2 ^ kSearchStrength \in Nat /\ 2 ^ kSearchStrength > 0
      BY DEF kSearchStrength
    <3> QED
      BY <1>2, <3>1
  <2>2. StepSize \in Nat /\ StepSize >= 1
    BY SizesAssumption
  <2> DEFINE x == (i - s.anchor) \div 2 ^ kSearchStrength
  <2> HIDE DEF x
  <2>3. x \in Nat /\ later = i + x + (IF dfast THEN 1 ELSE StepSize)
    BY <2>1 DEF x
  <2> HIDE DEF later
  <2> QED
    BY <2>2, <2>3
<1> HIDE DEF later
<1>12. SearchInv(w, st, iend, sv, none) /\ ~none.immediate /\ none \in Found /\ ~none.wild
  <2>1. s.ip + 1 <= later /\ Spots(w, e.hash, s.ip + 1, iend) /\ Spots(w, e.chain, s.ip + 1, iend)
    BY <1>3, <1>11
  <2> DEFINE y == [e EXCEPT !.ip = later, !.immediate = FALSE]
  <2>2. SearchInv(w, st, iend, sv, y) /\ ~y.immediate /\ y \in Found /\ ~y.wild
    BY <1>3, <1>11, <2>1, NoneKeeps
  <2> HIDE DEF y
  <2>3. y = none
    BY <1>10 DEF y
  <2> QED
    BY <2>2, <2>3
<1>13. Spots(w, e.hash, i + 2, iend) /\ Spots(w, e.chain, i + 2, iend)
  <2>1. i + 2 \in Nat /\ i + 1 <= i + 2
    BY <1>2
  <2> QED
    BY <1>0, <1>2, <1>3, <2>1, SpotsLater
<1>14. CASE dfast /\ Match(jLong, 8, i)
  <2>1. t = Seen(t1, FALSE)
    BY <1>1, <1>8, <1>14
  <2>2. Good(Seen(t1, FALSE))
    BY <1>3, <1>5, <1>9, <1>13, <1>14 DEF t1
  <2> QED
    BY <2>1, <2>2 DEF t
<1>15. CASE ~(dfast /\ Match(jLong, 8, i)) /\ ~Match(jShort, 4, i)
  <2>1. t = Seen(none, FALSE)
    BY <1>1, <1>8, <1>15
  <2>2. Seen(none, FALSE) = none
    BY <1>12, Unwild
  <2> QED
    BY <1>12, <2>1, <2>2 DEF t
<1>16. CASE Match(jShort, 4, i) /\ dfast /\ ~Match(jLong, 8, i) /\ Match(next, 8, i + 1)
  <2>1. t = Seen(t2, FALSE)
    BY <1>1, <1>8, <1>16
  <2>2. Good(Seen(t2, FALSE))
    BY <1>4, <1>5, <1>9, <1>16 DEF t2
  <2> QED
    BY <2>1, <2>2 DEF t
<1>17. CASE /\ Match(jShort, 4, i) /\ ~(dfast /\ Match(jLong, 8, i))
            /\ ~(dfast /\ Match(next, 8, i + 1))
  <2>1. t = Seen(t3, FALSE)
    BY <1>1, <1>8, <1>17
  <2>2. Good(Seen(t3, FALSE))
    BY <1>3, <1>4, <1>5, <1>9, <1>13, <1>17 DEF t3
  <2> QED
    BY <2>1, <2>2 DEF t
<1> QED
  BY <1>14, <1>15, <1>16, <1>17

(* No turn of the search loop loses what was found.                        *)
LEMMA TurnKeeps ==
  ASSUME NEW w, NEW st, NEW iend, Ctx(w, st, iend), NEW sv, NEW s,
         SearchInv(w, st, iend, sv, s), NEW dfast \in BOOLEAN
  PROVE  SearchInv(w, st, iend, sv, Turn(s, mem, w, iend, dfast))
<1> DEFINE i == s.ip
           ilimit == iend - HASH_READ_SIZE
           RepMatch(k, offset) == RepUsable(w, k, offset) /\ Same(mem, w, k - offset, k, 4)
           swapped == [s EXCEPT !.o1 = s.o2, !.o2 = s.o1]
           Wild(k, offset) == RepUsable(w, k, offset) /\ ~Held(w, k - offset, 4, iend)
           again == s.immediate /\ i <= ilimit
           t == [s EXCEPT !.wild = @ \/ Wild(i + 1, s.o1) \/ (again /\ Wild(i, s.o2)),
                          !.immediate = TRUE]
           y1 == Repeated(swapped, mem, w, i, s.o2, iend)
           z1 == [Noted(y1, mem, w, i, dfast) EXCEPT !.wild = @ \/ Wild(i, s.o2)]
           y2 == Repeated(t, mem, w, i + 1, s.o1, iend)
           z2 == Filled(Noted(y2, mem, w, i, dfast), mem, w, i, iend, dfast)
           z3 == Filled(Proposed(t, mem, w, i, iend, dfast), mem, w, i, iend, dfast)
           z == Turn(s, mem, w, iend, dfast)
<1>1. z = IF again /\ RepMatch(i, s.o2) THEN z1
          ELSE IF i >= ilimit THEN s
          ELSE IF RepMatch(i + 1, s.o1) THEN z2 ELSE z3
  BY Zenon DEF Turn
<1> HIDE DEF z
<1>0. /\ st \in Nat /\ iend \in Nat /\ w.lowLimit \in Nat /\ w.dictLimit \in Nat
      /\ w.lowLimit <= w.dictLimit /\ w.dictLimit <= st /\ mem \in [Area -> Byte]
  BY Block DEF Ctx
<1>2. PICK r \in Triples : Tracked(w, st, iend, sv, s, r)
                           /\ (s.immediate => Behind(w, iend, sv, s, r))
  BY DEF SearchInv
<1>3. Steady(w, st, iend, s)
  BY DEF SearchInv
<1>4. /\ s \in Found /\ ~s.wild /\ i \in Nat /\ s.anchor \in Nat /\ s.o1 \in Nat /\ s.o2 \in Nat
      /\ st <= s.anchor /\ s.anchor <= i
      /\ Offset(w, s.o1, i, s.anchor) /\ Offset(w, s.o2, i, s.anchor)
  BY <1>3 DEF Steady, Found
<1> HIDE DEF z1, z2, z3, y1, y2, swapped, t
<1>5. ASSUME NEW k \in {i, i + 1}, k + 4 <= iend, NEW o \in {s.o1, s.o2}
      PROVE  ~Wild(k, o)
  <2>1. k \in Nat /\ i <= k /\ o \in Nat /\ Offset(w, o, i, s.anchor)
    BY <1>4
  <2> QED
    BY <1>4, <1>5, <2>1, RepHeld
<1>6. ilimit = iend - 8
  BY DEF HASH_READ_SIZE
<1> HIDE DEF Wild
<1>7. CASE again /\ RepMatch(i, s.o2)
  <2>1. i + 8 <= iend /\ i + 4 <= iend /\ i <= iend
    BY <1>0, <1>4, <1>6, <1>7
  <2>2. ~Wild(i, s.o2)
    BY <1>5, <2>1
  <2>3. Arrived(w, st, iend, sv, i, y1)
    BY <1>2, <1>3, <1>7, <2>1, AgainArrives DEF y1, swapped
  <2>4. w.dictLimit <= i /\ i < y1.ip
    <3>1. y1.ip \in Nat /\ y1.ip >= i + 4
      BY <2>3 DEF Arrived, Steady, Found
    <3> QED
      BY <1>0, <1>4, <3>1
  <2> DEFINE x == Noted(y1, mem, w, i, dfast)
  <2>5. Arrived(w, st, iend, sv, i, x)
    BY <1>4, <2>1, <2>3, <2>4, ArrivedNoted
  <2>6. z1 = [x EXCEPT !.wild = @ \/ Wild(i, s.o2)]
    BY DEF z1
  <2> HIDE DEF x
  <2>7. x \in Found /\ ~x.wild
    BY <2>5 DEF Arrived, Steady
  <2>8. z1 = x
    BY <2>2, <2>6, <2>7, Unwild
  <2>9. z = z1
    BY <1>1, <1>7
  <2> QED
    BY <2>5, <2>8, <2>9, ArrivedSearch DEF z
<1>8. CASE ~(again /\ RepMatch(i, s.o2)) /\ i >= ilimit
  BY <1>1, <1>8 DEF z
<1>9. CASE ~(again /\ RepMatch(i, s.o2)) /\ ~(i >= ilimit)
  <2>1. i + 8 < iend /\ i + 1 + 4 <= iend /\ i + 4 <= iend /\ i + 8 <= iend /\ i + 1 \in Nat
        /\ i < i + 1 /\ st <= i
    BY <1>0, <1>4, <1>6, <1>9
  <2>2. ~Wild(i, s.o2) /\ ~Wild(i + 1, s.o1)
    BY <1>5, <2>1
  <2>3. t = [s EXCEPT !.immediate = TRUE]
    <3> DEFINE b == s.wild \/ Wild(i + 1, s.o1) \/ (again /\ Wild(i, s.o2))
    <3>1. b = s.wild
      BY <1>4, <2>2 DEF Found
    <3>2. t = [s EXCEPT !.wild = b, !.immediate = TRUE]
      BY DEF t
    <3> HIDE DEF b
    <3>3. [s EXCEPT !.wild = s.wild, !.immediate = TRUE] = [s EXCEPT !.immediate = TRUE]
      BY <1>4 DEF Found
    <3> QED
      BY <3>1, <3>2, <3>3
  <2>4. Resembles(w, st, iend, s, t) /\ t.immediate
    BY <1>3, <2>3, SetImmediate
  <2>5. Tracked(w, st, iend, sv, t, r) /\ Steady(w, st, iend, t) /\ t.ip = i /\ t.o1 = s.o1
    BY <1>2, <2>4, SameTrack DEF Resembles
  <2>6. CASE RepMatch(i + 1, s.o1)
    <3> DEFINE k == i + 1
               y == Repeated(t, mem, w, k, t.o1, iend)
    <3>1. k \in Nat /\ k + 4 <= iend /\ t.ip < k
      BY <2>1, <2>5
    <3>2. RepUsable(w, k, s.o1) /\ Same(mem, w, k - s.o1, k, 4) /\ y2 = Repeated(t, mem, w, k, s.o1, iend)
      BY <2>6 DEF y2
    <3> HIDE DEF k
    <3>9. RepUsable(w, k, t.o1) /\ Same(mem, w, k - t.o1, k, 4) /\ y2 = y
      BY <2>5, <3>2
    <3>10. Arrived(w, st, iend, sv, k, y)
      BY <2>5, <3>1, <3>9, RepeatedArrives
    <3>3. Arrived(w, st, iend, sv, i + 1, y2)
      BY <3>9, <3>10 DEF k
    <3>4. y2.ip \in Nat /\ y2.ip >= i + 1 + 4
      BY <3>3 DEF Arrived, Steady, Found
    <3>5. w.dictLimit <= i /\ i < y2.ip /\ y2.ip >= i + 4
      BY <1>0, <1>4, <3>4
    <3>6. Arrived(w, st, iend, sv, i, y2)
      BY <3>3, <3>5 DEF Arrived
    <3> DEFINE x == Noted(y2, mem, w, i, dfast)
    <3>7. Arrived(w, st, iend, sv, i, x)
      BY <1>4, <2>1, <3>5, <3>6, ArrivedNoted
    <3>8. z = Filled(x, mem, w, i, iend, dfast)
      BY <1>1, <1>9, <2>6 DEF z2
    <3> HIDE DEF x
    <3> QED
      BY <1>4, <2>1, <3>7, <3>8, FilledKeeps DEF z
  <2>7. CASE ~RepMatch(i + 1, s.o1)
    <3> DEFINE x == Proposed(t, mem, w, i, iend, dfast)
    <3>1. \/ Arrived(w, st, iend, sv, i, x)
          \/ SearchInv(w, st, iend, sv, x) /\ ~x.immediate
      BY <1>4, <2>1, <2>4, <2>5, Proposal
    <3>2. z = Filled(x, mem, w, i, iend, dfast)
      BY <1>1, <1>9, <2>7 DEF z3
    <3> HIDE DEF x
    <3> QED
      BY <1>4, <2>1, <3>1, <3>2, FilledKeeps DEF z
  <2> QED
    BY <2>6, <2>7
<1> QED
  BY <1>7, <1>8, <1>9

(* Only the fast search leaves the table of short matches alone.           *)
HasChain(s, chain) == "chain" \in DOMAIN s /\ s["chain"] = chain
LEMMA TurnChain ==
  ASSUME NEW w, NEW iend, NEW s, NEW chain, HasChain(s, chain)
  PROVE  HasChain(Turn(s, mem, w, iend, FALSE), chain)
<1>1. ASSUME NEW x, HasChain(x, chain), NEW i PROVE HasChain(Noted(x, mem, w, i, FALSE), chain)
  BY <1>1 DEF HasChain, Noted
<1>2. ASSUME NEW x, HasChain(x, chain), NEW i, NEW j
      PROVE  HasChain(Taken(x, mem, w, i, j, iend), chain)
  BY <1>2 DEF HasChain, Taken
<1>3. ASSUME NEW x, HasChain(x, chain), NEW i, NEW o
      PROVE  HasChain(Repeated(x, mem, w, i, o, iend), chain)
  BY <1>3 DEF HasChain, Repeated
<1>4. ASSUME NEW x, HasChain(x, chain), NEW a, NEW b
      PROVE  /\ HasChain([x EXCEPT !.wild = a], chain)
             /\ HasChain([x EXCEPT !.immediate = a], chain)
             /\ HasChain([x EXCEPT !.wild = a, !.immediate = b], chain)
             /\ HasChain([x EXCEPT !.ip = a, !.immediate = b], chain)
             /\ HasChain([x EXCEPT !.o1 = a, !.o2 = b], chain)
  BY <1>4 DEF HasChain
<1>5. ASSUME NEW x, HasChain(x, chain), NEW i
      PROVE  HasChain(Proposed(x, mem, w, i, iend, FALSE), chain)
  <2> DEFINE e == [Noted(x, mem, w, i, FALSE) EXCEPT !.immediate = TRUE]
             none == [e EXCEPT !.ip = i + ((i - x.anchor) \div 2 ^ kSearchStrength) + StepSize,
                               !.immediate = FALSE]
             j == x.hash[Short(mem, w, i)]
             y == Taken(e, mem, w, i, j, iend)
  <2>1. \E a : Proposed(x, mem, w, i, iend, FALSE) \in {[none EXCEPT !.wild = a],
                                                        [y EXCEPT !.wild = a]}
    <3> DEFINE Match(n) == IndexUsable(w, j, FALSE) /\ Same(mem, w, j, i, n)
               Wild(n) == IndexUsable(w, j, FALSE) /\ ~Held(w, j, n, iend)
               a1 == none.wild \/ (Wild(4) \/ FALSE)
               a2 == y.wild \/ Wild(4)
    <3>1. Proposed(x, mem, w, i, iend, FALSE) =
            IF ~Match(4) THEN [none EXCEPT !.wild = a1] ELSE [y EXCEPT !.wild = a2]
      BY DEF Proposed
    <3> HIDE DEF none, y, a1, a2, Match, Wild
    <3> QED
      BY <3>1
  <2>2. HasChain(e, chain)
    BY <1>1, <1>4, <1>5
  <2> HIDE DEF e
  <2>3. HasChain(none, chain) /\ HasChain(y, chain)
    BY <1>2, <1>4, <2>2
  <2> HIDE DEF none, y
  <2>4. PICK a : Proposed(x, mem, w, i, iend, FALSE) \in {[none EXCEPT !.wild = a],
                                                        [y EXCEPT !.wild = a]}
    BY <2>1
  <2>5. HasChain([none EXCEPT !.wild = a], chain) /\ HasChain([y EXCEPT !.wild = a], chain)
    BY <1>4, <2>3
  <2> QED
    BY <2>4, <2>5
<1>6. ASSUME NEW x, HasChain(x, chain), NEW i
      PROVE  HasChain(Filled(x, mem, w, i, iend, FALSE), chain)
  <2>1. HasChain(Noted(Noted(x, mem, w, i + 2, FALSE), mem, w, x.ip - 2, FALSE), chain)
    BY <1>1, <1>6
  <2>2. HasChain([x EXCEPT !.immediate = FALSE], chain)
    BY <1>4, <1>6
  <2> QED
    BY <2>1, <2>2 DEF Filled
<1> DEFINE i == s.ip
           ilimit == iend - HASH_READ_SIZE
           RepMatch(k, offset) == RepUsable(w, k, offset) /\ Same(mem, w, k - offset, k, 4)
           swapped == [s EXCEPT !.o1 = s.o2, !.o2 = s.o1]
           Wild(k, offset) == RepUsable(w, k, offset) /\ ~Held(w, k - offset, 4, iend)
           again == s.immediate /\ i <= ilimit
           t == [s EXCEPT !.wild = @ \/ Wild(i + 1, s.o1) \/ (again /\ Wild(i, s.o2)),
                          !.immediate = TRUE]
           y1 == Repeated(swapped, mem, w, i, s.o2, iend)
           z1 == [Noted(y1, mem, w, i, FALSE) EXCEPT !.wild = @ \/ Wild(i, s.o2)]
           y2 == Repeated(t, mem, w, i + 1, s.o1, iend)
           z2 == Filled(Noted(y2, mem, w, i, FALSE), mem, w, i, iend, FALSE)
           z3 == Filled(Proposed(t, mem, w, i, iend, FALSE), mem, w, i, iend, FALSE)
           z == Turn(s, mem, w, iend, FALSE)
<1>7. z = IF again /\ RepMatch(i, s.o2) THEN z1
          ELSE IF i >= ilimit THEN s
          ELSE IF RepMatch(i + 1, s.o1) THEN z2 ELSE z3
  BY Zenon DEF Turn
<1> HIDE DEF Wild, RepMatch, ilimit
<1>8. HasChain(swapped, chain) /\ HasChain(t, chain)
  BY <1>4
<1> HIDE DEF swapped, t, i
<1>9. HasChain(y1, chain) /\ HasChain(y2, chain)
  BY <1>3, <1>8
<1> HIDE DEF y1, y2
<1>10. HasChain(z1, chain) /\ HasChain(z2, chain) /\ HasChain(z3, chain)
  BY <1>1, <1>4, <1>5, <1>6, <1>8, <1>9
<1> HIDE DEF z1, z2, z3, z
<1>11. HasChain(z, chain)
  BY <1>7, <1>10
<1> QED
  BY <1>11 DEF z

\* The repeat offsets before a block that begins at index at, the compressor's and the
\* decoder's.
OffsetFits(o, at) == o \in Positive /\ o <= Larger(at, 4) /\ Within(o)
OffsetsAt(at) ==
  /\ OffsetFits(rep[1], at) /\ OffsetFits(rep[2], at)
  /\ decRep \in Triples
  /\ rep[1] = decRep[1]
  /\ rep[2] = decRep[2] \/ rep[2] = rep[1]

(* Offsets that reach out of the prefix are put aside, and the search      *)
(* begins.                                                                 *)
Started(w, st) ==
  LET Start(offset) == IF PutAside(w, st, offset) THEN 0 ELSE offset
  IN [ip |-> IF ~HasExtDict(w) /\ st = w.dictLimit THEN st + 1 ELSE st,
      o1 |-> Start(rep[1]), o2 |-> Start(rep[2])]
LEMMA StartedKeeps ==
  ASSUME NEW w, NEW st, NEW iend, Ctx(w, st, iend), OffsetsAt(st),
         NEW hash \in Table, NEW chain \in Table,
         Spots(w, hash, st, iend), Spots(w, chain, st, iend), NEW s,
         s = [ip |-> Started(w, st).ip, anchor |-> st,
              o1 |-> Started(w, st).o1, o2 |-> Started(w, st).o2,
              hash |-> hash, chain |-> chain, seqs |-> <<>>, wild |-> FALSE,
              immediate |-> FALSE]
  PROVE  SearchInv(w, st, iend, Saved(w, st), s)
<1> DEFINE sv == Saved(w, st)
           ip == Started(w, st).ip
           o1 == Started(w, st).o1
           o2 == Started(w, st).o2
<1>0. /\ st \in Nat /\ iend \in Nat /\ w.lowLimit \in Nat /\ w.dictLimit \in Nat
      /\ w.lowLimit <= w.dictLimit /\ w.dictLimit <= st /\ st < iend /\ iend <= EndOf(w)
      /\ EndOf(w) \in Nat /\ MaxDist \in Nat
  BY Block
<1>1. /\ rep[1] \in Nat /\ rep[1] > 0 /\ rep[1] <= Larger(st, 4) /\ Within(rep[1])
      /\ rep[2] \in Nat /\ rep[2] > 0 /\ rep[2] <= Larger(st, 4) /\ Within(rep[2])
      /\ decRep \in Triples /\ rep[1] = decRep[1]
      /\ rep[2] = decRep[2] \/ rep[2] = rep[1]
  BY DEF OffsetsAt, OffsetFits, Positive
<1>2. /\ ip \in Nat /\ st <= ip
      /\ o1 \in Nat /\ o2 \in Nat
  BY <1>0, <1>1 DEF Started
<1>3. Agrees(sv, decRep, o1, o2)
  BY <1>1 DEF Started, Saved, Agrees, Full
<1>4. Within(0)
  BY <1>0 DEF Within
<1>5. ASSUME NEW o \in Nat, o > 0, o <= Larger(st, 4), Within(o), NEW x,
             x = IF PutAside(w, st, o) THEN 0 ELSE o
      PROVE  Offset(w, x, ip, st)
  <2>1. ip = IF ~HasExtDict(w) /\ st = w.dictLimit THEN st + 1 ELSE st
    BY DEF Started
  <2>2. CASE PutAside(w, st, o)
    <3>1. x = 0 /\ ~HasExtDict(w) /\ 0 <= Larger(st, 4)
      BY <1>0, <1>5, <2>2 DEF PutAside, Larger
    <3> QED
      BY <1>4, <3>1 DEF Offset
  <2>3. CASE ~PutAside(w, st, o)
    <3>1. x = o /\ (~HasExtDict(w) => o <= (IF st = w.dictLimit THEN st + 1 ELSE st) - w.dictLimit)
      BY <1>0, <1>5, <2>3 DEF PutAside
    <3> HIDE DEF ip
    <3>2. ~HasExtDict(w) => ip - o >= w.dictLimit
      BY <1>0, <1>5, <2>1, <3>1
    <3> QED
      BY <1>5, <3>1, <3>2 DEF Offset
  <2> QED
    BY <2>2, <2>3
<1>6. Offset(w, o1, ip, st) /\ Offset(w, o2, ip, st)
  <2>1. /\ o1 = IF PutAside(w, st, rep[1]) THEN 0 ELSE rep[1]
        /\ o2 = IF PutAside(w, st, rep[2]) THEN 0 ELSE rep[2]
    BY DEF Started
  <2> HIDE DEF o1, o2, ip
  <2> QED
    BY <1>1, <1>5, <2>1
<1>7. Spots(w, hash, ip, iend) /\ Spots(w, chain, ip, iend)
  BY <1>0, <1>2, SpotsLater
<1> HIDE DEF ip, o1, o2
<1>8. /\ s \in Found /\ s.ip = ip /\ s.anchor = st /\ s.o1 = o1 /\ s.o2 = o2
      /\ s.hash = hash /\ s.chain = chain /\ s.seqs = <<>> /\ ~s.wild /\ ~s.immediate
  <2>1. s = [ip |-> ip, anchor |-> st, o1 |-> o1, o2 |-> o2,
             hash |-> hash, chain |-> chain, seqs |-> <<>>, wild |-> FALSE,
             immediate |-> FALSE]
    BY DEF ip, o1, o2
  <2>2. <<>> \in Seq(Sequence)
    OBVIOUS
  <2> QED
    BY <1>0, <1>2, <2>1, <2>2 DEF Found
<1>9. Steady(w, st, iend, s)
  BY <1>0, <1>2, <1>6, <1>7, <1>8 DEF Steady
<1>10. Encoded(w, st, iend, s.seqs, s.anchor, decRep)
  <2>1. Pos(w, st) \in Nat
    <3>1. w.lowLimit <= st /\ st < EndOf(w)
      BY <1>0
    <3> QED
      BY <1>0, <3>1, ByteHeld
  <2>2. At(w, st, decRep) \in Progress
    BY <1>1, <2>1 DEF At, Progress, Triples, Positive
  <2>3. Path(stream, Kept(w, iend), <<>>, At(w, st, decRep), At(w, st, decRep))
    BY <2>2, PathEmpty
  <2> QED
    BY <1>1, <1>8, <2>3 DEF Encoded
<1>11. Tracked(w, st, iend, sv, s, decRep)
  BY <1>3, <1>8, <1>10 DEF Tracked
<1> QED
  BY <1>1, <1>8, <1>9, <1>11 DEF SearchInv

\* What a search of the block from st to iend leaves: tables, offsets for the next block,
\* and sequences a decoder makes the block out of.
FoundIn(w, st, iend, f) ==
  /\ f.hash \in Table /\ f.chain \in Table /\ f.seqs \in Seq(Sequence)
  /\ f.wild = FALSE
  /\ Spots(w, f.hash, iend, iend) /\ Spots(w, f.chain, iend, iend)
  /\ OffsetFits(f.o1, iend) /\ OffsetFits(f.o2, iend)
  /\ \E r \in Triples, anchor \in st .. iend :
       /\ Encoded(w, st, iend, f.seqs, anchor, r)
       /\ f.o1 = r[1]
       /\ f.o2 = r[2] \/ f.o2 = f.o1

\* An offset put aside is put back.
Restored(w, st, o) == IF ~HasExtDict(w) /\ o = 0 THEN Saved(w, st) ELSE o

FoundFrom(w, st, iend, s, f) == FoundIn(w, st, iend, f) /\ f.chain = s.chain

\* When the search is over, what it found and the offsets put back.
LEMMA EndedFound ==
  ASSUME NEW w, NEW st, NEW iend, Ctx(w, st, iend), OffsetsAt(st), NEW s,
         SearchInv(w, st, iend, Saved(w, st), s), NEW f,
         f = [s EXCEPT !.o1 = Restored(w, st, s.o1), !.o2 = Restored(w, st, s.o2)]
  PROVE  FoundFrom(w, st, iend, s, f)
<1> DEFINE sv == Saved(w, st)
           OrSaved(offset) == IF ~HasExtDict(w) /\ offset = 0 THEN sv ELSE offset
           o1 == OrSaved(s.o1)
           o2 == OrSaved(s.o2)
<1>0. /\ st \in Nat /\ iend \in Nat /\ w.lowLimit \in Nat /\ w.dictLimit \in Nat
      /\ w.lowLimit <= w.dictLimit /\ w.dictLimit <= st /\ st < iend
  BY Block
<1>1. f = [s EXCEPT !.o1 = o1, !.o2 = o2]
  BY DEF Restored
<1>2. Steady(w, st, iend, s)
  BY DEF SearchInv
<1>3. PICK r \in Triples : Tracked(w, st, iend, sv, s, r)
  BY DEF SearchInv
<1>4. /\ s \in Found /\ s.ip \in Nat /\ s.anchor \in Nat /\ s.o1 \in Nat /\ s.o2 \in Nat
      /\ s.hash \in Table /\ s.chain \in Table /\ s.seqs \in Seq(Sequence) /\ s.wild = FALSE
      /\ st <= s.anchor /\ s.anchor <= iend
      /\ Spots(w, s.hash, s.ip, iend) /\ Spots(w, s.chain, s.ip, iend)
      /\ Offset(w, s.o1, s.ip, s.anchor) /\ Offset(w, s.o2, s.ip, s.anchor)
  BY <1>2 DEF Steady, Found
<1>5. ASSUME NEW table \in Table, Spots(w, table, s.ip, iend) PROVE Spots(w, table, iend, iend)
  <2>1. \A h \in 0 .. HashSize - 1 : table[h] \in Nat
    BY DEF Table
  <2> QED
    BY <1>0, <1>4, <1>5, <2>1 DEF Spots, Spot
<1>6. /\ r[1] \in Positive /\ r[2] \in Positive
      /\ Full(sv, s.o1) = r[1]
      /\ Full(sv, s.o2) = r[2] \/ Full(sv, s.o2) = Full(sv, s.o1)
      /\ Encoded(w, st, iend, s.seqs, s.anchor, r)
  BY <1>3 DEF Tracked, Agrees, Triples
<1>7. ASSUME NEW o \in Nat, Offset(w, o, s.ip, s.anchor), Full(sv, o) \in Positive
      PROVE  OrSaved(o) = Full(sv, o) /\ OffsetFits(OrSaved(o), iend)
  <2>1. OrSaved(o) = Full(sv, o)
    BY <1>7 DEF Full, Offset
  <2>2. CASE o = 0
    <3>1. Full(sv, o) = sv /\ sv # 0
      BY <1>7, <2>2 DEF Full, Positive
    <3> HIDE DEF sv
    <3>2. sv \in {rep[1], rep[2]}
      BY <3>1 DEF sv, Saved
    <3>3. OffsetFits(sv, st)
      BY <3>2 DEF OffsetsAt
    <3>4. OffsetFits(sv, iend)
      BY <1>0, <3>3 DEF OffsetFits, Positive, Larger
    <3> QED
      BY <2>1, <3>1, <3>4
  <2>3. CASE o # 0
    <3>1. o <= Larger(iend, 4)
      BY <1>0, <1>4, <1>7 DEF Offset, Larger
    <3>2. OffsetFits(o, iend)
      BY <1>7, <2>3, <3>1 DEF OffsetFits, Positive, Offset
    <3>3. OrSaved(o) = o
      BY <2>3
    <3> QED
      BY <2>1, <3>2, <3>3
  <2> QED
    BY <2>2, <2>3
<1> HIDE DEF sv
<1>8. /\ o1 = r[1] /\ (o2 = r[2] \/ o2 = o1)
      /\ OffsetFits(o1, iend) /\ OffsetFits(o2, iend)
  BY <1>4, <1>6, <1>7
<1> HIDE DEF o1, o2
<1>9. /\ f.o1 = o1 /\ f.o2 = o2 /\ f.hash = s.hash /\ f.chain = s.chain /\ f.seqs = s.seqs
      /\ f.wild = s.wild
  BY <1>1, <1>4 DEF Found
<1>10. s.anchor \in st .. iend
  BY <1>0, <1>4
<1> QED
  BY <1>4, <1>5, <1>6, <1>8, <1>9, <1>10 DEF FoundIn, FoundFrom

(* ZSTD1_compressBlock_fast and _doubleFast, from a state the block before *)
(* left.                                                                   *)
LEMMA Searched ==
  ASSUME NEW w, NEW st, NEW iend, Ctx(w, st, iend), OffsetsAt(st),
         NEW hash \in Table, NEW chain \in Table,
         Spots(w, hash, st, iend), Spots(w, chain, st, iend), NEW dfast \in BOOLEAN
  PROVE  LET f == Search(mem, w, hash, chain, st, iend, dfast)
         IN FoundIn(w, st, iend, f) /\ (~dfast => f.chain = chain)
<1> DEFINE n == iend - st
           sv == Saved(w, st)
           Start(offset) == IF PutAside(w, st, offset) THEN 0 ELSE offset
           start == [ip |-> IF ~HasExtDict(w) /\ st = w.dictLimit THEN st + 1 ELSE st,
                     anchor |-> st, o1 |-> Start(rep[1]), o2 |-> Start(rep[2]),
                     hash |-> hash, chain |-> chain, seqs |-> <<>>, wild |-> FALSE,
                     immediate |-> FALSE]
           Upto[k \in 0 .. n] == IF k = 0 THEN start ELSE Turn(Upto[k - 1], mem, w, iend, dfast)
           end == Upto[n]
           OrSaved(offset) ==
             IF ~HasExtDict(w) /\ offset = 0 THEN Saved(w, st) ELSE offset
           f == Search(mem, w, hash, chain, st, iend, dfast)
           S == {s \in Found : SearchInv(w, st, iend, sv, s) /\ (~dfast => HasChain(s, chain))}
<1>1. f = [end EXCEPT !.o1 = OrSaved(@), !.o2 = OrSaved(@)]
  BY DEF Search
<1> HIDE DEF f
<1>2. n \in Nat
  BY Block
<1>3. start \in S
  <2>1. start = [ip |-> Started(w, st).ip, anchor |-> st,
                 o1 |-> Started(w, st).o1, o2 |-> Started(w, st).o2,
                 hash |-> hash, chain |-> chain, seqs |-> <<>>, wild |-> FALSE,
                 immediate |-> FALSE]
    BY DEF Started
  <2>2. HasChain(start, chain)
    BY DEF HasChain
  <2> HIDE DEF start
  <2>3. SearchInv(w, st, iend, sv, start)
    BY <2>1, StartedKeeps
  <2> QED
    BY <2>2, <2>3 DEF SearchInv, Steady
<1> HIDE DEF start, n
<1> DEFINE step == [x \in (1 .. n) \X S |-> Turn(x[2], mem, w, iend, dfast)]
<1>4. step \in [(1 .. n) \X S -> S]
  <2>1. ASSUME NEW s \in S PROVE Turn(s, mem, w, iend, dfast) \in S
    <3> DEFINE t == Turn(s, mem, w, iend, dfast)
    <3>1. SearchInv(w, st, iend, sv, t)
      BY TurnKeeps
    <3>2. ASSUME ~dfast PROVE HasChain(t, chain)
      <4>1. dfast = FALSE /\ HasChain(s, chain)
        BY <3>2
      <4> QED
        BY <4>1, TurnChain
    <3> HIDE DEF t
    <3> QED
      BY <3>1, <3>2 DEF SearchInv, Steady, t
  <2> HIDE DEF S
  <2> QED
    BY <2>1
<1>12. \A x \in (1 .. n) \X S : step[x] = Turn(x[2], mem, w, iend, dfast)
  OBVIOUS
<1> HIDE DEF S, step
<1>5. PICK h \in [0 .. n -> S] :
        h[0] = start /\ \A k \in 1 .. n : h[k] = step[<<k, h[k - 1]>>]
  <2>1. Recursion(n, S, start, step)
    BY <1>2, <1>3, <1>4, RecursionExists
  <2> QED
    BY <2>1 DEF Recursion
<1>6. Upto = [k \in 0 .. n |-> IF k = 0 THEN start ELSE Turn(Upto[k - 1], mem, w, iend, dfast)]
  <2>1. ASSUME NEW k \in 0 .. n
        PROVE  h[k] = IF k = 0 THEN start ELSE Turn(h[k - 1], mem, w, iend, dfast)
    <3>1. CASE k = 0
      BY <1>5, <3>1
    <3>2. CASE k # 0
      <4>1. k \in 1 .. n /\ k - 1 \in 0 .. n
        BY <1>2, <3>2
      <4>2. h[k] = step[<<k, h[k - 1]>>] /\ h[k - 1] \in S
        BY <1>5, <4>1
      <4> DEFINE s == h[k - 1]
      <4>3. <<k, s>> \in (1 .. n) \X S /\ <<k, s>>[2] = s
        BY <4>1, <4>2
      <4> HIDE DEF s
      <4>4. step[<<k, s>>] = Turn(s, mem, w, iend, dfast)
        BY <1>12, <4>3
      <4> QED
        BY <3>2, <4>2, <4>4 DEF s
    <3> QED
      BY <3>1, <3>2
  <2>2. h = [k \in 0 .. n |-> IF k = 0 THEN start ELSE Turn(h[k - 1], mem, w, iend, dfast)]
    BY <1>5, <2>1
  <2> QED
    BY <2>2
<1> HIDE DEF Upto
<1>7. \A k \in 0 .. n : Upto[k] \in S
  <2> DEFINE Z == {k \in 0 .. n : Upto[k] \in S}
  <2>1. 0 \in Z
    BY <1>2, <1>3, <1>6
  <2>2. ASSUME NEW k \in 1 .. n, k - 1 \in Z PROVE k \in Z
    <3>1. k \in 0 .. n /\ k # 0 /\ Upto[k] = Turn(Upto[k - 1], mem, w, iend, dfast)
      BY <1>2, <1>6
    <3> DEFINE s == Upto[k - 1]
    <3>2. s \in S /\ <<k, s>> \in (1 .. n) \X S /\ <<k, s>>[2] = s
      BY <2>2
    <3> HIDE DEF s
    <3>3. step[<<k, s>>] = Turn(s, mem, w, iend, dfast) /\ step[<<k, s>>] \in S
      BY <1>4, <1>12, <3>2
    <3> QED
      BY <3>1, <3>3 DEF s
  <2> HIDE DEF Z
  <2>3. \A k \in 0 .. n : k \in Z
    BY <1>2, <2>1, <2>2, Along
  <2> QED
    BY <2>3 DEF Z
<1>8. end \in S
  BY <1>2, <1>7
<1> HIDE DEF end
<1>11. f = [end EXCEPT !.o1 = Restored(w, st, end.o1), !.o2 = Restored(w, st, end.o2)]
  BY <1>1 DEF Restored
<1>9. SearchInv(w, st, iend, Saved(w, st), end) /\ (~dfast => end.chain = chain)
  BY <1>8 DEF S, HasChain
<1>10. FoundIn(w, st, iend, f) /\ f.chain = end.chain
  <2>1. FoundFrom(w, st, iend, end, f)
    BY <1>9, <1>11, EndedFound
  <2> QED
    BY <2>1 DEF FoundFrom
<1> QED
  BY <1>9, <1>10 DEF f

-----------------------------------------------------------------------------
\* The tables a dictionary is noted in.

Filling(table, from, end, filled) ==
  /\ filled \in Table
  /\ \A h \in 0 .. HashSize - 1 :
       filled[h] = table[h] \/ (from <= filled[h] /\ filled[h] + 8 <= end)
FillsBoth(hash, chain, from, end, dfast, f) ==
  /\ Filling(hash, from, end, f.hash) /\ Filling(chain, from, end, f.chain)
  /\ ~dfast => f.chain = chain

(* ZSTD1_fillHashTable and ZSTD1_fillDoubleHashTable note nothing but      *)
(* positions of the dictionary, eight bytes before its end.                *)
LEMMA FilledBoth ==
  ASSUME NEW m \in [Area -> Byte], NEW w, NEW from \in Nat, NEW end \in Nat,
         NEW dfast \in BOOLEAN, NEW hash \in Table, NEW chain \in Table
  PROVE  FillsBoth(hash, chain, from, end, dfast,
                   FilledTables([hash |-> hash, chain |-> chain], m, w, from, end, dfast))
<1> DEFINE t == [hash |-> hash, chain |-> chain]
           n == 3 * ((end - HASH_READ_SIZE - from + 1) \div 3)
           First(k) == (k - 1) % 3 = 0
           Put(table, h, k) ==
             IF First(k) \/ table[h] = 0 THEN [table EXCEPT ![h] = from + k - 1] ELSE table
           One(k, s) ==
             LET i == from + k - 1
             IN IF dfast
                THEN [hash |-> Put(s.hash, Long(m, w, i), k),
                      chain |-> IF First(k) THEN Put(s.chain, Short(m, w, i), k) ELSE s.chain]
                ELSE [s EXCEPT !.hash = Put(s.hash, Short(m, w, i), k)]
           Upto[k \in 0 .. n] == IF k = 0 THEN t ELSE One(k, Upto[k - 1])
           f == FilledTables(t, m, w, from, end, dfast)
           S == {s \in [hash : Table, chain : Table] :
                   FillsBoth(hash, chain, from, end, dfast, s)}
<1>1. f = IF n > 0 THEN Upto[n] ELSE t
  BY DEF FilledTables
<1> HIDE DEF f
<1>2. t \in S
  BY DEF FillsBoth, Filling
<1> HIDE DEF t
<1>3. CASE ~(n > 0)
  BY <1>1, <1>2, <1>3 DEF f, t
<1>4. CASE n > 0
  <2>1. n \in Nat /\ \A k \in 1 .. n : from + k - 1 \in Nat /\ from + k - 1 + 8 <= end
                                       /\ from <= from + k - 1
    <3> DEFINE x == end - 8 - from + 1
               d == x \div 3
    <3>1. x \in Int /\ n = 3 * d
      BY DEF HASH_READ_SIZE
    <3>2. d \in Int /\ 3 * d <= x
      <4> HIDE DEF x
      <4> QED
        BY <3>1
    <3> HIDE DEF d, n
    <3> QED
      BY <1>4, <3>1, <3>2
  <2> HIDE DEF n
  <2>2. ASSUME NEW k \in 1 .. n, NEW old \in Table, NEW table,
               Filling(old, from, end, table), NEW h \in 0 .. HashSize - 1
        PROVE  Filling(old, from, end, Put(table, h, k))
    <3> DEFINE i == from + k - 1
    <3>1. i \in Nat /\ i + 8 <= end /\ from <= i
      BY <2>1
    <3> HIDE DEF i
    <3>2. Filling(old, from, end, [table EXCEPT ![h] = i])
      BY <2>2, <3>1 DEF Filling, Table
    <3>3. Put(table, h, k) \in {table, [table EXCEPT ![h] = i]}
      BY DEF i
    <3> HIDE DEF Put
    <3> QED
      BY <2>2, <3>2, <3>3
  <2> HIDE DEF Put, First
  <2>3. ASSUME NEW k \in 1 .. n, NEW s \in S PROVE One(k, s) \in S
    <3> DEFINE i == from + k - 1
    <3>1. Long(m, w, i) \in 0 .. HashSize - 1 /\ Short(m, w, i) \in 0 .. HashSize - 1
      BY HashPlace
    <3> HIDE DEF i
    <3>2. /\ s \in [hash : Table, chain : Table]
          /\ Filling(hash, from, end, s.hash) /\ Filling(chain, from, end, s.chain)
          /\ ~dfast => s.chain = chain
      BY DEF FillsBoth
    <3> DEFINE a == Put(s.hash, Long(m, w, i), k)
               b == Put(s.hash, Short(m, w, i), k)
               c == Put(s.chain, Short(m, w, i), k)
    <3>3. /\ Filling(hash, from, end, a) /\ Filling(hash, from, end, b)
          /\ Filling(chain, from, end, c)
      BY <2>2, <3>1, <3>2
    <3>4. One(k, s) = IF dfast THEN [hash |-> a, chain |-> IF First(k) THEN c ELSE s.chain]
                      ELSE [s EXCEPT !.hash = b]
      BY DEF i
    <3> HIDE DEF a, b, c, One
    <3>5. a \in Table /\ b \in Table /\ c \in Table /\ s.chain \in Table
      BY <3>2, <3>3 DEF Filling
    <3>6. CASE dfast
      <4> DEFINE y == IF First(k) THEN c ELSE s.chain
      <4>1. y \in Table /\ Filling(chain, from, end, y)
        BY <3>2, <3>3, <3>5
      <4>2. One(k, s) = [hash |-> a, chain |-> y]
        BY <3>4, <3>6
      <4> HIDE DEF y
      <4> QED
        BY <3>3, <3>5, <3>6, <4>1, <4>2 DEF FillsBoth
    <3>7. CASE ~dfast
      <4>1. One(k, s) = [s EXCEPT !.hash = b]
        BY <3>4, <3>7
      <4> QED
        BY <3>2, <3>3, <3>5, <3>7, <4>1 DEF FillsBoth
    <3> QED
      BY <3>6, <3>7
  <2> HIDE DEF S, One
  <2> DEFINE step == [x \in (1 .. n) \X S |-> One(x[1], x[2])]
  <2>4. /\ step \in [(1 .. n) \X S -> S]
        /\ \A k \in 1 .. n, s \in S : step[<<k, s>>] = One(k, s)
    BY <2>3
  <2> HIDE DEF step
  <2>5. Recursion(n, S, t, step)
    BY <1>2, <2>1, <2>4, RecursionExists
  <2>6. PICK h \in [0 .. n -> S] :
          h[0] = t /\ \A k \in 1 .. n : h[k] = step[<<k, h[k - 1]>>]
    BY <2>5 DEF Recursion
  <2>7. Upto = [k \in 0 .. n |-> IF k = 0 THEN t ELSE One(k, Upto[k - 1])]
    <3>1. ASSUME NEW k \in 0 .. n PROVE h[k] = IF k = 0 THEN t ELSE One(k, h[k - 1])
      <4>1. CASE k = 0
        BY <2>6, <4>1
      <4>2. CASE k # 0
        <5>1. k \in 1 .. n /\ k - 1 \in 0 .. n
          BY <2>1, <4>2
        <5> QED
          BY <2>4, <2>6, <4>2, <5>1
      <4> QED
        BY <4>1, <4>2
    <3>2. h = [k \in 0 .. n |-> IF k = 0 THEN t ELSE One(k, h[k - 1])]
      BY <2>6, <3>1
    <3> QED
      BY <3>2
  <2> HIDE DEF Upto
  <2>8. \A k \in 0 .. n : Upto[k] \in S
    <3> DEFINE Z == {k \in 0 .. n : Upto[k] \in S}
    <3>1. 0 \in Z
      BY <1>2, <2>1, <2>7
    <3>2. ASSUME NEW k \in 1 .. n, k - 1 \in Z PROVE k \in Z
      <4>1. k \in 0 .. n /\ k # 0 /\ Upto[k] = One(k, Upto[k - 1])
        BY <2>1, <2>7
      <4> QED
        BY <2>3, <3>2, <4>1
    <3> HIDE DEF Z
    <3>3. \A k \in 0 .. n : k \in Z
      BY <2>1, <3>1, <3>2, Along
    <3> QED
      BY <3>3 DEF Z
  <2>9. f \in S
    BY <1>1, <1>4, <2>1, <2>8
  <2> QED
    BY <2>9 DEF S, f, t
<1> QED
  BY <1>3, <1>4

-----------------------------------------------------------------------------
\* The state between blocks.

\* What the tables hold, and the offsets, are fit for a search from Reached on.
TablesFit ==
  /\ hashTable \in Table /\ chainTable \in Table
  /\ Spots(window, hashTable, Reached, Reached) /\ Spots(window, chainTable, Reached, Reached)
  /\ strategy # "dfast" => chainTable = EmptyTable
\* Where the frame is.
Marks ==
  /\ window.dictLimit <= Reached
  /\ HasExtDict(window) => Reached >= 4
  /\ dictSize \in Nat /\ dictSize <= Len(stream) /\ todo <= Len(stream) - dictSize
  /\ loadedDictEnd <= Reached
  /\ loadedDictEnd # 0 => loadedDictEnd + Len(stream) = End + dictSize
  /\ nextToUpdate \in Nat /\ nextToUpdate <= Reached + 1
\* The last block's sequences are a path through the stream.
BlockKept(b) == ~forced /\ b.end - dictSize <= MaxDist
BlockMade(b) ==
  /\ b.wild = FALSE /\ b.seqs \in Seq(Sequence)
  /\ b.start \in Nat /\ b.end \in Nat /\ b.start <= b.end /\ b.end <= Len(stream)
  /\ \E e \in Progress :
       /\ e.at <= b.end
       /\ Path(stream, BlockKept(b), b.seqs, [at |-> b.start, rep |-> b.decRep], e)
\* What no search depends on.
Kinds ==
  /\ strategy \in Strategies \cup {"none"} /\ forced \in BOOLEAN
  /\ calls \in 0 .. MaxCalls

SInv ==
  /\ IInv
  /\ TablesFit
  /\ OffsetsAt(Reached)
  /\ Marks
  /\ BlockMade(block)
  /\ Kinds

(* The invariant says what the runs check.                                 *)
LEMMA SInvRegenerates == SInv => Regenerates
<1> SUFFICES ASSUME SInv PROVE Regenerates
  OBVIOUS
<1>1. /\ block.wild = FALSE /\ block.seqs \in Seq(Sequence)
      /\ block.start \in Nat /\ block.start <= Len(stream) /\ stream \in Seq(Byte)
      /\ block.end \in Nat
  BY DEF SInv, BlockMade, IInv
<1>2. PICK e \in Progress :
        /\ e.at <= block.end
        /\ Path(stream, BlockKept(block), block.seqs,
                [at |-> block.start, rep |-> block.decRep], e)
  BY DEF SInv, BlockMade
<1> DEFINE d == Decoded(block)
<1>3. /\ d = [out |-> SubSeq(stream, 1, e.at), rep |-> e.rep, ok |-> TRUE]
      /\ e.at \in Nat /\ e.at <= Len(stream)
  BY <1>1, <1>2, Made DEF BlockKept
<1> HIDE DEF d
<1>4. Len(SubSeq(stream, 1, e.at)) = e.at
  BY <1>1, <1>3
<1>5. d.ok /\ d.out = SubSeq(stream, 1, Len(d.out)) /\ Len(d.out) <= block.end
  BY <1>2, <1>3, <1>4
<1> QED
  BY <1>1, <1>5 DEF Regenerates, d

LEMMA SInvTypeOK == SInv => TypeOK
<1> SUFFICES ASSUME SInv PROVE TypeOK
  OBVIOUS
<1>1. /\ mem \in [Area -> Byte] /\ stream \in Seq(Byte)
      /\ IsWindow(window) /\ todo \in 0 .. End
      /\ loadedDictEnd \in Nat
  BY DEF SInv, IInv, Near
<1>2. /\ window.lowLimit \in Nat /\ window.dictLimit \in Nat /\ End \in Nat
      /\ window.lowLimit <= window.dictLimit /\ window.dictLimit <= End
      /\ Reached = End - todo /\ Reached \in Nat
  BY <1>1, Limits DEF IsWindow, End, Reached
<1>3. /\ window.dictLimit <= Reached
      /\ dictSize \in Nat /\ dictSize <= Len(stream) /\ todo <= Len(stream) - dictSize
      /\ loadedDictEnd <= Reached
      /\ nextToUpdate \in Nat /\ nextToUpdate <= Reached + 1
  BY DEF SInv, Marks
<1>4. ASSUME NEW table \in {hashTable, chainTable}
      PROVE  /\ DOMAIN table = 0 .. HashSize - 1
             /\ \A h \in DOMAIN table : table[h] \in 0 .. Larger(Reached - 1, 0)
  <2>1. table \in Table /\ Spots(window, table, Reached, Reached)
    BY DEF SInv, TablesFit
  <2>2. \A h \in 0 .. HashSize - 1 : table[h] \in Nat /\ Spot(window, table[h], Reached, Reached)
    BY <2>1 DEF Table, Spots
  <2>3. ASSUME NEW t \in Nat, Spot(window, t, Reached, Reached)
        PROVE  t \in 0 .. Larger(Reached - 1, 0)
    <3>1. t < Reached \/ t = 0
      BY <1>2, <1>3, <2>3 DEF Spot
    <3> QED
      BY <1>2, <3>1 DEF Larger
  <2> QED
    BY <2>1, <2>2, <2>3 DEF Table
<1>5. \A k \in 1 .. 2 : rep[k] > 0
  <2>1. rep[1] \in Positive /\ rep[2] \in Positive
    BY DEF SInv, OffsetsAt, OffsetFits
  <2>2. \A k \in 1 .. 2 : k = 1 \/ k = 2
    OBVIOUS
  <2> QED
    BY <2>1, <2>2 DEF Positive
<1>6. Len(stream) \in Nat
  BY <1>1
<1>7. /\ dictSize \in 0 .. Len(stream)
      /\ window.lowLimit \in 0 .. window.dictLimit /\ window.dictLimit \in 0 .. End
      /\ todo \in 0 .. Len(stream) - dictSize
      /\ nextToUpdate \in 0 .. Reached + 1 /\ loadedDictEnd \in 0 .. Reached
  BY <1>1, <1>2, <1>3, <1>6
<1>8. Kinds
  BY DEF SInv
<1> QED
  BY <1>1, <1>4, <1>5, <1>7, <1>8 DEF TypeOK, Kinds

(* A frame begins with the offsets of the format.                          *)
LEMMA FirstOffsets ==
  ASSUME rep = <<1, 4>>, decRep = <<1, 4, 8>>, NEW at \in Nat
  PROVE  OffsetsAt(at)
<1>1. MaxDist >= 4 /\ MaxDist \in Nat
  BY SizesAssumption
<1>2. rep[1] = 1 /\ rep[2] = 4 /\ decRep[1] = 1 /\ decRep[2] = 4 /\ decRep \in Triples
  BY DEF Triples, Positive
<1>3. OffsetFits(1, at) /\ OffsetFits(4, at)
  BY <1>1 DEF OffsetFits, Positive, Larger, Within
<1> QED
  BY <1>2, <1>3 DEF OffsetsAt

\* There is no block yet.
LEMMA NoBlockMade ==
  ASSUME stream \in Seq(Byte)
  PROVE  BlockMade(NoBlock)
<1> DEFINE a == [at |-> 0, rep |-> <<1, 4, 8>>]
<1>1. a \in Progress /\ a.at = 0
  BY DEF Progress
<1>2. Path(stream, BlockKept(NoBlock), <<>>, a, a)
  BY <1>1, PathEmpty
<1>3. <<>> \in Seq(Sequence) /\ Len(stream) \in Nat
  OBVIOUS
<1> QED
  BY <1>1, <1>2, <1>3 DEF BlockMade, NoBlock

LEMMA EmptyTables ==
  /\ EmptyTable \in Table
  /\ \A h \in 0 .. HashSize - 1 : EmptyTable[h] = 0
  BY DEF EmptyTable, Table

\* A compressor as memset leaves it.
LEMMA InitSInv == Init => SInv
<1> SUFFICES ASSUME Init PROVE SInv
  OBVIOUS
<1>1. IInv
  BY InitInv
<1>2. /\ window = NoWindow /\ EndOf(NoWindow) = 0 /\ NoWindow.lowLimit = 0
      /\ NoWindow.dictLimit = 0 /\ ~HasExtDict(NoWindow)
      /\ todo = 0 /\ End = 0 /\ Reached = 0
  BY DEF Init, NoWindow, EndOf, HasExtDict, End, Reached
<1>3. TablesFit
  BY <1>2, EmptyTables DEF Init, TablesFit, Spots, Spot
<1>4. OffsetsAt(Reached)
  BY <1>2, FirstOffsets DEF Init
<1>5. Marks
  <2>1. Len(<<>>) = 0
    OBVIOUS
  <2> QED
    BY <1>2, <2>1 DEF Init, Marks
<1>6. BlockMade(block)
  <2>1. block = NoBlock
    BY DEF Init
  <2> QED
    BY <1>1, <2>1, NoBlockMade DEF IInv
<1>7. Kinds
  <2>1. MaxCalls \in Nat
    BY SizesAssumption
  <2>2. 0 \in 0 .. MaxCalls
    BY <2>1
  <2> QED
    BY <2>2 DEF Init, Kinds
<1> QED
  BY <1>1, <1>3, <1>4, <1>5, <1>6, <1>7 DEF SInv

-----------------------------------------------------------------------------
\* Input brought in.

(* A new segment makes the prefix before it the dictionary segment, unless *)
(* it is too short to be searched.                                         *)
Follows(w, u) == u.dictLimit = w.dictLimit /\ u.lowLimit >= w.lowLimit
Apart(w, u) ==
  /\ u.dictLimit = EndOf(w) /\ u.lowLimit >= w.dictLimit
  /\ EndOf(w) - w.dictLimit < 8 => u.lowLimit = EndOf(w)
LEMMA UpdatedLimits ==
  ASSUME NEW w, IsWindow(w), NEW src \in Int, NEW size \in Nat
  PROVE  IF src = w.nextSrc THEN Follows(w, WindowUpdate(w, src, size))
         ELSE Apart(w, WindowUpdate(w, src, size))
<1> DEFINE x == IF src = w.nextSrc THEN w ELSE NewSegment(w, src)
           v == [x EXCEPT !.nextSrc = src + size]
           u == WithoutOverlap(v, src, size)
<1>1. /\ w.lowLimit \in Nat
      /\ w.dictLimit \in Nat
      /\ EndOf(w) \in Nat
      /\ w.lowLimit <= w.dictLimit
      /\ w.dictLimit <= EndOf(w)
  BY Limits DEF IsWindow
<1>2. /\ x \in Window
      /\ x.lowLimit <= x.dictLimit
      /\ src = w.nextSrc => x = w
      /\ src # w.nextSrc => /\ x.dictLimit = EndOf(w)
                            /\ x.lowLimit >= w.dictLimit
                            /\ EndOf(w) - w.dictLimit < 8 => x.lowLimit = EndOf(w)
  <2>1. CASE src = w.nextSrc
    BY <1>1, <2>1 DEF IsWindow
  <2>2. CASE src # w.nextSrc
    <3>1. x = NewSegment(w, src)
      BY <2>2
    <3> HIDE DEF x
    <3>2. x \in Window /\ x.dictLimit = EndOf(w) /\ x.lowLimit \in {w.dictLimit, EndOf(w)}
      BY <3>1, Segment
    <3> DEFINE low == IF EndOf(w) - w.dictLimit < HASH_READ_SIZE THEN EndOf(w) ELSE w.dictLimit
    <3>3. NewSegment(w, src) =
            [w EXCEPT !.lowLimit = low, !.dictLimit = EndOf(w), !.dictBase = w.base,
                      !.base = src - EndOf(w)]
      BY DEF NewSegment
    <3> HIDE DEF low
    <3>4. x.lowLimit = low
      BY <3>1, <3>3 DEF IsWindow, Window
    <3>5. EndOf(w) - w.dictLimit < 8 => low = EndOf(w)
      BY DEF low, HASH_READ_SIZE
    <3> QED
      BY <1>1, <2>2, <3>2, <3>4, <3>5
  <2> QED
    BY <2>1, <2>2
<1> HIDE DEF x
<1>3. v \in Window /\ v.lowLimit = x.lowLimit /\ v.dictLimit = x.dictLimit
  BY <1>2 DEF Window
<1> HIDE DEF v
<1>4. /\ u.dictLimit = v.dictLimit /\ u.lowLimit >= v.lowLimit /\ u.lowLimit <= u.dictLimit
      /\ u \in Window
  BY <1>2, <1>3, Overlap
<1>5. WindowUpdate(w, src, size) = u
  BY DEF WindowUpdate, v, x
<1> HIDE DEF u
<1>6. u.lowLimit \in Nat /\ x.lowLimit \in Nat
  BY <1>2, <1>4 DEF Window
<1>7. src = w.nextSrc => Follows(w, u)
  BY <1>1, <1>2, <1>3, <1>4 DEF Follows
<1>8. src # w.nextSrc => Apart(w, u)
  BY <1>1, <1>2, <1>3, <1>4, <1>6 DEF Apart
<1> QED
  BY <1>5, <1>7, <1>8

(* What the tables held is as good in the window then.                     *)
LEMMA UpdatedSpots ==
  ASSUME NEW w, IsWindow(w), NEW src \in Int, NEW size \in Nat, NEW table \in Table,
         Spots(w, table, EndOf(w), EndOf(w))
  PROVE  Spots(WindowUpdate(w, src, size), table, EndOf(w), EndOf(w))
<1> DEFINE u == WindowUpdate(w, src, size)
<1>1. /\ w.lowLimit \in Nat
      /\ w.dictLimit \in Nat
      /\ EndOf(w) \in Nat
      /\ w.lowLimit <= w.dictLimit
      /\ w.dictLimit <= EndOf(w)
  BY Limits DEF IsWindow
<1>2. Follows(w, u) \/ Apart(w, u)
  BY UpdatedLimits
<1>3. IsWindow(u)
  BY Updated
<1> HIDE DEF u
<1>4. u.lowLimit \in Nat /\ u.dictLimit \in Nat /\ u.lowLimit <= u.dictLimit
  BY <1>3, Limits DEF IsWindow
<1>5. \A h \in 0 .. HashSize - 1 : table[h] \in Nat
  BY DEF Table
<1>6. ASSUME NEW t \in Nat, Spot(w, t, EndOf(w), EndOf(w)) PROVE Spot(u, t, EndOf(w), EndOf(w))
  <2>1. CASE Follows(w, u)
    BY <1>1, <1>4, <1>6, <2>1 DEF Spot, Follows
  <2>2. CASE Apart(w, u)
    BY <1>1, <1>4, <1>6, <2>2 DEF Spot, Apart
  <2> QED
    BY <1>2, <2>1, <2>2
<1>7. Spots(u, table, EndOf(w), EndOf(w))
  BY <1>5, <1>6 DEF Spots
<1> QED
  BY <1>7 DEF u

\* Nothing is noted when input is brought in: what the tables hold is as good.
LEMMA AddChunkSInv ==
  ASSUME SInv, AddChunk
  PROVE  SInv'
<1>1. PICK data \in Chunks, place \in Places \cup {window.nextSrc} :
        /\ window' = WindowUpdate(window, place, Len(data))
        /\ nextToUpdate' = (IF place = window.nextSrc THEN nextToUpdate ELSE window'.dictLimit)
        /\ stream' = stream \o data
        /\ todo' = Len(data)
  BY DEF AddChunk
<1>2. /\ todo = 0 /\ calls < MaxCalls /\ calls' = calls + 1
      /\ loadedDictEnd' = loadedDictEnd
      /\ dictSize' = dictSize
      /\ forced' = forced
      /\ hashTable' = hashTable /\ chainTable' = chainTable /\ strategy' = strategy
      /\ rep' = rep /\ decRep' = decRep /\ block' = block
  BY DEF AddChunk
<1>3. /\ data \in Seq(Byte)
      /\ Len(data) \in Nat
      /\ Len(data) > 0
  BY MemoryAssumption
<1>4. IsWindow(window) /\ stream \in Seq(Byte) /\ loadedDictEnd \in Nat /\ IInv
  BY DEF SInv, IInv, Near
<1>5. /\ place \in Int
      /\ EndOf(window) \in Nat
      /\ window.lowLimit \in Nat
      /\ window.dictLimit \in Nat
      /\ window.lowLimit <= window.dictLimit
  BY <1>4, Limits, MemoryAssumption DEF IsWindow
<1>6. /\ IsWindow(window')
      /\ EndOf(window') = EndOf(window) + Len(data)
  BY <1>1, <1>3, <1>4, <1>5, Updated
<1>7. /\ window'.lowLimit \in Nat /\ window'.dictLimit \in Nat
      /\ window'.lowLimit <= window'.dictLimit /\ EndOf(window') \in Nat
  BY <1>6, Limits DEF IsWindow
<1>8. /\ End = EndOf(window) /\ Reached = EndOf(window)
      /\ End' = EndOf(window) + Len(data) /\ Reached' = EndOf(window)
  BY <1>1, <1>2, <1>3, <1>5, <1>6 DEF End, Reached
<1>9. IF place = window.nextSrc THEN Follows(window, window') ELSE Apart(window, window')
  BY <1>1, <1>3, <1>4, <1>5, UpdatedLimits
<1>10. IInv'
  BY <1>4, AddChunkInv
<1>11. TablesFit'
  <2>1. /\ hashTable \in Table /\ chainTable \in Table
        /\ Spots(window, hashTable, EndOf(window), EndOf(window))
        /\ Spots(window, chainTable, EndOf(window), EndOf(window))
        /\ strategy # "dfast" => chainTable = EmptyTable
    BY <1>8 DEF SInv, TablesFit
  <2>2. /\ Spots(window', hashTable, EndOf(window), EndOf(window))
        /\ Spots(window', chainTable, EndOf(window), EndOf(window))
    BY <1>1, <1>3, <1>4, <1>5, <2>1, UpdatedSpots
  <2> QED
    BY <1>2, <1>8, <2>1, <2>2 DEF TablesFit
<1>12. OffsetsAt(Reached)'
  <2>1. OffsetsAt(EndOf(window))
    BY <1>8 DEF SInv
  <2> QED
    BY <1>2, <1>8, <2>1 DEF OffsetsAt, OffsetFits, Within
<1>13. Marks'
  <2>1. /\ window.dictLimit <= EndOf(window)
        /\ HasExtDict(window) => EndOf(window) >= 4
        /\ dictSize \in Nat /\ dictSize <= Len(stream)
        /\ loadedDictEnd <= EndOf(window)
        /\ loadedDictEnd # 0 => loadedDictEnd + Len(stream) = EndOf(window) + dictSize
        /\ nextToUpdate \in Nat /\ nextToUpdate <= EndOf(window) + 1
    BY <1>8 DEF SInv, Marks
  <2>2. /\ Len(stream) \in Nat /\ Len(stream') = Len(stream) + Len(data)
        /\ Len(stream') \in Nat /\ Len(data) \in Nat
    BY <1>1, <1>3, <1>4
  <2>3. window'.dictLimit <= EndOf(window)
    BY <1>5, <1>9, <2>1 DEF Follows, Apart
  <2>4. HasExtDict(window') => EndOf(window) >= 4
    <3>1. CASE place = window.nextSrc
      BY <1>5, <1>7, <1>9, <2>1, <3>1 DEF Follows, HasExtDict
    <3>2. CASE place # window.nextSrc
      BY <1>5, <1>7, <1>9, <3>2 DEF Apart, HasExtDict
    <3> QED
      BY <3>1, <3>2
  <2>6. nextToUpdate' \in Nat /\ nextToUpdate' <= EndOf(window) + 1
    BY <1>1, <1>5, <1>7, <2>1, <2>3
  <2>7. /\ dictSize <= Len(stream') /\ todo' <= Len(stream') - dictSize
        /\ loadedDictEnd <= EndOf(window)
        /\ loadedDictEnd # 0 =>
             loadedDictEnd + Len(stream') = EndOf(window) + Len(data) + dictSize
    <3>1. todo' = Len(data)
      BY <1>1
    <3> DEFINE n == Len(data)
               l == Len(stream)
               e == EndOf(window)
    <3>2. n \in Nat /\ l \in Nat /\ e \in Nat /\ Len(stream') = l + n /\ todo' = n
      BY <1>5, <2>2, <3>1
    <3>3. /\ dictSize \in Nat /\ dictSize <= l /\ loadedDictEnd <= e /\ loadedDictEnd \in Nat
          /\ loadedDictEnd # 0 => loadedDictEnd + l = e + dictSize
      BY <1>4, <2>1
    <3> HIDE DEF n, l, e
    <3>4. dictSize <= l + n /\ n <= (l + n) - dictSize
      BY <3>2, <3>3
    <3>5. loadedDictEnd # 0 => loadedDictEnd + (l + n) = e + n + dictSize
      BY <3>2, <3>3
    <3> QED
      BY <3>2, <3>3, <3>4, <3>5 DEF n, l, e
  <2>8. /\ window'.dictLimit <= Reached'
        /\ HasExtDict(window') => Reached' >= 4
        /\ loadedDictEnd' <= Reached'
        /\ loadedDictEnd' # 0 => loadedDictEnd' + Len(stream') = End' + dictSize'
        /\ nextToUpdate' <= Reached' + 1
    BY <1>2, <1>4, <1>5, <1>7, <1>8, <2>1, <2>2, <2>3, <2>4, <2>6, <2>7
  <2>9. dictSize' \in Nat /\ dictSize' <= Len(stream') /\ todo' <= Len(stream') - dictSize'
    BY <1>2, <2>1, <2>2, <2>7
  <2> QED
    BY <2>6, <2>8, <2>9 DEF Marks
<1>14. BlockMade(block)'
  <2>1. /\ block.wild = FALSE /\ block.seqs \in Seq(Sequence)
        /\ block.start \in Nat /\ block.end \in Nat /\ block.start <= block.end
        /\ block.end <= Len(stream)
    BY DEF SInv, BlockMade
  <2>2. PICK e \in Progress :
          /\ e.at <= block.end
          /\ Path(stream, BlockKept(block), block.seqs,
                  [at |-> block.start, rep |-> block.decRep], e)
    BY DEF SInv, BlockMade
  <2>3. Path(stream \o data, BlockKept(block), block.seqs,
             [at |-> block.start, rep |-> block.decRep], e)
    BY <1>3, <1>4, <2>1, <2>2, PathStays
  <2>4. block.end <= Len(stream')
    BY <1>1, <1>3, <1>4, <2>1
  <2>5. BlockKept(block)' = BlockKept(block)
    BY <1>2 DEF BlockKept
  <2>6. Path(stream', BlockKept(block)', block'.seqs,
             [at |-> block'.start, rep |-> block'.decRep], e)
    BY <1>1, <1>2, <2>3, <2>5
  <2> QED
    BY <1>2, <2>1, <2>2, <2>4, <2>6 DEF BlockMade
<1>15. Kinds'
  <2>1. MaxCalls \in Nat /\ Kinds
    BY SizesAssumption DEF SInv
  <2> QED
    BY <1>2, <2>1 DEF Kinds
<1> QED
  BY <1>10, <1>11, <1>12, <1>13, <1>14, <1>15 DEF SInv

-----------------------------------------------------------------------------
\* A frame begins.

\* A frame, and its dictionary, begin behind a window that refers to nothing.
LEMMA FrameKeeps ==
  ASSUME SInv, NEW w, IsWindow(w), w.lowLimit = EndOf(w),
         NEW hash \in Table, NEW chain \in Table,
         Spots(w, hash, EndOf(w), EndOf(w)), Spots(w, chain, EndOf(w), EndOf(w)),
         Begin(w, [hash |-> hash, chain |-> chain]),
         strategy' \in Strategies \cup {"none"}, strategy' # "dfast" => chain = EmptyTable
  PROVE  SInv'
<1> DEFINE t == [hash |-> hash, chain |-> chain]
<1>1. /\ w.dictLimit = EndOf(w) /\ EndOf(w) \in Nat /\ w.lowLimit \in Nat
      /\ w.dictLimit \in Nat
  BY Limits DEF IsWindow
<1>2. /\ rep' = <<1, 4>> /\ decRep' = <<1, 4, 8>> /\ todo' = 0 /\ block' = NoBlock
      /\ calls < MaxCalls /\ calls' = calls + 1
  BY DEF Begin, NewFrame
<1>3. IInv'
  BY FrameBegins DEF SInv
<1>4. OffsetsAt(Reached)'
  <2>1. Reached' \in Nat
    <3>1. IsWindow(window') /\ todo' = 0
      BY <1>2, <1>3 DEF IInv
    <3> QED
      BY <3>1, Limits DEF Reached, End
  <2>2. MaxDist >= 4 /\ MaxDist \in Nat
    BY SizesAssumption
  <2>3. /\ rep'[1] = 1 /\ rep'[2] = 4 /\ decRep'[1] = 1 /\ decRep'[2] = 4
        /\ decRep' \in Triples
    BY <1>2 DEF Triples, Positive
  <2>4. Within(1)' /\ Within(4)'
    BY <2>2 DEF Within
  <2>5. /\ OffsetFits(1, Reached)' /\ OffsetFits(4, Reached)'
    BY <2>1, <2>4 DEF OffsetFits, Positive, Larger
  <2> QED
    BY <2>3, <2>5 DEF OffsetsAt, OffsetFits, Within
<1>5. BlockMade(block)'
  <2> DEFINE a == [at |-> 0, rep |-> <<1, 4, 8>>]
  <2>1. a \in Progress /\ a.at = 0
    BY DEF Progress
  <2>2. Path(stream', BlockKept(block)', <<>>, a, a)
    BY <2>1, PathEmpty
  <2>3. <<>> \in Seq(Sequence) /\ Len(stream') \in Nat
    BY <1>3 DEF IInv
  <2>4. /\ block'.start = 0 /\ block'.end = 0 /\ block'.seqs = <<>> /\ block'.wild = FALSE
        /\ block'.decRep = <<1, 4, 8>>
    BY <1>2 DEF NoBlock
  <2>5. /\ a.at <= block'.end
        /\ Path(stream', BlockKept(block)', block'.seqs,
                [at |-> block'.start, rep |-> block'.decRep], a)
    BY <2>1, <2>2, <2>4
  <2> HIDE DEF a
  <2> QED
    BY <2>1, <2>3, <2>4, <2>5 DEF BlockMade
<1>6. calls' \in 0 .. MaxCalls
  <2>1. MaxCalls \in Nat /\ calls \in 0 .. MaxCalls
    BY SizesAssumption DEF SInv, Kinds
  <2> QED
    BY <1>2, <2>1
<1>7. CASE Plain(w, t)
  <2>1. /\ window' = w /\ hashTable' = hash /\ chainTable' = chain
        /\ nextToUpdate' = w.dictLimit + 1 /\ loadedDictEnd' = 0
        /\ stream' = <<>> /\ dictSize' = 0 /\ forced' = FALSE
    BY <1>7 DEF Plain
  <2>2. End' = EndOf(w) /\ Reached' = EndOf(w)
    BY <1>1, <1>2, <2>1 DEF End, Reached
  <2>3. TablesFit'
    BY <2>1, <2>2 DEF TablesFit
  <2>4. Marks'
    <3>1. Len(<<>>) = 0 /\ ~HasExtDict(w)
      BY <1>1 DEF HasExtDict
    <3> QED
      BY <1>1, <1>2, <2>1, <2>2, <3>1 DEF Marks
  <2>5. Kinds'
    BY <1>6, <2>1 DEF Kinds
  <2> QED
    BY <1>3, <1>4, <1>5, <2>3, <2>4, <2>5 DEF SInv
<1>8. ASSUME NEW dict \in Dicts, NEW place \in Places \cup {w.nextSrc}, NEW force \in BOOLEAN,
             WithDict(w, t, dict, place, force)
      PROVE  SInv'
  <2> DEFINE u == WindowUpdate(w, place, Len(dict))
  <2>1. /\ dict \in Seq(Byte)
        /\ Len(dict) \in Nat
        /\ Len(dict) > 0
    BY MemoryAssumption
  <2>2. place \in Int
    BY Limits, MemoryAssumption
  <2>3. /\ window' = u
        /\ stream' = dict
        /\ dictSize' = Len(dict)
        /\ forced' = force
        /\ nextToUpdate' = (IF Len(dict) <= HASH_READ_SIZE THEN w.dictLimit + 1
                            ELSE EndOf(window'))
        /\ loadedDictEnd' = (IF force THEN 0 ELSE EndOf(window'))
    BY <1>8 DEF WithDict
  <2> DEFINE f == FilledTables(t, mem', window', w.dictLimit + 1, EndOf(window'),
                               strategy' = "dfast")
  <2>4. hashTable' = f.hash /\ chainTable' = f.chain
    BY <1>8 DEF WithDict
  <2>5. /\ IsWindow(u)
        /\ EndOf(u) = EndOf(w) + Len(dict)
    BY <2>1, <2>2, Updated
  <2>6. u.lowLimit \in Nat /\ u.dictLimit \in Nat /\ EndOf(u) \in Nat /\ u.lowLimit <= u.dictLimit
    BY <2>5, Limits DEF IsWindow
  <2>7. u.dictLimit = EndOf(w) /\ u.lowLimit >= EndOf(w)
    <3>1. Follows(w, u) \/ Apart(w, u)
      BY <2>1, <2>2, UpdatedLimits
    <3> HIDE DEF u
    <3> QED
      BY <1>1, <2>6, <3>1 DEF Follows, Apart
  <2>8. Spots(u, hash, EndOf(w), EndOf(w)) /\ Spots(u, chain, EndOf(w), EndOf(w))
    BY <2>1, <2>2, UpdatedSpots
  <2> HIDE DEF u
  <2>9. End' = EndOf(u) /\ Reached' = EndOf(u)
    BY <1>2, <2>3, <2>6 DEF End, Reached
  <2> DEFINE from == w.dictLimit + 1
             end == EndOf(u)
             dfast == strategy' = "dfast"
  <2>10. FillsBoth(hash, chain, from, end, dfast, f)
    <3>1. mem' \in [Area -> Byte]
      BY <1>3 DEF IInv
    <3>2. from \in Nat /\ end \in Nat /\ dfast \in BOOLEAN
      BY <1>1, <2>6
    <3>3. f = FilledTables([hash |-> hash, chain |-> chain], mem', u, from, end, dfast)
      BY <2>3
    <3> HIDE DEF from, end, dfast, f
    <3> QED
      BY <3>1, <3>2, <3>3, FilledBoth
  <2> HIDE DEF f
  <2>11. ASSUME NEW old \in Table, NEW table, Filling(old, from, end, table),
                Spots(u, old, EndOf(w), EndOf(w))
         PROVE  table \in Table /\ Spots(u, table, EndOf(u), EndOf(u))
    <3>1. table \in Table
      BY <2>11 DEF Filling
    <3>2. \A h \in 0 .. HashSize - 1 : table[h] \in Nat /\ old[h] \in Nat
      BY <3>1 DEF Table
    <3>3. ASSUME NEW x \in Nat, Spot(u, x, EndOf(w), EndOf(w)) PROVE Spot(u, x, EndOf(u), EndOf(u))
      BY <1>1, <2>1, <2>5, <2>6, <3>3 DEF Spot
    <3>4. ASSUME NEW x \in Nat, from <= x, x + 8 <= end PROVE Spot(u, x, EndOf(u), EndOf(u))
      BY <1>1, <2>6, <2>7, <3>4 DEF Spot
    <3> HIDE DEF from, end
    <3>5. ASSUME NEW h \in 0 .. HashSize - 1 PROVE Spot(u, table[h], EndOf(u), EndOf(u))
      <4>1. table[h] = old[h] \/ (from <= table[h] /\ table[h] + 8 <= end)
        BY <2>11 DEF Filling
      <4>2. Spot(u, old[h], EndOf(w), EndOf(w))
        BY <2>11 DEF Spots
      <4> QED
        BY <3>2, <3>3, <3>4, <4>1, <4>2
    <3> QED
      BY <3>1, <3>5 DEF Spots
  <2>12. TablesFit'
    <3>1. /\ Filling(hash, from, end, hashTable') /\ Filling(chain, from, end, chainTable')
          /\ ~dfast => chainTable' = chain
      BY <2>4, <2>10 DEF FillsBoth
    <3> HIDE DEF from, end
    <3>2. /\ hashTable' \in Table /\ Spots(u, hashTable', EndOf(u), EndOf(u))
          /\ chainTable' \in Table /\ Spots(u, chainTable', EndOf(u), EndOf(u))
      BY <2>8, <2>11, <3>1
    <3>3. strategy' # "dfast" => chainTable' = EmptyTable
      BY <3>1
    <3> QED
      BY <2>3, <2>9, <3>2, <3>3 DEF TablesFit
  <2>13. Marks'
    <3>1. ~HasExtDict(u)
      BY <1>1, <2>6, <2>7 DEF HasExtDict
    <3>2. u.dictLimit <= EndOf(u)
      BY <1>1, <2>1, <2>5, <2>7
    <3>3. /\ dictSize' \in Nat /\ dictSize' <= Len(stream') /\ todo' <= Len(stream') - dictSize'
          /\ loadedDictEnd' <= EndOf(u)
          /\ loadedDictEnd' # 0 => loadedDictEnd' + Len(stream') = EndOf(u) + dictSize'
          /\ nextToUpdate' \in Nat /\ nextToUpdate' <= EndOf(u) + 1
      BY <1>1, <1>2, <2>1, <2>3, <2>5, <2>6
    <3> QED
      BY <2>3, <2>9, <3>1, <3>2, <3>3 DEF Marks
  <2>14. Kinds'
    BY <1>6, <2>3 DEF Kinds
  <2> QED
    BY <1>3, <1>4, <1>5, <2>12, <2>13, <2>14 DEF SInv
<1> QED
  BY <1>7, <1>8 DEF Begin

(* Indices of the frames before are below the cleared window.              *)
LEMMA ClearedSpots ==
  ASSUME SInv
  PROVE  LET w == WindowClear(window)
         IN Spots(w, hashTable, EndOf(w), EndOf(w)) /\ Spots(w, chainTable, EndOf(w), EndOf(w))
<1> DEFINE w == WindowClear(window)
<1>1. /\ IsWindow(window) /\ todo \in 0 .. End
      /\ hashTable \in Table /\ chainTable \in Table
      /\ Spots(window, hashTable, Reached, Reached) /\ Spots(window, chainTable, Reached, Reached)
  BY DEF SInv, IInv, TablesFit
<1>2. IsWindow(w) /\ EndOf(w) = EndOf(window) /\ w.lowLimit = EndOf(w)
  BY <1>1, ClearedWindow
<1> HIDE DEF w
<1>3. /\ EndOf(w) \in Nat /\ w.dictLimit = EndOf(w)
      /\ window.lowLimit \in Nat /\ window.dictLimit \in Nat
      /\ window.lowLimit <= window.dictLimit /\ window.dictLimit <= EndOf(w)
      /\ Reached \in Nat /\ Reached <= EndOf(w)
  BY <1>1, <1>2, Limits DEF IsWindow, Reached, End
<1>4. ASSUME NEW x \in Nat, Spot(window, x, Reached, Reached) PROVE Spot(w, x, EndOf(w), EndOf(w))
  BY <1>2, <1>3, <1>4 DEF Spot
<1>5. \A h \in 0 .. HashSize - 1 : hashTable[h] \in Nat /\ chainTable[h] \in Nat
  BY <1>1 DEF Table
<1>6. Spots(w, hashTable, EndOf(w), EndOf(w)) /\ Spots(w, chainTable, EndOf(w), EndOf(w))
  BY <1>1, <1>4, <1>5 DEF Spots
<1> QED
  BY <1>6 DEF w

\* Both ways to begin a frame lead to such a window.
LEMMA BeginningKeeps ==
  ASSUME SInv, ResetContext \/ ContinueContext
  PROVE  SInv'
<1>1. CASE ResetContext
  <2>1. Begin(NoWindow, [hash |-> EmptyTable, chain |-> EmptyTable]) /\ strategy' \in Strategies
    BY <1>1 DEF ResetContext
  <2>2. EmptyTable \in Table /\ Spots(NoWindow, EmptyTable, 0, 0)
    <3>1. NoWindow.dictLimit = 0
      BY DEF NoWindow
    <3> QED
      BY <3>1, EmptyTables DEF Spots, Spot
  <2>3. /\ IsWindow(NoWindow) /\ EndOf(NoWindow) = 0 /\ NoWindow.lowLimit = EndOf(NoWindow)
        /\ Spots(NoWindow, EmptyTable, EndOf(NoWindow), EndOf(NoWindow))
    BY <2>2, EmptyWindow
  <2> QED
    BY <2>1, <2>2, <2>3, FrameKeeps
<1>2. CASE ContinueContext
  <2> DEFINE w == WindowClear(window)
  <2>1. Begin(w, [hash |-> hashTable, chain |-> chainTable]) /\ strategy' = strategy
    BY <1>2 DEF ContinueContext
  <2>2. /\ IsWindow(window) /\ hashTable \in Table /\ chainTable \in Table
        /\ strategy \in Strategies \cup {"none"}
        /\ strategy # "dfast" => chainTable = EmptyTable
    BY DEF SInv, IInv, TablesFit, Kinds
  <2>3. IsWindow(w) /\ w.lowLimit = EndOf(w)
    BY <2>2, ClearedWindow
  <2>4. Spots(w, hashTable, EndOf(w), EndOf(w)) /\ Spots(w, chainTable, EndOf(w), EndOf(w))
    BY ClearedSpots
  <2> HIDE DEF w
  <2> QED
    BY <2>1, <2>2, <2>3, <2>4, FrameKeeps
<1> QED
  BY <1>1, <1>2

-----------------------------------------------------------------------------
\* A block.

\* What a search of the block is given, and where the block is in the stream.
Given(n, st, w, hash, chain) ==
  /\ Ctx(w, st, st + n)
  /\ OffsetsAt(st)
  /\ Pos(w, st) = Len(stream) - todo
  /\ Pos(w, st + n) = Len(stream) - todo + n
  /\ hash \in Table /\ chain \in Table
  /\ Spots(w, hash, st, st) /\ Spots(w, chain, st, st)
  /\ strategy # "dfast" => chain = EmptyTable

(* Reducing the indices changes no more than what is below the window.     *)
Lowered(table, c, new) ==
  /\ new \in Table
  /\ \A h \in 0 .. HashSize - 1 : new[h] = IF table[h] < c THEN 0 ELSE table[h] - c
LEMMA Reduced ==
  ASSUME NEW table \in Table, NEW c \in Nat
  PROVE  Lowered(table, c, ReduceTable(table, c))
<1>1. \A h \in 0 .. HashSize - 1 : table[h] \in Nat
  BY DEF Table
<1>2. DOMAIN table = 0 .. HashSize - 1
  BY DEF Table
<1>3. \A h \in 0 .. HashSize - 1 : (IF table[h] < c THEN 0 ELSE table[h] - c) \in Nat
  BY <1>1
<1> QED
  BY <1>2, <1>3 DEF Table, ReduceTable, Lowered

\* The limits of the window a block finds.
BlockLimited(n, st, c, dictEnd, w, past) ==
  /\ n \in Nat /\ n > 0 /\ n <= BlockSize /\ n <= todo /\ todo \in Nat
  /\ st \in Nat /\ c \in Nat /\ st + c = Reached /\ Reached = EndOf(window) - todo
  /\ EndOf(window) \in Nat /\ EndOf(w) \in Nat /\ EndOf(w) = EndOf(window) - c
  /\ st + n <= EndOf(w)
  /\ window.lowLimit \in Nat /\ window.dictLimit \in Nat
  /\ window.lowLimit <= window.dictLimit
  /\ c <= window.lowLimit
  /\ w.lowLimit \in Nat /\ w.dictLimit \in Nat
  /\ w.lowLimit >= window.lowLimit - c
  /\ w.dictLimit = window.dictLimit - c \/ w.dictLimit = w.lowLimit
  /\ w.dictLimit >= window.dictLimit - c
  /\ w.lowLimit <= w.dictLimit /\ w.dictLimit <= st
  /\ past <=> st + n > MaxDist + dictEnd
  /\ past => (st + n) - w.lowLimit <= MaxDist

LEMMA BlockLimits ==
  ASSUME IInv, todo > 0, NEW n, NEW current, NEW correct \in BOOLEAN, NEW c, NEW dictEnd, NEW w,
         Ready(n, current, correct, c, dictEnd, w), NEW st, st = current - c,
         window.dictLimit <= Reached
  PROVE  BlockLimited(n, st, c, dictEnd, w, Past(n, current, c, dictEnd))
<1> DEFINE end == EndOf(window)
           low == window.lowLimit
           dict == window.dictLimit
           past == Past(n, current, c, dictEnd)
<1>1. /\ end \in Nat /\ low \in Nat /\ dict \in Nat /\ low <= dict /\ dict <= end
      /\ EndOf(w) \in Nat /\ w.lowLimit \in Nat /\ w.dictLimit \in Nat
      /\ w.lowLimit <= w.dictLimit
  BY Limits DEF IInv, IsWindow, Ready
<1>2. /\ n \in Nat /\ n > 0 /\ n <= BlockSize /\ n <= todo /\ todo \in Nat /\ todo <= end
      /\ current \in Nat /\ current = Reached /\ c \in Nat /\ c <= low /\ c <= current
  BY <1>1, Sizes DEF Ready
<1>3. Reached = end - todo
  BY DEF Reached, End
<1>4. /\ EndOf(w) = end - c
      /\ w.lowLimit = IF past THEN Larger(low - c, (current - c + n) - MaxDist) ELSE low - c
      /\ w.dictLimit = IF past THEN Larger(dict - c, w.lowLimit) ELSE dict - c
  BY DEF Ready
<1>5. past <=> st + n > MaxDist + dictEnd
  BY DEF Past
<1>6. n <= MaxDist /\ MaxDist \in Nat
  BY <1>2, Sizes, SizesAssumption
<1> HIDE DEF end, low, dict, past, BlockLimited
<1>7. st \in Nat /\ st + c = Reached /\ st + n <= EndOf(w) /\ st + c = current
  BY <1>1, <1>2, <1>3, <1>4
<1>8. dict - c <= st /\ dict <= Reached
  BY <1>1, <1>2, <1>7 DEF dict
<1>9. CASE past
  <2>1. w.lowLimit = Larger(low - c, (st + n) - MaxDist) /\ w.dictLimit = Larger(dict - c, w.lowLimit)
    BY <1>4, <1>9
  <2>2. w.lowLimit >= low - c /\ w.lowLimit >= (st + n) - MaxDist /\ w.lowLimit <= st
    BY <1>1, <1>2, <1>6, <1>7, <1>8, <2>1 DEF Larger
  <2>3. /\ w.dictLimit = dict - c \/ w.dictLimit = w.lowLimit
        /\ w.dictLimit >= dict - c /\ w.dictLimit <= st
    BY <1>1, <1>2, <1>7, <1>8, <2>1, <2>2 DEF Larger
  <2>4. (st + n) - w.lowLimit <= MaxDist
    BY <1>1, <1>2, <1>6, <1>7, <2>2
  <2> QED
    BY <1>1, <1>2, <1>3, <1>4, <1>5, <1>7, <1>8, <2>2, <2>3, <2>4 DEF end, low, dict, past, BlockLimited
<1>10. CASE ~past
  BY <1>1, <1>2, <1>3, <1>4, <1>5, <1>7, <1>8, <1>10 DEF end, low, dict, past, BlockLimited
<1> QED
  BY <1>9, <1>10

\* Tables with the same places are the same.
LEMMA SameTable ==
  ASSUME NEW s \in Table, NEW t \in Table, \A h \in 0 .. HashSize - 1 : s[h] = t[h]
  PROVE  s = t
<1> DEFINE H == 0 .. HashSize - 1
<1>1. s = [h \in H |-> s[h]] /\ t = [h \in H |-> t[h]]
  BY Zenon DEF Table
<1>2. \A h \in H : s[h] = t[h]
  OBVIOUS
<1> HIDE DEF H
<1>3. [h \in H |-> s[h]] = [h \in H |-> t[h]]
  BY Zenon, <1>2
<1> QED
  BY Zenon, <1>1, <1>3

\* The tables, reduced with the window, are fit for the block, and so are the offsets.
LEMMA BlockGiven ==
  ASSUME SInv, todo > 0, NEW n, NEW current, NEW correct \in BOOLEAN, NEW c, NEW dictEnd, NEW w,
         Ready(n, current, correct, c, dictEnd, w), NEW st, st = current - c,
         correct => \A k \in 1 .. 2 : rep[k] <= st
  PROVE  Given(n, st, w, ReduceTable(hashTable, c), ReducedChain(chainTable, c))
<1> DEFINE hash == ReduceTable(hashTable, c)
           chain == ReducedChain(chainTable, c)
           past == Past(n, current, c, dictEnd)
           len == Len(stream)
<1>1. /\ IInv /\ TablesFit /\ OffsetsAt(Reached) /\ Marks
  BY DEF SInv
<1>2. /\ n \in Nat /\ n > 0 /\ n <= BlockSize /\ n <= todo /\ todo \in Nat
      /\ st \in Nat /\ c \in Nat /\ st + c = Reached /\ Reached = EndOf(window) - todo
      /\ EndOf(window) \in Nat /\ EndOf(w) \in Nat /\ EndOf(w) = EndOf(window) - c
      /\ st + n <= EndOf(w)
      /\ window.lowLimit \in Nat /\ window.dictLimit \in Nat
      /\ window.lowLimit <= window.dictLimit
      /\ c <= window.lowLimit
      /\ w.lowLimit \in Nat /\ w.dictLimit \in Nat
      /\ w.lowLimit >= window.lowLimit - c
      /\ w.dictLimit = window.dictLimit - c \/ w.dictLimit = w.lowLimit
      /\ w.dictLimit >= window.dictLimit - c
      /\ w.lowLimit <= w.dictLimit /\ w.dictLimit <= st
      /\ past <=> st + n > MaxDist + dictEnd
      /\ past => (st + n) - w.lowLimit <= MaxDist
  <2>1. window.dictLimit <= Reached
    BY <1>1 DEF Marks
  <2>2. BlockLimited(n, st, c, dictEnd, w, past)
    BY <1>1, <2>1, BlockLimits
  <2> HIDE DEF past
  <2> QED
    BY <2>2 DEF BlockLimited
<1>3. /\ ~correct => c = 0
      /\ correct => /\ c > 0 /\ loadedDictEnd = 0 /\ st >= MaxDist
                    /\ Reached + n > CurrentMax
      /\ dictEnd = IF correct THEN 0 ELSE loadedDictEnd
      /\ IsWindow(w) /\ Holds(mem, w, stream)
  BY DEF Ready
<1>4. MaxDist \in Nat /\ MaxDist >= 4 /\ MaxDist > 0
  BY SizesAssumption
<1>5. /\ mem \in [Area -> Byte] /\ stream \in Seq(Byte) /\ len \in Nat /\ loadedDictEnd \in Nat
      /\ loadedDictEnd = 0 => Reached <= window.lowLimit + MaxDist
      /\ loadedDictEnd # 0 => dictSize > 0 /\ ~forced
  BY <1>1 DEF IInv, Near
<1>6. /\ dictSize \in Nat
      /\ HasExtDict(window) => Reached >= 4
      /\ loadedDictEnd # 0 => loadedDictEnd + len = EndOf(window) + dictSize
  BY <1>1 DEF Marks, End
<1> HIDE DEF hash, chain, past, len
<1>7. correct => rep[1] <= st /\ rep[2] <= st
  OBVIOUS
<1>8. Pos(w, st) = len - todo /\ Pos(w, st + n) = len - todo + n
  <2>1. EndOf(w) - st = todo /\ EndOf(w) - (st + n) = todo - n
    BY <1>2
  <2>2. Pos(w, st) = len - (EndOf(w) - st) /\ Pos(w, st + n) = len - (EndOf(w) - (st + n))
    BY DEF Pos, len
  <2>3. Pos(w, st) = len - todo /\ Pos(w, st + n) = len - (todo - n)
    BY <2>1, <2>2
  <2>4. len - (todo - n) = len - todo + n
    BY <1>2, <1>5
  <2> QED
    BY <2>3, <2>4
<1>9. Ctx(w, st, st + n)
  <2>1. HasExtDict(w) => st >= 4
    <3>1. CASE correct
      BY <1>2, <1>3, <1>4, <3>1
    <3>2. CASE ~correct
      BY <1>2, <1>3, <1>6, <3>2 DEF HasExtDict
    <3> QED
      BY <3>1, <3>2
  <2>2. (st + n) - w.lowLimit <= MaxDist \/ Kept(w, st + n)
    <3>1. CASE past
      BY <1>2, <3>1
    <3>2. CASE ~past /\ dictEnd = 0
      BY <1>2, <1>4, <3>2
    <3>3. CASE ~past /\ dictEnd # 0
      <4>1. ~correct /\ c = 0 /\ dictEnd = loadedDictEnd /\ loadedDictEnd # 0
        BY <1>3, <3>3
      <4>2. (len - todo + n) - dictSize <= MaxDist
        BY <1>2, <1>4, <1>5, <1>6, <3>3, <4>1
      <4> QED
        BY <1>5, <1>8, <4>1, <4>2 DEF Kept
    <3> QED
      BY <3>1, <3>2, <3>3
  <2> QED
    <3>1. st + n \in Nat /\ st < st + n
      BY <1>2
    <3>2. w.dictLimit <= st /\ st + n <= EndOf(w) /\ st \in Nat
      BY <1>2
    <3> QED
      BY <1>3, <1>5, <1>6, <2>1, <2>2, <3>1, <3>2 DEF Ctx
<1>10. OffsetsAt(st)
  <2>1. ASSUME NEW o, OffsetFits(o, Reached), correct => o <= st PROVE OffsetFits(o, st)
    <3>1. CASE correct
      BY <1>2, <1>3, <1>4, <2>1, <3>1 DEF OffsetFits, Within, Larger, Positive
    <3>2. CASE ~correct
      BY <1>2, <1>3, <2>1, <3>2
    <3> QED
      BY <3>1, <3>2
  <2> QED
    BY <1>1, <1>7, <2>1 DEF OffsetsAt
<1>11. c > 0 => w.lowLimit > 0
  <2> SUFFICES ASSUME c > 0 PROVE w.lowLimit > 0
    OBVIOUS
  <2>1. correct
    BY <1>3
  <2>2. st >= MaxDist /\ dictEnd = 0
    BY <1>3, <2>1
  <2>3. past
    BY <1>2, <1>4, <2>2
  <2>4. (st + n) - w.lowLimit <= MaxDist
    BY <1>2, <2>3
  <2> QED
    BY <1>2, <1>4, <2>2, <2>4
<1>12. ASSUME NEW table \in Table, Spots(window, table, Reached, Reached), NEW new,
              Lowered(table, c, new)
       PROVE  Spots(w, new, st, st)
  <2>1. \A h \in 0 .. HashSize - 1 : table[h] \in Nat
    BY DEF Table
  <2>2. ASSUME NEW t \in Nat, Spot(window, t, Reached, Reached), NEW x,
               x = IF t < c THEN 0 ELSE t - c
        PROVE  Spot(w, x, st, st)
    <3> DEFINE low == window.lowLimit
               dict == window.dictLimit
               lowNew == w.lowLimit
               dictNew == w.dictLimit
               at == Reached
    <3>1. \/ t < low
          \/ t + 8 <= dict
          \/ dict <= t /\ t < at /\ t + 8 <= at
          \/ t = 0 /\ dict = 0
      BY <2>2 DEF Spot
    <3>2. /\ low \in Nat /\ dict \in Nat /\ lowNew \in Nat /\ dictNew \in Nat /\ low <= dict
          /\ c \in Nat /\ c <= low /\ lowNew >= low - c
          /\ dictNew = dict - c \/ dictNew = lowNew
          /\ dictNew >= dict - c /\ st + c = at /\ st \in Nat /\ at \in Nat
          /\ c > 0 => lowNew > 0
      BY <1>2, <1>11
    <3> HIDE DEF low, dict, lowNew, dictNew, at
    <3>3. CASE t < c
      <4>1. x = 0 /\ x < lowNew
        BY <2>2, <3>2, <3>3
      <4> QED
        BY <4>1 DEF Spot, lowNew
    <3>4. CASE t >= c
      <4>1. x = t - c /\ x \in Int
        BY <2>2, <3>2, <3>4
      <4>2. \/ x < lowNew
            \/ x + 8 <= dictNew
            \/ dictNew <= x /\ x < st /\ x + 8 <= st
            \/ x = 0 /\ dictNew = 0
        BY <3>1, <3>2, <3>4, <4>1
      <4> QED
        BY <4>2 DEF Spot, lowNew, dictNew
    <3> QED
      BY <1>2, <3>3, <3>4
  <2> QED
    BY <1>12, <2>1, <2>2 DEF Spots, Lowered
<1>13. /\ hashTable \in Table /\ chainTable \in Table
       /\ Spots(window, hashTable, Reached, Reached)
       /\ Spots(window, chainTable, Reached, Reached)
       /\ strategy # "dfast" => chainTable = EmptyTable
  BY <1>1 DEF TablesFit
<1>14. Lowered(hashTable, c, hash)
  BY <1>2, <1>13, Reduced DEF hash
<1>15. Lowered(chainTable, c, chain)
  <2>1. CASE strategy = "fast"
    <3>1. chain = EmptyTable /\ chainTable = EmptyTable
      BY <1>13, <2>1 DEF chain, ReducedChain
    <3>2. \A h \in 0 .. HashSize - 1 : 0 = IF 0 < c THEN 0 ELSE 0 - c
      BY <1>2
    <3> QED
      BY <3>1, <3>2, EmptyTables DEF Lowered
  <2>2. CASE strategy # "fast"
    <3>1. chain = ReduceTable(chainTable, c)
      BY <2>2 DEF chain, ReducedChain
    <3> QED
      BY <1>2, <1>13, <3>1, Reduced
  <2> QED
    BY <2>1, <2>2
<1>16. strategy # "dfast" => chain = EmptyTable
  <2> SUFFICES ASSUME strategy # "dfast" PROVE chain = EmptyTable
    OBVIOUS
  <2>1. chainTable = EmptyTable
    BY <1>13
  <2>2. \A h \in 0 .. HashSize - 1 : chain[h] = EmptyTable[h]
    <3>1. (IF 0 < c THEN 0 ELSE 0 - c) = 0
      BY <1>2
    <3> QED
      BY <1>15, <2>1, <3>1, EmptyTables DEF Lowered
  <2>3. chain \in Table /\ EmptyTable \in Table
    BY <1>15, EmptyTables DEF Lowered
  <2> QED
    BY <2>2, <2>3, SameTable
<1>17. /\ hash \in Table /\ Spots(w, hash, st, st)
       /\ chain \in Table /\ Spots(w, chain, st, st)
  BY <1>12, <1>13, <1>14, <1>15 DEF Lowered
<1>18. len - todo + n = Len(stream) - todo + n /\ len - todo = Len(stream) - todo
  BY DEF len
<1> QED
  BY <1>8, <1>9, <1>10, <1>16, <1>17, <1>18 DEF Given, hash, chain

\* What a block leaves.
BlockLeft(b, at, keep) ==
  /\ b.wild = FALSE /\ b.seqs \in Seq(Sequence)
  /\ b.start \in Nat /\ b.end \in Nat /\ b.start <= b.end /\ b.end = at
  /\ \E e \in Progress :
       /\ e.at <= b.end
       /\ Path(stream, keep, b.seqs, [at |-> b.start, rep |-> b.decRep], e)
OffsetsLeft(r, d, at) ==
  /\ OffsetFits(r[1], at) /\ OffsetFits(r[2], at)
  /\ d \in Triples
  /\ r[1] = d[1]
  /\ r[2] = d[2] \/ r[2] = r[1]
TablesLeft(w, hash, chain, at) ==
  /\ hash \in Table /\ chain \in Table
  /\ Spots(w, hash, at, at) /\ Spots(w, chain, at, at)
  /\ strategy # "dfast" => chain = EmptyTable

\* What a table may hold before a block it may hold after it.
LEMMA SpotsFurther ==
  ASSUME NEW w, NEW st \in Nat, NEW at \in Nat, NEW end \in Nat, st <= at, at <= end,
         NEW table \in Table, Spots(w, table, st, st)
  PROVE  Spots(w, table, at, end)
<1>1. \A h \in 0 .. HashSize - 1 : table[h] \in Nat
  BY DEF Table
<1>2. ASSUME NEW t \in Nat, Spot(w, t, st, st) PROVE Spot(w, t, at, end)
  BY <1>2 DEF Spot
<1> QED
  BY <1>1, <1>2 DEF Spots

LEMMA TriplesFacts ==
  ASSUME NEW r \in Triples
  PROVE  /\ r \in Nat \X Nat \X Nat
         /\ r[1] \in Positive /\ r[2] \in Positive
  BY DEF Triples, Positive

(* A block that is left as it is.                                          *)
LEMMA RawLeft ==
  ASSUME NEW n \in Nat, NEW st, NEW w, NEW hash, NEW chain, Given(n, st, w, hash, chain),
         NEW b, b.wild = FALSE, b.seqs = <<>>, b.decRep = decRep,
         b.start = Len(stream) - todo, b.end = Len(stream) - todo + n,
         Len(stream) - todo \in Nat, NEW keep
  PROVE  BlockLeft(b, Len(stream) - todo + n, keep) /\ OffsetsLeft(rep, decRep, st + n)
<1> DEFINE start == Len(stream) - todo
           a == [at |-> start, rep |-> decRep]
<1>1. OffsetsAt(st)
  BY DEF Given
<1>2. st \in Nat
  BY DEF Given, Ctx
<1>3. decRep \in Nat \X Nat \X Nat
  BY <1>1, TriplesFacts DEF OffsetsAt
<1>4. a \in Progress /\ a.at = start
  BY <1>3 DEF Progress
<1>5. Path(stream, keep, <<>>, a, a)
  BY <1>4, PathEmpty
<1>6. <<>> \in Seq(Sequence)
  OBVIOUS
<1>7. BlockLeft(b, start + n, keep)
  <2>1. b.start = start /\ b.end = start + n /\ start \in Nat
    OBVIOUS
  <2>2. a = [at |-> b.start, rep |-> b.decRep]
    BY <2>1
  <2> HIDE DEF a, start
  <2>3. b.start <= b.end /\ b.end \in Nat /\ a.at <= b.end
    BY <1>4, <2>1
  <2>4. Path(stream, keep, b.seqs, [at |-> b.start, rep |-> b.decRep], a)
    BY <1>5, <2>2
  <2> QED
    BY <1>4, <1>6, <2>1, <2>3, <2>4 DEF BlockLeft
<1>8. OffsetsLeft(rep, decRep, st + n)
  <2>1. ASSUME NEW o, OffsetFits(o, st) PROVE OffsetFits(o, st + n)
    BY <1>2, <2>1 DEF OffsetFits, Positive, Larger
  <2> QED
    BY <1>1, <2>1 DEF OffsetsAt, OffsetsLeft
<1> QED
  BY <1>7, <1>8

(* A block made of what the search found.                                  *)
LEMMA SearchLeft ==
  ASSUME NEW n \in Nat, NEW st, NEW w, NEW hash, NEW chain, Given(n, st, w, hash, chain),
         NEW f, FoundIn(w, st, st + n, f),
         NEW b, b.wild = f.wild, b.seqs = f.seqs, b.decRep = decRep,
         b.start = Len(stream) - todo, b.end = Len(stream) - todo + n,
         Len(stream) - todo \in Nat, n <= todo, todo \in Nat
  PROVE  /\ BlockLeft(b, Len(stream) - todo + n, Kept(w, st + n))
         /\ OffsetsLeft(<<f.o1, f.o2>>, Decoded(b).rep, st + n)
<1> DEFINE start == Len(stream) - todo
           keep == Kept(w, st + n)
<1>1. /\ f.seqs \in Seq(Sequence) /\ f.wild = FALSE
      /\ OffsetFits(f.o1, st + n) /\ OffsetFits(f.o2, st + n)
  BY DEF FoundIn
<1>2. PICK r \in Triples, anchor \in st .. st + n :
        /\ Encoded(w, st, st + n, f.seqs, anchor, r)
        /\ f.o1 = r[1]
        /\ f.o2 = r[2] \/ f.o2 = f.o1
  BY DEF FoundIn
<1>3. /\ Ctx(w, st, st + n) /\ OffsetsAt(st)
      /\ Pos(w, st) = start /\ Pos(w, st + n) = start + n
  BY DEF Given
<1>4. /\ st \in Nat /\ EndOf(w) \in Nat /\ Len(stream) \in Nat /\ stream \in Seq(Byte)
      /\ st + n <= EndOf(w)
  BY <1>3, Block
<1> DEFINE e == At(w, anchor, r)
           a == [at |-> b.start, rep |-> b.decRep]
<1>5. Path(stream, keep, b.seqs, a, e)
  <2>1. At(w, st, decRep) = a
    BY <1>3 DEF At
  <2> HIDE DEF keep
  <2> QED
    BY <1>2, <2>1 DEF Encoded, keep
<1>6. e.at = Pos(w, anchor) /\ e.rep = r
  BY DEF At
<1>7. Pos(w, anchor) \in Nat /\ Pos(w, anchor) <= start + n
  <2>1. Pos(w, anchor) = Len(stream) - (EndOf(w) - anchor) /\ Pos(w, st) = Len(stream) - (EndOf(w) - st)
        /\ Pos(w, st + n) = Len(stream) - (EndOf(w) - (st + n))
    BY DEF Pos
  <2> DEFINE l == Len(stream)
             z == EndOf(w)
             p == l - (z - anchor)
  <2>2. l \in Nat /\ z \in Nat /\ st \in Nat /\ anchor \in Nat /\ st <= anchor /\ anchor <= st + n
    BY <1>4
  <2>3. l - (z - st) = start /\ l - (z - (st + n)) = start + n
    BY <1>3, <2>1
  <2> HIDE DEF l, z, start
  <2>4. start \in Nat
    BY DEF start
  <2>5. p \in Nat /\ p <= start + n
    BY <2>2, <2>3, <2>4
  <2> QED
    BY <2>1, <2>5 DEF l, z
<1>8. e \in Progress
  <2>1. r \in Nat \X Nat \X Nat
    BY TriplesFacts
  <2> QED
    BY <1>7, <2>1 DEF At, Progress
<1>9. keep <=> ~forced /\ b.end - dictSize <= MaxDist
  BY <1>3 DEF Kept
<1> HIDE DEF keep, e, a, start
<1>10. /\ b.start = start /\ b.end = start + n /\ start \in Nat
       /\ b.start <= Len(stream)
  BY <1>4 DEF start
<1>11. Decoded(b).rep = r
  <2>1. Path(stream, keep, b.seqs, [at |-> b.start, rep |-> b.decRep], e)
    BY <1>5 DEF a
  <2>2. Decoded(b) = [out |-> SubSeq(stream, 1, e.at), rep |-> e.rep, ok |-> TRUE]
    BY <1>1, <1>4, <1>9, <1>10, <2>1, Made
  <2> QED
    BY <1>6, <2>2
<1>12. BlockLeft(b, start + n, keep)
  <2>1. b.start <= b.end /\ b.end \in Nat /\ e.at <= b.end
    BY <1>6, <1>7, <1>10
  <2> QED
    BY <1>1, <1>5, <1>8, <1>10, <2>1 DEF BlockLeft, a
<1>13. OffsetsLeft(<<f.o1, f.o2>>, Decoded(b).rep, st + n)
  BY <1>1, <1>2, <1>11 DEF OffsetsLeft
<1> QED
  BY <1>12, <1>13 DEF keep, start

\* ZSTD1_compressBlock_internal, whichever way it goes.
LEMMA OneLeft ==
  ASSUME NEW n \in Nat, n > 0, NEW st, NEW w, NEW hash, NEW chain,
         Given(n, st, w, hash, chain), NEW t, t = [hash |-> hash, chain |-> chain],
         CompressOne(w, t, st, n),
         Len(stream) - todo \in Nat, n <= todo, todo \in Nat
  PROVE  /\ TablesLeft(w, hashTable', chainTable', st + n)
         /\ BlockLeft(block', Len(stream) - todo + n, Kept(w, st + n))
         /\ OffsetsLeft(rep', decRep', st + n)
<1> DEFINE start == Len(stream) - todo
           b == Raw(n)
           iend == st + n
           dfast == strategy = "dfast"
           f == Search(mem, w, hash, chain, st, iend, dfast)
<1>1. /\ Ctx(w, st, iend) /\ OffsetsAt(st) /\ hash \in Table /\ chain \in Table
      /\ Spots(w, hash, st, st) /\ Spots(w, chain, st, st)
      /\ strategy # "dfast" => chain = EmptyTable
  BY DEF Given
<1>2. st \in Nat /\ iend \in Nat /\ st <= iend
  BY <1>1, Block
<1>3. t.hash = hash /\ t.chain = chain
  OBVIOUS
<1>4. /\ b.start = start /\ b.end = start + n /\ b.seqs = <<>> /\ b.wild = FALSE
      /\ b.decRep = decRep
      /\ b = [start |-> start, end |-> start + n, seqs |-> <<>>, wild |-> FALSE,
              decRep |-> decRep]
  BY DEF Raw
<1>5. CASE n < MINIMUM_BLOCK
  <2>1. /\ hashTable' = hash /\ chainTable' = chain /\ block' = b
        /\ rep' = rep /\ decRep' = decRep
    BY <1>3, <1>5 DEF CompressOne
  <2> HIDE DEF b
  <2>2. TablesLeft(w, hash, chain, iend)
    <3>1. Spots(w, hash, iend, iend) /\ Spots(w, chain, iend, iend)
      BY <1>1, <1>2, SpotsFurther
    <3> QED
      BY <1>1, <3>1 DEF TablesLeft
  <2>3. BlockLeft(b, start + n, Kept(w, st + n)) /\ OffsetsLeft(rep, decRep, st + n)
    BY <1>4, RawLeft
  <2> QED
    BY <2>1, <2>2, <2>3
<1>6. CASE ~(n < MINIMUM_BLOCK)
  <2>1. /\ hashTable' = f.hash /\ chainTable' = f.chain
        /\ \/ /\ block' = [b EXCEPT !.seqs = f.seqs, !.wild = f.wild]
              /\ rep' = <<f.o1, f.o2>> /\ decRep' = Decoded(block').rep
           \/ /\ block' = [b EXCEPT !.wild = f.wild]
              /\ rep' = rep /\ decRep' = decRep
    BY <1>3, <1>6 DEF CompressOne
  <2>2. Spots(w, hash, st, iend) /\ Spots(w, chain, st, iend)
    BY <1>1, <1>2, SpotsFurther
  <2>3. dfast \in BOOLEAN
    OBVIOUS
  <2>4. FoundIn(w, st, iend, f) /\ (~dfast => f.chain = chain)
    <3> HIDE DEF dfast, iend
    <3> QED
      BY <1>1, <2>2, <2>3, Searched
  <2> HIDE DEF f
  <2>5. TablesLeft(w, f.hash, f.chain, iend)
    <3>1. /\ f.hash \in Table /\ f.chain \in Table
          /\ Spots(w, f.hash, iend, iend) /\ Spots(w, f.chain, iend, iend)
      BY <2>4 DEF FoundIn
    <3> QED
      BY <1>1, <2>4, <3>1 DEF TablesLeft
  <2>6. CASE /\ block' = [b EXCEPT !.seqs = f.seqs, !.wild = f.wild]
             /\ rep' = <<f.o1, f.o2>> /\ decRep' = Decoded(block').rep
    <3>1. /\ block'.start = start /\ block'.end = start + n /\ block'.decRep = decRep
          /\ block'.seqs = f.seqs /\ block'.wild = f.wild
      BY <1>4, <2>6
    <3> HIDE DEF b
    <3>2. /\ BlockLeft(block', start + n, Kept(w, st + n))
          /\ OffsetsLeft(<<f.o1, f.o2>>, Decoded(block').rep, st + n)
      BY <2>4, <3>1, SearchLeft
    <3> QED
      BY <2>1, <2>5, <2>6, <3>2
  <2>7. CASE /\ block' = [b EXCEPT !.wild = f.wild]
             /\ rep' = rep /\ decRep' = decRep
    <3>0. f.wild = FALSE
      BY <2>4 DEF FoundIn
    <3>1. /\ block'.start = start /\ block'.end = start + n /\ block'.decRep = decRep
          /\ block'.seqs = <<>> /\ block'.wild = FALSE
      BY <1>4, <2>7, <3>0
    <3> HIDE DEF b
    <3>2. BlockLeft(block', start + n, Kept(w, st + n)) /\ OffsetsLeft(rep, decRep, st + n)
      BY <3>1, RawLeft
    <3> QED
      BY <2>1, <2>5, <2>7, <3>2
  <2> QED
    BY <2>1, <2>6, <2>7
<1> QED
  BY <1>5, <1>6

\* One turn of ZSTD1_compress_frameChunk.
LEMMA CompressBlockSInv ==
  ASSUME LowDictionaries, SInv, OffsetsInReach, CompressBlock
  PROVE  SInv'
<1> DEFINE n == Smaller(BlockSize, todo)
           current == EndOf(window) - todo
           correct == NeedOverflowCorrection(current, n)
           c == IF correct THEN Correction(current) ELSE 0
           dictEnd == IF correct THEN 0 ELSE loadedDictEnd
           w == EnforceMaxDist(CorrectOverflow(window, c), current - c + n, dictEnd)
           st == current - c
           hash == ReduceTable(hashTable, c)
           chain == ReducedChain(chainTable, c)
           update == Larger(Larger(nextToUpdate - c, 0), w.lowLimit)
           len == Len(stream)
<1>1. /\ todo > 0
      /\ window' = w
      /\ loadedDictEnd' = (IF PastMaxDist(current - c + n, dictEnd) THEN 0 ELSE dictEnd)
      /\ nextToUpdate' = (IF n < MINIMUM_BLOCK THEN update ELSE Late(update, st))
      /\ CompressOne(w, [hash |-> hash, chain |-> chain], st, n)
      /\ todo' = todo - n
      /\ mem' = mem /\ strategy' = strategy /\ stream' = stream
      /\ dictSize' = dictSize /\ forced' = forced /\ calls' = calls
  BY DEF CompressBlock
<1>2. Ready(n, current, correct, c, dictEnd, w)
  <2>1. Turns(n, current, correct, c, dictEnd, w)
    BY DEF Turns
  <2>2. correct \in BOOLEAN
    BY DEF NeedOverflowCorrection
  <2> HIDE DEF n, current, correct, c, dictEnd, w
  <2> QED
    BY <1>1, <2>1, <2>2, BlockReady DEF SInv
<1>3. correct \in BOOLEAN
  BY DEF NeedOverflowCorrection
<1>4. (loadedDictEnd' = dictEnd \/ loadedDictEnd' = 0)
      /\ (dictEnd # 0 => ~correct /\ dictEnd = loadedDictEnd)
  BY <1>1
<1>5. /\ st = current - c
      /\ correct => \A k \in 1 .. 2 : rep[k] <= st
  <2>1. current = Reached /\ n = NextBlock
    BY DEF Reached, End, NextBlock
  <2>2. correct => c = Correction(Reached) /\ NeedOverflowCorrection(Reached, NextBlock)
    BY <2>1
  <2> HIDE DEF correct, c, current, n
  <2> QED
    BY <1>1, <2>1, <2>2 DEF OffsetsInReach
<1> HIDE DEF n, current, correct, c, dictEnd, w, st, hash, chain
<1>6. IInv /\ TablesFit /\ OffsetsAt(Reached) /\ Marks /\ BlockMade(block) /\ Kinds
  BY DEF SInv
<1>7. Given(n, st, w, hash, chain)
  <2>1. hash = ReduceTable(hashTable, c) /\ chain = ReducedChain(chainTable, c)
    BY DEF hash, chain
  <2> QED
    BY <1>1, <1>2, <1>3, <1>5, <2>1, BlockGiven
<1>8. BlockLimited(n, st, c, dictEnd, w, Past(n, current, c, dictEnd))
  <2>1. window.dictLimit <= Reached
    BY <1>6 DEF Marks
  <2> QED
    BY <1>1, <1>2, <1>3, <1>5, <1>6, <2>1, BlockLimits
<1>9. /\ n \in Nat /\ n > 0 /\ n <= todo /\ todo \in Nat
      /\ st \in Nat /\ c \in Nat /\ st + c = Reached /\ Reached = EndOf(window) - todo
      /\ EndOf(window) \in Nat /\ EndOf(w) \in Nat /\ EndOf(w) = EndOf(window) - c
      /\ w.lowLimit \in Nat /\ w.dictLimit \in Nat
      /\ w.lowLimit <= w.dictLimit /\ w.dictLimit <= st
  BY <1>8 DEF BlockLimited
<1>10. ~correct => c = 0
  BY <1>2 DEF Ready
<1>11. /\ len \in Nat /\ loadedDictEnd \in Nat /\ stream \in Seq(Byte)
  BY <1>6 DEF IInv, Near
<1>12. /\ dictSize \in Nat /\ dictSize <= len /\ todo <= len - dictSize
       /\ loadedDictEnd <= Reached
       /\ loadedDictEnd # 0 => loadedDictEnd + len = EndOf(window) + dictSize
       /\ nextToUpdate \in Nat /\ nextToUpdate <= Reached + 1
  BY <1>6 DEF Marks, End
<1>13. len - todo \in Nat
  BY <1>9, <1>11, <1>12
<1>14. /\ TablesLeft(w, hashTable', chainTable', st + n)
       /\ BlockLeft(block', len - todo + n, Kept(w, st + n))
       /\ OffsetsLeft(rep', decRep', st + n)
  BY <1>1, <1>7, <1>9, <1>13, OneLeft
<1>15. End' = EndOf(w) /\ Reached' = st + n
  BY <1>1, <1>9 DEF End, Reached
<1>16. IInv'
  BY <1>6, CompressBlockInv
<1>17. TablesFit'
  BY <1>1, <1>14, <1>15 DEF TablesLeft, TablesFit
<1>18. OffsetsAt(Reached)'
  BY <1>1, <1>14, <1>15 DEF OffsetsLeft, OffsetsAt, OffsetFits, Within
<1>19. Marks'
  <2>1. nextToUpdate' \in Nat /\ nextToUpdate' <= st + n + 1
    <3>1. update \in Nat /\ update <= st + 1
      <4> DEFINE old == Larger(nextToUpdate - c, 0)
                 low == w.lowLimit
      <4>1. nextToUpdate - c \in Int /\ nextToUpdate - c <= st + 1
        BY <1>9, <1>12
      <4>2. old \in Nat /\ old <= st + 1
        BY <1>9, <4>1 DEF Larger
      <4>3. low \in Nat /\ low <= st
        BY <1>9
      <4> HIDE DEF old, low
      <4>4. Larger(old, low) \in Nat /\ Larger(old, low) <= st + 1
        BY <1>9, <4>2, <4>3 DEF Larger
      <4> QED
        BY <4>4 DEF old, low
    <3> HIDE DEF update
    <3>2. Late(update, st) \in Nat /\ Late(update, st) <= st + 1
      <4>1. LateMax \in Nat /\ LateKeep \in Nat
        BY SizesAssumption
      <4> QED
        BY <1>9, <3>1, <4>1 DEF Late, Smaller
    <3>3. nextToUpdate' = update \/ nextToUpdate' = Late(update, st)
      BY <1>1
    <3> QED
      BY <1>9, <3>1, <3>2, <3>3
  <2>2. HasExtDict(w) => st + n >= 4
    <3>1. HasExtDict(w) => st >= 4
      BY <1>7 DEF Given, Ctx
    <3> QED
      BY <1>9, <3>1
  <2>3. loadedDictEnd' # 0 => c = 0 /\ loadedDictEnd' = loadedDictEnd
    BY <1>4, <1>10
  <2>4. loadedDictEnd' \in Nat
    BY <1>4, <1>11
  <2>5. /\ loadedDictEnd' <= st + n
        /\ loadedDictEnd' # 0 => loadedDictEnd' + len = EndOf(w) + dictSize
    <3>1. CASE loadedDictEnd' = 0
      BY <1>9, <3>1
    <3>2. CASE loadedDictEnd' # 0
      BY <1>9, <1>11, <1>12, <2>3, <3>2
    <3> QED
      BY <3>1, <3>2
  <2>7. todo - n <= len - dictSize
    BY <1>9, <1>11, <1>12
  <2>8. w.dictLimit <= st + n
    BY <1>9
  <2> QED
    BY <1>1, <1>12, <1>15, <2>1, <2>2, <2>5, <2>7, <2>8 DEF Marks
<1>20. BlockMade(block)'
  <2>1. BlockKept(block)' <=> Kept(w, st + n)
    <3>1. Pos(w, st + n) = len - todo + n
      BY <1>7 DEF Given
    <3>2. block'.end = len - todo + n
      BY <1>14 DEF BlockLeft
    <3> QED
      BY <1>1, <3>1, <3>2 DEF BlockKept, Kept
  <2>2. /\ block'.wild = FALSE /\ block'.seqs \in Seq(Sequence)
        /\ block'.start \in Nat /\ block'.end \in Nat /\ block'.start <= block'.end
        /\ block'.end = len - todo + n
    BY <1>14 DEF BlockLeft
  <2>3. block'.end <= len
    BY <1>9, <1>11, <2>2
  <2>4. PICK e \in Progress :
          /\ e.at <= block'.end
          /\ Path(stream, Kept(w, st + n), block'.seqs,
                  [at |-> block'.start, rep |-> block'.decRep], e)
    BY <1>14 DEF BlockLeft
  <2>5. Path(stream', BlockKept(block)', block'.seqs,
             [at |-> block'.start, rep |-> block'.decRep], e)
    <3>1. stream' = stream
      BY <1>1
    <3>2. BlockKept(block)' = Kept(w, st + n)
      BY <2>1 DEF BlockKept, Kept
    <3> QED
      BY <2>4, <3>1, <3>2
  <2> QED
    BY <1>1, <2>2, <2>3, <2>4, <2>5 DEF BlockMade
<1>21. Kinds'
  BY <1>1, <1>6 DEF Kinds
<1> QED
  BY <1>16, <1>17, <1>18, <1>19, <1>20, <1>21 DEF SInv

-----------------------------------------------------------------------------
\* What follows for every behaviour.

LEMMA NextSInv ==
  ASSUME LowDictionaries, SInv, OffsetsInReach, [Next]_vars
  PROVE  SInv'
<1>1. CASE ResetContext \/ ContinueContext
  BY <1>1, BeginningKeeps
<1>2. CASE AddChunk
  BY <1>2, AddChunkSInv
<1>3. CASE CompressBlock
  BY <1>3, CompressBlockSInv
<1>4. CASE UNCHANGED vars
  <2>1. /\ window' = window /\ mem' = mem /\ loadedDictEnd' = loadedDictEnd
        /\ hashTable' = hashTable /\ chainTable' = chainTable /\ nextToUpdate' = nextToUpdate
        /\ strategy' = strategy /\ rep' = rep /\ todo' = todo /\ stream' = stream
        /\ dictSize' = dictSize /\ forced' = forced /\ decRep' = decRep /\ block' = block
        /\ calls' = calls
    BY <1>4 DEF vars, tables, frameVars
  <2>2. IInv'
    BY <1>4, NextInv DEF SInv
  <2>3. End' = End /\ Reached' = Reached
    BY <2>1 DEF End, Reached
  <2>4. TablesFit'
    BY <2>1, <2>3 DEF SInv, TablesFit
  <2>5. OffsetsAt(Reached)'
    BY <2>1, <2>3 DEF SInv, OffsetsAt, OffsetFits, Within
  <2>6. Marks'
    BY <2>1, <2>3 DEF SInv, Marks
  <2>7. BlockMade(block)'
    BY <2>1 DEF SInv, BlockMade, BlockKept
  <2>8. Kinds'
    BY <2>1 DEF SInv, Kinds
  <2> QED
    BY <2>2, <2>4, <2>5, <2>6, <2>7, <2>8 DEF SInv
<1> QED
  BY <1>1, <1>2, <1>3, <1>4 DEF Next

(* No table ever holds an index that was not reached yet, and the limits,  *)
(* the offsets and the marks of the compressor keep their ranges, where no *)
(* dictionary ends at a high index and no offset outlives a reduction.     *)
THEOREM TypeOKTheorem ==
  ASSUME LowDictionaries
  PROVE  Spec /\ []OffsetsInReach => []TypeOK
<1>1. SInv /\ OffsetsInReach /\ [Next]_vars => SInv'
  BY NextSInv
<1> QED
  BY InitSInv, SInvTypeOK, <1>1, PTL DEF Spec

(* Whatever a search finds, a decoder makes the block out of, with its own *)
(* repeat offsets, and no search reads what is not history, where no       *)
(* dictionary ends at a high index and no offset outlives a reduction.     *)
THEOREM RegeneratesTheorem ==
  ASSUME LowDictionaries
  PROVE  Spec /\ []OffsetsInReach => []Regenerates
<1>1. SInv /\ OffsetsInReach /\ [Next]_vars => SInv'
  BY NextSInv
<1> QED
  BY InitSInv, SInvRegenerates, <1>1, PTL DEF Spec

-----------------------------------------------------------------------------
\* Frames without a dictionary, those of jobs with a prefix among them.

NoDictionary == dictSize = 0 \/ forced

(* Offsets are then no longer than the window, which indices are reduced   *)
(* to at least.                                                            *)
LEMMA PlainOffsets == SInv /\ NoDictionary => OffsetsInReach
<1> SUFFICES ASSUME SInv, NoDictionary, todo > 0, NeedOverflowCorrection(Reached, NextBlock),
                    NEW k \in 1 .. 2
             PROVE  rep[k] <= Reached - Correction(Reached)
  BY DEF OffsetsInReach
<1>1. Reached \in Nat
  BY Limits DEF SInv, IInv, Reached, End
<1>2. Reached - Correction(Reached) = (Reached % Cycle) + MaxDist /\ Reached % Cycle \in Nat
  BY <1>1, Sizes DEF Correction
<1>3. rep[k] \in Nat /\ rep[k] <= MaxDist
  BY DEF SInv, OffsetsAt, OffsetFits, Within, Positive, NoDictionary
<1> QED
  BY <1>2, <1>3, Sizes

LEMMA NextPlain ==
  ASSUME DictIndexMax = 0, SInv, NoDictionary, [Next]_vars
  PROVE  NoDictionary'
<1>1. ASSUME NEW w, IsWindow(w), NEW t, Begin(w, t) PROVE NoDictionary'
  <2>1. CASE Plain(w, t)
    BY <2>1 DEF Plain, NoDictionary
  <2>2. ASSUME NEW dict \in Dicts, NEW place \in Places \cup {w.nextSrc}, NEW force \in BOOLEAN,
               WithDict(w, t, dict, place, force)
        PROVE  NoDictionary'
    <3>1. Len(dict) \in Nat /\ Len(dict) > 0 /\ EndOf(w) \in Nat
      BY <1>1, Limits, MemoryAssumption
    <3>2. (~force => EndOf(w) + Len(dict) <= DictIndexMax) /\ forced' = force
      BY <2>2 DEF WithDict
    <3> QED
      BY <3>1, <3>2 DEF NoDictionary
  <2> QED
    BY <1>1, <2>1, <2>2 DEF Begin
<1>2. IsWindow(WindowClear(window)) /\ IsWindow(NoWindow)
  BY ClearedWindow, EmptyWindow DEF SInv, IInv
<1>3. AddChunk \/ CompressBlock \/ UNCHANGED vars => UNCHANGED <<dictSize, forced>>
  BY DEF AddChunk, CompressBlock, vars, frameVars
<1> QED
  BY <1>1, <1>2, <1>3 DEF Next, ResetContext, ContinueContext, NoDictionary

(* Without dictionaries the decoder makes out every block, with no rule    *)
(* asked of the caller, whatever frames, prefixes and chunks came before.  *)
THEOREM PlainRegenerates ==
  ASSUME DictIndexMax = 0
  PROVE  Spec => []Regenerates
<1>1. LowDictionaries
  BY Sizes DEF LowDictionaries
<1>2. Init => NoDictionary
  BY DEF Init, NoDictionary
<1>3. SInv /\ NoDictionary /\ [Next]_vars => SInv' /\ NoDictionary'
  BY <1>1, NextSInv, NextPlain, PlainOffsets
<1> QED
  BY InitSInv, SInvRegenerates, <1>2, <1>3, PTL DEF Spec
=============================================================================
