-------------------------- MODULE MatchStateProofs --------------------------
(***************************************************************************)
(* For any memory, chunks, dictionaries and sizes: what the window of      *)
(* MatchState refers to is the history of the frame, and its indices stay  *)
(* within their limits.  What the searches find plays no part in it.       *)
(*                                                                         *)
(* The invariant says of the window that its limits are in order and its   *)
(* bytes those of the stream, and how far lowLimit lies behind: no more    *)
(* than MaxDist, unless a dictionary is in use, and then blocks have come  *)
(* no farther than MaxDist past its end.  Where dictionaries end low       *)
(* enough (LowDictionaries) none is in use by the time indices are reduced,*)
(* and that makes a reduction safe.                                        *)
(***************************************************************************)
EXTENDS MatchState, TLAPS

Window == [nextSrc : Int, base : Int, dictBase : Int, lowLimit : Nat, dictLimit : Nat]

IsWindow(w) ==
  /\ w \in Window
  /\ w.lowLimit <= w.dictLimit
  /\ w.dictLimit <= EndOf(w)

Place(w, i) == (IF i < w.dictLimit THEN w.dictBase ELSE w.base) + i

\* Byte i of window w is that byte of s, and in memory m.
HeldAt(m, w, s, i) ==
  /\ EndOf(w) - i <= Len(s)
  /\ Place(w, i) \in Area
  /\ m[Place(w, i)] = s[Len(s) - (EndOf(w) - i) + 1]
Holds(m, w, s) == \A i \in w.lowLimit .. EndOf(w) - 1 : HeldAt(m, w, s, i)

Near ==
  /\ loadedDictEnd \in Nat
  /\ loadedDictEnd = 0 => Reached <= window.lowLimit + MaxDist
  /\ loadedDictEnd # 0 => /\ dictSize > 0
                          /\ ~forced
                          /\ loadedDictEnd <= DictIndexMax
                          /\ Reached <= MaxDist + loadedDictEnd

IInv ==
  /\ mem \in [Area -> Byte]
  /\ stream \in Seq(Byte)
  /\ IsWindow(window)
  /\ todo \in 0 .. End
  /\ Holds(mem, window, stream)
  /\ Near

(* The sizes are numbers, and CURRENT_MAX leaves room for a window, a      *)
(* cycle and a block.                                                      *)
LEMMA Sizes ==
  /\ MaxDist \in Nat
  /\ BlockSize \in Nat
  /\ Cycle \in Nat
  /\ MaxDist > 0
  /\ BlockSize > 0
  /\ Cycle > 0
  /\ CurrentMax \in Nat
  /\ DictIndexMax \in Nat
  /\ CurrentMax >= MaxDist + Cycle + BlockSize
  BY SizesAssumption

-----------------------------------------------------------------------------
\* What the operations of zstd_compress_internal.h do to a window.

(* A window has room between its limits.                                   *)
LEMMA Limits ==
  ASSUME NEW w, IsWindow(w)
  PROVE  /\ w.lowLimit \in Nat
         /\ w.dictLimit \in Nat
         /\ w.nextSrc \in Int
         /\ w.base \in Int
         /\ w.dictBase \in Int
         /\ EndOf(w) \in Nat
  BY DEF IsWindow, Window, EndOf

(* ZSTD1_window_clear: nothing is left to refer to.                        *)
LEMMA ClearedWindow ==
  ASSUME NEW w, IsWindow(w)
  PROVE  /\ IsWindow(WindowClear(w))
         /\ EndOf(WindowClear(w)) = EndOf(w)
         /\ WindowClear(w).lowLimit = EndOf(w)
<1>1. EndOf(w) \in Nat
  BY Limits
<1>2. WindowClear(w) \in Window
  BY <1>1 DEF IsWindow, WindowClear, Window
<1>3. EndOf(WindowClear(w)) = EndOf(w)
  BY DEF IsWindow, WindowClear, Window, EndOf
<1>4. WindowClear(w).lowLimit = EndOf(w) /\ WindowClear(w).dictLimit = EndOf(w)
  BY <1>1 DEF IsWindow, WindowClear, Window
<1> QED
  BY <1>1, <1>2, <1>3, <1>4 DEF IsWindow

(* A window as memset leaves it.                                           *)
LEMMA EmptyWindow ==
  /\ IsWindow(NoWindow)
  /\ EndOf(NoWindow) = 0
  /\ NoWindow.lowLimit = 0
  BY DEF IsWindow, Window, NoWindow, EndOf

(* A new segment begins where the one before ends.                         *)
LEMMA Segment ==
  ASSUME NEW w, IsWindow(w), NEW src \in Int
  PROVE  LET v == NewSegment(w, src)
         IN /\ v \in Window
            /\ v.base = src - EndOf(w)
            /\ v.dictBase = w.base
            /\ v.dictLimit = EndOf(w)
            /\ v.lowLimit \in {w.dictLimit, EndOf(w)}
<1>1. EndOf(w) \in Nat
  BY Limits
<1> DEFINE low == IF EndOf(w) - w.dictLimit < HASH_READ_SIZE THEN EndOf(w) ELSE w.dictLimit
<1>2. low \in Nat /\ low \in {w.dictLimit, EndOf(w)}
  BY <1>1, Limits
<1>3. NewSegment(w, src) =
        [w EXCEPT !.lowLimit = low, !.dictLimit = EndOf(w), !.dictBase = w.base,
                  !.base = src - EndOf(w)]
  BY DEF NewSegment
<1> HIDE DEF low
<1> DEFINE v == NewSegment(w, src)
<1>4. w \in Window /\ w.base \in Int
  BY DEF IsWindow, Window
<1>5. v \in Window
  <2>1. v = [nextSrc |-> w.nextSrc, base |-> src - EndOf(w), dictBase |-> w.base,
             lowLimit |-> low, dictLimit |-> EndOf(w)]
    BY <1>3, <1>4 DEF Window
  <2>2. w.nextSrc \in Int /\ src - EndOf(w) \in Int
    BY <1>1, <1>4 DEF Window
  <2> HIDE DEF v
  <2> QED
    BY <1>1, <1>2, <1>4, <2>1, <2>2 DEF Window
<1>6. /\ v.base = src - EndOf(w)
      /\ v.dictBase = w.base
      /\ v.dictLimit = EndOf(w)
      /\ v.lowLimit = low
  BY <1>3, <1>4 DEF Window
<1> QED
  BY <1>2, <1>5, <1>6

(* Input that is written over the dictionary segment leaves only what lies *)
(* behind it.                                                              *)
LEMMA Overlap ==
  ASSUME NEW v \in Window, v.lowLimit <= v.dictLimit, NEW src \in Int, NEW size \in Nat
  PROVE  LET u == WithoutOverlap(v, src, size)
         IN /\ u \in Window
            /\ u.nextSrc = v.nextSrc
            /\ u.base = v.base
            /\ u.dictBase = v.dictBase
            /\ u.dictLimit = v.dictLimit
            /\ u.lowLimit >= v.lowLimit
            /\ u.lowLimit <= u.dictLimit
            /\ \A i \in Nat : i >= u.lowLimit /\ i < u.dictLimit =>
                 ~(src <= u.dictBase + i /\ u.dictBase + i < src + size)
<1>1. /\ v.lowLimit \in Nat
      /\ v.dictLimit \in Nat
      /\ v.dictBase \in Int
  BY DEF Window
<1> DEFINE low == Smaller(src + size - v.dictBase, v.dictLimit)
<1>2. CASE src + size > v.dictBase + v.lowLimit /\ src < v.dictBase + v.dictLimit
  <2>1. /\ low \in Nat
        /\ low >= v.lowLimit
        /\ low <= v.dictLimit
        /\ low = v.dictLimit \/ low = src + size - v.dictBase
    BY <1>1, <1>2 DEF Smaller
  <2>2. WithoutOverlap(v, src, size) = [v EXCEPT !.lowLimit = low]
    BY <1>2 DEF WithoutOverlap
  <2> HIDE DEF low
  <2> QED
    BY <1>1, <2>1, <2>2 DEF Window
<1>3. CASE ~(src + size > v.dictBase + v.lowLimit /\ src < v.dictBase + v.dictLimit)
  <2>1. WithoutOverlap(v, src, size) = v
    BY <1>3 DEF WithoutOverlap
  <2> QED
    BY <1>1, <1>3, <2>1
<1> QED
  BY <1>2, <1>3

(* ZSTD1_window_update: the input follows what there was, and no index     *)
(* that is left refers to memory the input was written to.                 *)
LEMMA Updated ==
  ASSUME NEW w, IsWindow(w), NEW src \in Int, NEW size \in Nat
  PROVE  LET u == WindowUpdate(w, src, size)
         IN /\ IsWindow(u)
            /\ EndOf(u) = EndOf(w) + size
            /\ u.lowLimit >= w.lowLimit
            /\ \A i \in Nat : i >= EndOf(w) => Place(u, i) = src + (i - EndOf(w))
            /\ \A i \in Nat : i >= u.lowLimit /\ i < EndOf(w) =>
                 /\ Place(u, i) = Place(w, i)
                 /\ ~(src <= Place(u, i) /\ Place(u, i) < src + size)
<1> DEFINE x == IF src = w.nextSrc THEN w ELSE NewSegment(w, src)
           v == [x EXCEPT !.nextSrc = src + size]
           u == WithoutOverlap(v, src, size)
<1>1. /\ w.lowLimit \in Nat
      /\ w.dictLimit \in Nat
      /\ w.nextSrc \in Int
      /\ w.base \in Int
      /\ w.dictBase \in Int
      /\ EndOf(w) \in Nat
      /\ w.lowLimit <= w.dictLimit
      /\ w.dictLimit <= EndOf(w)
  BY Limits DEF IsWindow
<1>2. /\ x \in Window
      /\ x.base = src - EndOf(w)
      /\ x.lowLimit >= w.lowLimit
      /\ x.lowLimit <= x.dictLimit
      /\ x.dictLimit <= EndOf(w)
      /\ \/ /\ src = w.nextSrc
            /\ x = w
         \/ /\ x.dictBase = w.base
            /\ x.dictLimit = EndOf(w)
            /\ x.lowLimit >= w.dictLimit
  <2>1. CASE src = w.nextSrc
    BY <1>1, <2>1 DEF IsWindow, EndOf
  <2>2. CASE src # w.nextSrc
    <3>1. x = NewSegment(w, src)
      BY <2>2
    <3> HIDE DEF x
    <3> QED
      BY <1>1, <3>1, Segment
  <2> QED
    BY <2>1, <2>2
<1> HIDE DEF x
<1>3. /\ v \in Window
      /\ v.nextSrc = src + size
      /\ v.base = x.base
      /\ v.dictBase = x.dictBase
      /\ v.lowLimit = x.lowLimit
      /\ v.dictLimit = x.dictLimit
  BY <1>2 DEF Window
<1> HIDE DEF v
<1>4. /\ u \in Window
      /\ u.nextSrc = v.nextSrc
      /\ u.base = v.base
      /\ u.dictBase = v.dictBase
      /\ u.dictLimit = v.dictLimit
      /\ u.lowLimit >= v.lowLimit
      /\ u.lowLimit <= u.dictLimit
      /\ \A i \in Nat : i >= u.lowLimit /\ i < u.dictLimit =>
           ~(src <= u.dictBase + i /\ u.dictBase + i < src + size)
  BY <1>2, <1>3, Overlap
<1>5. WindowUpdate(w, src, size) = u
  BY DEF WindowUpdate, v, x
<1> HIDE DEF u
<1>6. /\ x.lowLimit \in Nat
      /\ x.dictLimit \in Nat
      /\ u.lowLimit \in Nat
      /\ u.dictLimit \in Nat
      /\ u.dictBase \in Int
      /\ EndOf(u) = EndOf(w) + size
  BY <1>1, <1>2, <1>3, <1>4 DEF EndOf, Window
<1>7. IsWindow(u) /\ u.lowLimit >= w.lowLimit
  BY <1>1, <1>2, <1>3, <1>4, <1>6 DEF IsWindow
<1>8. ASSUME NEW i \in Nat, i >= EndOf(w)
      PROVE  Place(u, i) = src + (i - EndOf(w))
  BY <1>1, <1>2, <1>3, <1>4, <1>6, <1>8 DEF Place
<1>9. ASSUME NEW i \in Nat, i >= u.lowLimit, i < EndOf(w)
      PROVE  /\ Place(u, i) = Place(w, i)
             /\ ~(src <= Place(u, i) /\ Place(u, i) < src + size)
  <2>1. CASE i < u.dictLimit
    <3>1. Place(u, i) = u.dictBase + i
      BY <2>1 DEF Place
    <3>2. i < x.dictLimit /\ u.dictBase = x.dictBase
      BY <1>3, <1>4, <2>1
    <3>3. Place(w, i) = u.dictBase + i
      <4>1. CASE x = w
        BY <3>2, <4>1 DEF Place
      <4>2. CASE x.dictBase = w.base /\ x.lowLimit >= w.dictLimit
        <5>1. ~(i < w.dictLimit)
          BY <1>1, <1>3, <1>4, <1>6, <1>9, <4>2
        <5> QED
          BY <3>2, <4>2, <5>1 DEF Place
      <4> QED
        BY <1>2, <4>1, <4>2
    <3> QED
      BY <1>4, <1>9, <2>1, <3>1, <3>3
  <2>2. CASE ~(i < u.dictLimit)
    <3>1. src = w.nextSrc /\ x = w
      BY <1>1, <1>2, <1>3, <1>4, <1>6, <1>9, <2>2
    <3>2. Place(u, i) = w.base + i /\ Place(w, i) = w.base + i
      BY <1>2, <1>3, <1>4, <2>2, <3>1 DEF Place
    <3>3. w.base + i < src
      BY <1>1, <1>9, <3>1 DEF EndOf
    <3> QED
      BY <1>1, <3>2, <3>3
  <2> QED
    BY <2>1, <2>2
<1> QED
  BY <1>5, <1>6, <1>7, <1>8, <1>9

(* Input brought in behind what the window holds: it holds the longer      *)
(* history then, in memory as it is now.                                   *)
LEMMA UpdatedHolds ==
  ASSUME mem \in [Area -> Byte], NEW w, IsWindow(w), NEW s \in Seq(Byte), Holds(mem, w, s),
         NEW data \in Seq(Byte), Len(data) > 0, NEW src \in Int, Fits(data, src)
  PROVE  /\ Written(data, src) \in [Area -> Byte]
         /\ Holds(Written(data, src), WindowUpdate(w, src, Len(data)), s \o data)
<1> DEFINE u == WindowUpdate(w, src, Len(data))
           m == Written(data, src)
           t == s \o data
           n == Len(data)
<1>1. /\ n \in Nat
      /\ Len(s) \in Nat
      /\ t \in Seq(Byte)
      /\ Len(t) = Len(s) + n
  OBVIOUS
<1>2. \A a \in src .. src + n - 1 : a \in Area
  BY DEF Fits
<1>3. \A a \in Area : a \in Int
  BY MemoryAssumption
<1>4. m \in [Area -> Byte]
  BY <1>1 DEF Written
<1>5. \A a \in Area : m[a] = IF a \in src .. src + n - 1 THEN data[a - src + 1] ELSE mem[a]
  BY DEF Written
<1>6. /\ IsWindow(u)
      /\ EndOf(u) = EndOf(w) + n
      /\ u.lowLimit >= w.lowLimit
      /\ \A i \in Nat : i >= EndOf(w) => Place(u, i) = src + (i - EndOf(w))
      /\ \A i \in Nat : i >= u.lowLimit /\ i < EndOf(w) =>
           /\ Place(u, i) = Place(w, i)
           /\ ~(src <= Place(u, i) /\ Place(u, i) < src + n)
  BY <1>1, Updated
<1>7. /\ EndOf(w) \in Nat
      /\ w.lowLimit \in Nat
      /\ u.lowLimit \in Nat
  BY <1>6, Limits
<1> HIDE DEF u, m, t
<1>8. ASSUME NEW i \in u.lowLimit .. EndOf(u) - 1
      PROVE  HeldAt(m, u, t, i)
  <2>1. i \in Nat /\ i >= u.lowLimit /\ i < EndOf(w) + n
    BY <1>1, <1>6, <1>7
  <2>2. CASE i >= EndOf(w)
    <3> DEFINE k == i - EndOf(w)
    <3>1. k \in 0 .. n - 1 /\ EndOf(u) - i = n - k
      BY <1>1, <1>6, <1>7, <2>1, <2>2, SMTT(30)
    <3>2. Place(u, i) = src + k
      BY <1>6, <2>1, <2>2
    <3>3. src + k \in src .. src + n - 1 /\ (src + k) - src + 1 = k + 1
      BY <1>1, <3>1
    <3>4. Place(u, i) \in Area /\ m[Place(u, i)] = data[k + 1]
      BY <1>2, <1>5, <3>2, <3>3
    <3>5. Len(t) - (EndOf(u) - i) + 1 = Len(s) + (k + 1)
      BY <1>1, <3>1
    <3>6. t[Len(s) + (k + 1)] = data[k + 1]
      BY <1>1, <3>1 DEF t
    <3>7. EndOf(u) - i <= Len(t)
      BY <1>1, <3>1
    <3> QED
      BY <3>4, <3>5, <3>6, <3>7 DEF HeldAt
  <2>3. CASE i < EndOf(w)
    <3>0. i \in w.lowLimit .. EndOf(w) - 1
      BY <1>6, <1>7, <2>1, <2>3
    <3>1. HeldAt(mem, w, s, i)
      BY <3>0 DEF Holds
    <3>2. /\ Place(u, i) = Place(w, i)
          /\ ~(src <= Place(u, i) /\ Place(u, i) < src + n)
      BY <1>6, <2>1, <2>3
    <3>3. /\ Place(w, i) \in Area
          /\ Place(w, i) \notin src .. src + n - 1
      BY <1>1, <1>3, <3>1, <3>2 DEF HeldAt
    <3>4. m[Place(u, i)] = mem[Place(w, i)]
      BY <1>5, <3>2, <3>3
    <3> DEFINE j == Len(s) - (EndOf(w) - i) + 1
    <3>5. /\ j \in 1 .. Len(s)
          /\ Len(t) - (EndOf(u) - i) + 1 = j
          /\ EndOf(u) - i <= Len(t)
      <4>1. EndOf(w) - i <= Len(s)
        BY <3>1 DEF HeldAt
      <4>2. EndOf(u) = EndOf(w) + n /\ Len(t) = Len(s) + n /\ n \in Nat /\ Len(s) \in Nat
        BY <1>1, <1>6
      <4>3. EndOf(w) \in Nat /\ i \in Nat /\ i < EndOf(w)
        BY <1>7, <2>1, <2>3
      <4> HIDE DEF n
      <4> QED
        BY <4>1, <4>2, <4>3, SMTT(30)
    <3>6. t[j] = s[j]
      BY <1>1, <3>5 DEF t
    <3> QED
      BY <3>1, <3>2, <3>3, <3>4, <3>5, <3>6 DEF HeldAt
  <2> QED
    BY <1>7, <2>1, <2>2, <2>3
<1> QED
  BY <1>4, <1>8 DEF Holds, u, m, t

(* ZSTD1_window_correctOverflow: every index stands for the byte it stood  *)
(* for, when no more is taken off than there is below the lowest one.      *)
LEMMA Corrected ==
  ASSUME NEW w, IsWindow(w), NEW c \in Nat, c <= w.lowLimit,
         NEW m, NEW s \in Seq(Byte), Holds(m, w, s)
  PROVE  LET v == CorrectOverflow(w, c)
         IN /\ IsWindow(v)
            /\ EndOf(v) = EndOf(w) - c
            /\ v.lowLimit = w.lowLimit - c
            /\ v.dictLimit = w.dictLimit - c
            /\ Holds(m, v, s)
<1> DEFINE v == CorrectOverflow(w, c)
<1>1. /\ w \in Window
      /\ w.lowLimit \in Nat
      /\ w.dictLimit \in Nat
      /\ w.nextSrc \in Int
      /\ w.base \in Int
      /\ w.dictBase \in Int
      /\ EndOf(w) \in Nat
      /\ w.lowLimit <= w.dictLimit
      /\ w.dictLimit <= EndOf(w)
  BY Limits DEF IsWindow
<1>2. v = [nextSrc |-> w.nextSrc, base |-> w.base + c, dictBase |-> w.dictBase + c,
           lowLimit |-> w.lowLimit - c, dictLimit |-> w.dictLimit - c]
  <2>1. v = [w EXCEPT !.base = w.base + c, !.dictBase = w.dictBase + c,
                      !.lowLimit = w.lowLimit - c, !.dictLimit = w.dictLimit - c]
    BY <1>1 DEF CorrectOverflow, Window
  <2> HIDE DEF v
  <2> QED
    BY <1>1, <2>1 DEF Window
<1> HIDE DEF v
<1>3. v \in Window
  BY <1>1, <1>2 DEF Window
<1>4. /\ EndOf(v) = EndOf(w) - c
      /\ v.lowLimit = w.lowLimit - c
      /\ v.dictLimit = w.dictLimit - c
  BY <1>1, <1>2 DEF EndOf
<1>5. IsWindow(v)
  BY <1>1, <1>3, <1>4 DEF IsWindow
<1>6. ASSUME NEW i \in v.lowLimit .. EndOf(v) - 1
      PROVE  HeldAt(m, v, s, i)
  <2>1. i \in Nat /\ i + c \in w.lowLimit .. EndOf(w) - 1
    <3>1. i \in w.lowLimit - c .. EndOf(w) - c - 1
      BY <1>4
    <3> QED
      BY <1>1, <3>1
  <2>2. Place(v, i) = Place(w, i + c)
    <3>1. v.base = w.base + c /\ v.dictBase = w.dictBase + c
      BY <1>2
    <3>2. i < v.dictLimit <=> i + c < w.dictLimit
      BY <1>1, <1>4, <2>1
    <3> QED
      BY <1>1, <2>1, <3>1, <3>2 DEF Place
  <2>3. EndOf(v) - i = EndOf(w) - (i + c)
    BY <1>1, <1>4, <2>1
  <2>4. HeldAt(m, w, s, i + c)
    BY <2>1 DEF Holds
  <2> QED
    BY <2>2, <2>3, <2>4 DEF HeldAt
<1> QED
  BY <1>4, <1>5, <1>6 DEF Holds, v

(* ZSTD1_window_enforceMaxDist: what is left is no further away than the   *)
(* window is wide, once the dictionary is out of reach.                    *)
LEMMA Enforced ==
  ASSUME NEW w, IsWindow(w), NEW blockEnd \in Nat, blockEnd <= EndOf(w), NEW dictEnd \in Nat,
         NEW m, NEW s \in Seq(Byte), Holds(m, w, s)
  PROVE  LET v == EnforceMaxDist(w, blockEnd, dictEnd)
         IN /\ IsWindow(v)
            /\ EndOf(v) = EndOf(w)
            /\ v.lowLimit = IF PastMaxDist(blockEnd, dictEnd)
                            THEN Larger(w.lowLimit, blockEnd - MaxDist) ELSE w.lowLimit
            /\ v.dictLimit = IF PastMaxDist(blockEnd, dictEnd)
                             THEN Larger(w.dictLimit, v.lowLimit) ELSE w.dictLimit
            /\ Holds(m, v, s)
<1> DEFINE v == EnforceMaxDist(w, blockEnd, dictEnd)
           low == Larger(w.lowLimit, blockEnd - MaxDist)
<1>1. /\ w \in Window
      /\ w.lowLimit \in Nat
      /\ w.dictLimit \in Nat
      /\ w.nextSrc \in Int
      /\ w.base \in Int
      /\ EndOf(w) \in Nat
      /\ w.lowLimit <= w.dictLimit
      /\ w.dictLimit <= EndOf(w)
  BY Limits DEF IsWindow
<1>2. CASE PastMaxDist(blockEnd, dictEnd)
  <2> DEFINE dict == Larger(w.dictLimit, low)
  <2>1. /\ low \in Nat
        /\ low >= w.lowLimit
        /\ low <= EndOf(w)
    BY <1>1, Sizes DEF Larger
  <2>2. v = [w EXCEPT !.lowLimit = low, !.dictLimit = dict]
    BY <1>2 DEF EnforceMaxDist
  <2> HIDE DEF v, low
  <2>3. /\ dict \in Nat
        /\ low <= dict
        /\ dict <= EndOf(w)
        /\ dict >= w.dictLimit
        /\ dict = w.dictLimit \/ dict = low
    BY <1>1, <2>1 DEF Larger
  <2> HIDE DEF dict
  <2>4. /\ v \in Window
        /\ v.nextSrc = w.nextSrc
        /\ v.base = w.base
        /\ v.dictBase = w.dictBase
        /\ v.lowLimit = low
        /\ v.dictLimit = dict
    BY <1>1, <2>1, <2>2, <2>3 DEF Window
  <2>5. EndOf(v) = EndOf(w)
    BY <2>4 DEF EndOf
  <2>6. IsWindow(v)
    BY <2>3, <2>4, <2>5 DEF IsWindow
  <2>7. ASSUME NEW i \in v.lowLimit .. EndOf(v) - 1
        PROVE  HeldAt(m, v, s, i)
    <3>1. i \in Nat /\ i >= low /\ i \in w.lowLimit .. EndOf(w) - 1
      BY <1>1, <2>1, <2>4, <2>5
    <3>2. i < dict <=> i < w.dictLimit
      BY <1>1, <2>1, <2>3, <3>1
    <3>3. Place(v, i) = Place(w, i)
      BY <2>4, <3>2 DEF Place
    <3>4. HeldAt(m, w, s, i)
      BY <3>1 DEF Holds
    <3> QED
      BY <2>5, <3>3, <3>4 DEF HeldAt
  <2>8. v.lowLimit = Larger(w.lowLimit, blockEnd - MaxDist)
    BY <2>4 DEF low
  <2>9. v.dictLimit = Larger(w.dictLimit, v.lowLimit)
    BY <2>4 DEF dict
  <2> QED
    BY <1>2, <2>5, <2>6, <2>7, <2>8, <2>9 DEF Holds, v
<1>3. CASE ~PastMaxDist(blockEnd, dictEnd)
  BY <1>3 DEF EnforceMaxDist
<1> QED
  BY <1>2, <1>3
-----------------------------------------------------------------------------
\* The invariant is kept.

LEMMA InitInv == Init => IInv
<1> SUFFICES ASSUME Init PROVE IInv
  OBVIOUS
<1>1. mem \in [Area -> Byte] /\ stream = <<>> /\ stream \in Seq(Byte)
  BY MemoryAssumption DEF Init
<1>2. /\ IsWindow(window)
      /\ EndOf(window) = 0
      /\ window.lowLimit = 0
  BY EmptyWindow DEF Init
<1>3. todo = 0 /\ loadedDictEnd = 0
  BY DEF Init
<1>4. Holds(mem, window, stream)
  BY <1>2 DEF Holds
<1>5. Near
  BY <1>2, <1>3, Sizes DEF Near, Reached, End
<1> QED
  BY <1>1, <1>2, <1>3, <1>4, <1>5 DEF IInv, End

(* A frame, with its dictionary, behind a window that refers to nothing.   *)
LEMMA FrameBegins ==
  ASSUME IInv, NEW w, IsWindow(w), w.lowLimit = EndOf(w), NEW t, Begin(w, t)
  PROVE  IInv'
<1>1. EndOf(w) \in Nat
  BY Limits
<1>2. todo' = 0
  BY DEF Begin, NewFrame
<1>3. Holds(mem, w, <<>>)
  BY <1>1 DEF Holds
<1>4. mem \in [Area -> Byte]
  BY DEF IInv
<1>5. CASE Plain(w, t)
  <2>1. /\ window' = w
        /\ mem' = mem
        /\ stream' = <<>>
        /\ loadedDictEnd' = 0
    BY <1>5 DEF Plain
  <2>2. Near'
    BY <1>1, <1>2, <2>1, Sizes DEF Near, Reached, End
  <2>3. Holds(mem, w, <<>>)'
    BY <1>3, <2>1 DEF Holds, HeldAt
  <2> QED
    BY <1>1, <1>2, <1>3, <1>4, <2>1, <2>2 DEF IInv, End
<1>6. ASSUME NEW dict \in Dicts, NEW place \in Places \cup {w.nextSrc}, NEW force \in BOOLEAN,
             WithDict(w, t, dict, place, force)
      PROVE  IInv'
  <2> DEFINE u == WindowUpdate(w, place, Len(dict))
  <2>1. /\ dict \in Seq(Byte)
        /\ Len(dict) \in Nat
        /\ Len(dict) > 0
    BY MemoryAssumption
  <2>2. place \in Int
    BY Limits, MemoryAssumption
  <2>3. /\ Fits(dict, place)
        /\ mem' = Written(dict, place)
        /\ window' = u
        /\ stream' = dict
        /\ dictSize' = Len(dict)
        /\ forced' = force
        /\ force => Len(dict) <= MaxDist
        /\ ~force => EndOf(w) + Len(dict) <= DictIndexMax
    BY <1>6 DEF WithDict
  <2>4. loadedDictEnd' = IF force THEN 0 ELSE EndOf(window')
    BY <1>6 DEF WithDict
  <2>5. /\ IsWindow(u)
        /\ EndOf(u) = EndOf(w) + Len(dict)
        /\ u.lowLimit >= w.lowLimit
    BY <2>1, <2>2, Updated
  <2>6. u.lowLimit \in Nat /\ EndOf(u) \in Nat
    BY <2>5, Limits
  <2>7. Written(dict, place) \in [Area -> Byte] /\ Holds(Written(dict, place), u, <<>> \o dict)
    <3>1. <<>> \in Seq(Byte)
      OBVIOUS
    <3>2. Fits(dict, place)
      BY <2>3
    <3> QED
      BY <1>3, <1>4, <2>1, <2>2, <3>1, <3>2, UpdatedHolds
  <2>8. <<>> \o dict = dict
    BY <2>1
  <2> HIDE DEF u
  <2>9. Near'
    <3>1. Reached' = EndOf(u) /\ End' = EndOf(u) /\ window'.lowLimit = u.lowLimit
      BY <1>2, <2>3, <2>6 DEF Reached, End
    <3>2. CASE force
      BY <1>1, <2>1, <2>3, <2>4, <2>5, <2>6, <3>1, <3>2, Sizes DEF Near
    <3>3. CASE ~force
      BY <1>1, <2>1, <2>3, <2>4, <2>5, <2>6, <3>1, <3>3, Sizes DEF Near
    <3> QED
      BY <3>2, <3>3
  <2> QED
    BY <1>2, <2>1, <2>3, <2>5, <2>6, <2>7, <2>8, <2>9 DEF IInv, End
<1> QED
  BY <1>5, <1>6 DEF Begin

LEMMA AddChunkInv ==
  ASSUME IInv, AddChunk
  PROVE  IInv'
<1>1. PICK data \in Chunks, place \in Places \cup {window.nextSrc} :
        /\ Fits(data, place)
        /\ EndOf(window) + Len(data) <= IndexMax
        /\ mem' = Written(data, place)
        /\ window' = WindowUpdate(window, place, Len(data))
        /\ stream' = stream \o data
        /\ todo' = Len(data)
  BY DEF AddChunk
<1>2. /\ todo = 0
      /\ loadedDictEnd' = loadedDictEnd
      /\ dictSize' = dictSize
      /\ forced' = forced
  BY DEF AddChunk
<1>3. /\ data \in Seq(Byte)
      /\ Len(data) \in Nat
      /\ Len(data) > 0
  BY MemoryAssumption
<1>4. IsWindow(window) /\ mem \in [Area -> Byte] /\ stream \in Seq(Byte)
  BY DEF IInv
<1>5. /\ place \in Int
      /\ EndOf(window) \in Nat
      /\ window.lowLimit \in Nat
  BY <1>4, Limits, MemoryAssumption
<1>6. /\ IsWindow(window')
      /\ EndOf(window') = EndOf(window) + Len(data)
      /\ window'.lowLimit >= window.lowLimit
  BY <1>1, <1>3, <1>4, <1>5, Updated
<1>7. window'.lowLimit \in Nat /\ EndOf(window') \in Nat
  BY <1>6, Limits
<1>8. mem' \in [Area -> Byte] /\ Holds(mem', window', stream')
  BY <1>1, <1>3, <1>4, <1>5, UpdatedHolds DEF IInv
<1>9. Near'
  <2>1. /\ End = EndOf(window)
        /\ Reached = EndOf(window)
        /\ End' = EndOf(window')
        /\ Reached' = EndOf(window)
    BY <1>1, <1>2, <1>3, <1>5, <1>6, <1>7 DEF End, Reached
  <2>2. /\ loadedDictEnd \in Nat
        /\ loadedDictEnd = 0 => EndOf(window) <= window.lowLimit + MaxDist
        /\ loadedDictEnd # 0 => /\ dictSize > 0 /\ ~forced
                                /\ loadedDictEnd <= DictIndexMax
                                /\ EndOf(window) <= MaxDist + loadedDictEnd
    BY <2>1 DEF IInv, Near
  <2> QED
    BY <1>2, <1>5, <1>6, <1>7, <2>1, <2>2, Sizes DEF Near
<1> QED
  BY <1>1, <1>3, <1>4, <1>5, <1>6, <1>7, <1>8, <1>9 DEF IInv, End

(* A block: the indices are reduced when it would reach past CURRENT_MAX,  *)
(* by no more than is below lowLimit.                                      *)
Step ==
  /\ Reached' <= CurrentMax
  /\ NeedOverflowCorrection(Reached, NextBlock) =>
       Correction(Reached) \in 1 .. window.lowLimit
  /\ Reached' - window'.lowLimit >= Smaller(Reached - window.lowLimit, MaxDist)

\* The turn of ZSTD1_compress_frameChunk for n bytes from index current on: indices are
\* reduced by c, and the window becomes w.
Turns(n, current, correct, c, dictEnd, w) ==
  /\ n = Smaller(BlockSize, todo)
  /\ current = EndOf(window) - todo
  /\ correct = NeedOverflowCorrection(current, n)
  /\ c = IF correct THEN Correction(current) ELSE 0
  /\ dictEnd = IF correct THEN 0 ELSE loadedDictEnd
  /\ w = EnforceMaxDist(CorrectOverflow(window, c), current - c + n, dictEnd)
\* How the block finds its window.
Past(n, current, c, dictEnd) == current - c + n > MaxDist + dictEnd
Ready(n, current, correct, c, dictEnd, w) ==
  /\ n \in 1 .. BlockSize /\ todo \in n .. EndOf(window)
  /\ current \in Nat /\ current = Reached
  /\ c \in 0 .. window.lowLimit /\ c <= current
  /\ ~correct => c = 0
  /\ correct => /\ c > 0 /\ loadedDictEnd = 0
                /\ current - c >= MaxDist /\ current - c + n <= CurrentMax
                /\ current + n > CurrentMax
  /\ dictEnd = IF correct THEN 0 ELSE loadedDictEnd
  /\ IsWindow(w)
  /\ EndOf(w) = EndOf(window) - c
  /\ w.lowLimit = IF Past(n, current, c, dictEnd)
                  THEN Larger(window.lowLimit - c, (current - c + n) - MaxDist)
                  ELSE window.lowLimit - c
  /\ w.dictLimit = IF Past(n, current, c, dictEnd) THEN Larger(window.dictLimit - c, w.lowLimit)
                   ELSE window.dictLimit - c
  /\ Holds(mem, w, stream)

LEMMA BlockReady ==
  ASSUME LowDictionaries, IInv, todo > 0, NEW n, NEW current, NEW correct \in BOOLEAN, NEW c, NEW dictEnd, NEW w,
         Turns(n, current, correct, c, dictEnd, w)
  PROVE  Ready(n, current, correct, c, dictEnd, w)
<1> DEFINE v == CorrectOverflow(window, c)
           blockEnd == current - c + n
<1>1. /\ n = Smaller(BlockSize, todo)
      /\ current = EndOf(window) - todo
      /\ correct = NeedOverflowCorrection(current, n)
      /\ c = IF correct THEN Correction(current) ELSE 0
      /\ dictEnd = IF correct THEN 0 ELSE loadedDictEnd
      /\ w = EnforceMaxDist(v, blockEnd, dictEnd)
  BY DEF Turns
<1>2. /\ IsWindow(window)
      /\ mem \in [Area -> Byte]
      /\ stream \in Seq(Byte)
      /\ todo \in 0 .. EndOf(window)
      /\ Holds(mem, window, stream)
      /\ loadedDictEnd \in Nat
      /\ loadedDictEnd = 0 => current <= window.lowLimit + MaxDist
      /\ loadedDictEnd # 0 => /\ dictSize > 0
                              /\ ~forced
                              /\ loadedDictEnd <= DictIndexMax
                              /\ current <= MaxDist + loadedDictEnd
  BY <1>1 DEF IInv, Near, Reached, End
<1>3. EndOf(window) \in Nat /\ window.lowLimit \in Nat /\ window.lowLimit <= EndOf(window)
  BY <1>2, Limits DEF IsWindow
<1>4. /\ n \in Nat
      /\ n > 0
      /\ n <= todo
      /\ n <= BlockSize
      /\ current \in Nat
      /\ current + n <= EndOf(window)
  BY <1>1, <1>2, <1>3, Sizes DEF Smaller
<1>5. /\ current % Cycle \in 0 .. Cycle - 1
      /\ correct <=> current + n > CurrentMax
      /\ correct => c = current - ((current % Cycle) + MaxDist)
      /\ ~correct => c = 0
  <2>1. current % Cycle \in 0 .. Cycle - 1
    BY <1>4, Sizes
  <2>2. correct <=> NeedOverflowCorrection(current, n)
    BY <1>1
  <2>3. (correct => c = Correction(current)) /\ (~correct => c = 0)
    BY <1>1
  <2> QED
    BY <2>1, <2>2, <2>3 DEF NeedOverflowCorrection, Correction
<1>6. correct => loadedDictEnd = 0
  BY <1>2, <1>3, <1>4, <1>5, Sizes, SMTT(30) DEF LowDictionaries
<1>7. /\ c \in 0 .. window.lowLimit
      /\ c <= current
      /\ correct => c > 0
      /\ correct => current - c + n <= CurrentMax
      /\ correct => current - c >= MaxDist
  <2>1. CASE correct
    <3> DEFINE r == current % Cycle
    <3>1. /\ r \in Nat
          /\ r < Cycle
          /\ c = current - (r + MaxDist)
          /\ current + n > CurrentMax
          /\ current <= window.lowLimit + MaxDist
      BY <1>2, <1>5, <1>6, <2>1, Sizes
    <3> HIDE DEF r
    <3>2. c > 0 /\ c <= window.lowLimit /\ c <= current
      BY <1>3, <1>4, <3>1, Sizes
    <3>3. current - c + n <= CurrentMax /\ current - c >= MaxDist
      BY <1>4, <3>1, Sizes
    <3> QED
      BY <1>3, <1>4, <3>1, <3>2, <3>3, Sizes
  <2>2. CASE ~correct
    BY <1>3, <1>4, <1>5, <2>2
  <2> QED
    BY <2>1, <2>2
<1>8. /\ IsWindow(v)
      /\ EndOf(v) = EndOf(window) - c
      /\ v.lowLimit = window.lowLimit - c
      /\ v.dictLimit = window.dictLimit - c
      /\ Holds(mem, v, stream)
  BY <1>2, <1>3, <1>7, Corrected
<1>9. /\ blockEnd \in Nat
      /\ blockEnd <= EndOf(v)
      /\ dictEnd \in Nat
  <2>1. dictEnd \in Nat
    BY <1>1, <1>2
  <2> HIDE DEF v
  <2> QED
    BY <1>3, <1>4, <1>7, <1>8, <2>1
<1> HIDE DEF v, blockEnd
<1>10. PastMaxDist(blockEnd, dictEnd) <=> Past(n, current, c, dictEnd)
  BY DEF PastMaxDist, Past, blockEnd
<1>11. /\ IsWindow(w)
       /\ EndOf(w) = EndOf(window) - c
       /\ w.lowLimit = (IF PastMaxDist(blockEnd, dictEnd)
                        THEN Larger(v.lowLimit, blockEnd - MaxDist) ELSE v.lowLimit)
       /\ w.dictLimit = (IF PastMaxDist(blockEnd, dictEnd)
                         THEN Larger(v.dictLimit, w.lowLimit) ELSE v.dictLimit)
       /\ Holds(mem, w, stream)
  BY <1>1, <1>2, <1>8, <1>9, Enforced
<1>12. current = Reached
  BY <1>1 DEF Reached, End
<1>13. w.lowLimit = (IF Past(n, current, c, dictEnd)
                     THEN Larger(window.lowLimit - c, (current - c + n) - MaxDist)
                     ELSE window.lowLimit - c)
  <2>1. CASE Past(n, current, c, dictEnd)
    BY <1>8, <1>10, <1>11, <2>1 DEF blockEnd
  <2>2. CASE ~Past(n, current, c, dictEnd)
    BY <1>8, <1>10, <1>11, <2>2
  <2> QED
    BY <2>1, <2>2
<1>14. n \in 1 .. BlockSize /\ todo \in n .. EndOf(window)
  BY <1>2, <1>3, <1>4, Sizes
<1> QED
  BY <1>1, <1>4, <1>5, <1>6, <1>7, <1>8, <1>10, <1>11, <1>12, <1>13, <1>14 DEF Ready

LEMMA CompressBlockInv ==
  ASSUME LowDictionaries, IInv, CompressBlock
  PROVE  IInv' /\ Step
<1> DEFINE n == Smaller(BlockSize, todo)
           current == EndOf(window) - todo
           correct == NeedOverflowCorrection(current, n)
           c == IF correct THEN Correction(current) ELSE 0
           dictEnd == IF correct THEN 0 ELSE loadedDictEnd
           blockEnd == current - c + n
           past == Past(n, current, c, dictEnd)
           w == EnforceMaxDist(CorrectOverflow(window, c), current - c + n, dictEnd)
<1>1. /\ todo > 0
      /\ window' = w
      /\ loadedDictEnd' = (IF PastMaxDist(blockEnd, dictEnd) THEN 0 ELSE dictEnd)
      /\ todo' = todo - n
      /\ mem' = mem
      /\ stream' = stream
      /\ dictSize' = dictSize
      /\ forced' = forced
  BY DEF CompressBlock
<1>2. Ready(n, current, correct, c, dictEnd, window')
  <2>1. Turns(n, current, correct, c, dictEnd, window')
    BY <1>1 DEF Turns
  <2>2. correct \in BOOLEAN
    BY DEF NeedOverflowCorrection
  <2> HIDE DEF n, current, correct, c, dictEnd
  <2> QED
    BY <1>1, <2>1, <2>2, BlockReady
<1>3. /\ correct => Correction(current) = c
      /\ NextBlock = n
      /\ correct <=> NeedOverflowCorrection(current, n)
      /\ current + n > CurrentMax => correct
      /\ loadedDictEnd' = IF past THEN 0 ELSE dictEnd
  BY <1>1 DEF NextBlock, NeedOverflowCorrection, PastMaxDist, Past
<1> HIDE DEF n, current, correct, c, dictEnd, w
<1>4. /\ mem \in [Area -> Byte]
      /\ stream \in Seq(Byte)
      /\ loadedDictEnd \in Nat
      /\ loadedDictEnd # 0 => /\ dictSize > 0
                              /\ ~forced
                              /\ loadedDictEnd <= DictIndexMax
      /\ EndOf(window) \in Nat /\ window.lowLimit \in Nat /\ window.lowLimit <= EndOf(window)
  BY Limits DEF IInv, Near, End, IsWindow
<1>5. /\ n \in Nat /\ n > 0 /\ n <= todo /\ todo \in Nat /\ todo <= EndOf(window)
      /\ current \in Nat /\ current = Reached /\ Reached = EndOf(window) - todo
      /\ c \in Nat /\ c <= window.lowLimit /\ c <= current
      /\ ~correct => c = 0
      /\ correct => c > 0 /\ loadedDictEnd = 0 /\ current - c + n <= CurrentMax
      /\ dictEnd = IF correct THEN 0 ELSE loadedDictEnd
      /\ IsWindow(window') /\ EndOf(window') = EndOf(window) - c
      /\ window'.lowLimit = IF past THEN Larger(window.lowLimit - c, blockEnd - MaxDist)
                            ELSE window.lowLimit - c
      /\ Holds(mem, window', stream)
  BY <1>2, <1>4, Sizes DEF Ready, Reached, End
<1>6. past <=> blockEnd > MaxDist + dictEnd
  BY DEF Past
<1>7. blockEnd = current - c + n
  OBVIOUS
<1> HIDE DEF past, blockEnd
<1>8. window'.lowLimit \in Nat /\ EndOf(window') \in Nat /\ blockEnd \in Nat /\ dictEnd \in Nat
  <2>1. window'.lowLimit \in Nat /\ EndOf(window') \in Nat
    BY <1>5, Limits
  <2>2. blockEnd \in Nat
    BY <1>5, <1>7
  <2>3. dictEnd \in Nat
    BY <1>4, <1>5
  <2> QED
    BY <2>1, <2>2, <2>3
<1>9. End' = EndOf(window) - c /\ Reached' = blockEnd
  BY <1>1, <1>4, <1>5, <1>8, <1>7 DEF End, Reached
<1>10. Near'
  <2>1. CASE loadedDictEnd' = 0
    <3>1. past \/ dictEnd = 0
      BY <1>3, <2>1
    <3>2. blockEnd <= window'.lowLimit + MaxDist
      <4>1. CASE past
        <5>1. window'.lowLimit >= blockEnd - MaxDist
          BY <1>4, <1>5, <1>8, <4>1, Sizes DEF Larger
        <5> QED
          BY <1>8, <5>1, Sizes
      <4>2. CASE ~past
        BY <1>6, <1>8, <3>1, <4>2, Sizes
      <4> QED
        BY <4>1, <4>2
    <3> QED
      BY <1>9, <2>1, <3>2 DEF Near
  <2>2. CASE loadedDictEnd' # 0
    <3>1. /\ ~correct
          /\ loadedDictEnd # 0
          /\ loadedDictEnd' = loadedDictEnd
          /\ c = 0
      BY <1>3, <1>5, <2>2
    <3>2. Reached' <= MaxDist + loadedDictEnd'
      <4>1. ~past
        BY <1>3, <2>2
      <4> QED
        BY <1>4, <1>5, <1>6, <1>8, <1>9, <3>1, <4>1, Sizes
    <3> QED
      BY <1>1, <1>4, <2>2, <3>1, <3>2 DEF Near
  <2> QED
    BY <2>1, <2>2
<1>11. IInv'
  <2>1. todo' \in 0 .. EndOf(window')
    BY <1>1, <1>4, <1>5, <1>8
  <2>2. Holds(mem, window, stream)'
    BY <1>1, <1>5 DEF Holds, HeldAt
  <2> QED
    BY <1>1, <1>4, <1>5, <1>10, <2>1, <2>2 DEF IInv, End
<1>12. Reached' <= CurrentMax
  <2>1. CASE correct
    BY <1>5, <1>7, <1>9, <2>1
  <2>2. CASE ~correct
    BY <1>3, <1>5, <1>7, <1>9, <2>2, Sizes
  <2> QED
    BY <2>1, <2>2
<1>13. NeedOverflowCorrection(Reached, NextBlock) => Correction(Reached) \in 1 .. window.lowLimit
  <2> SUFFICES ASSUME NeedOverflowCorrection(Reached, NextBlock)
               PROVE  Correction(Reached) \in 1 .. window.lowLimit
    OBVIOUS
  <2>1. correct /\ Correction(Reached) = c
    BY <1>3, <1>5
  <2> QED
    BY <1>4, <1>5, <2>1
<1>14. Reached' - window'.lowLimit >= Smaller(Reached - window.lowLimit, MaxDist)
  <2> DEFINE low == window.lowLimit
             lowNew == window'.lowLimit
  <2>1. /\ Smaller(current - low, MaxDist) <= current - low
        /\ Smaller(current - low, MaxDist) <= MaxDist
        /\ Smaller(current - low, MaxDist) \in Int
    BY <1>4, <1>5, Sizes DEF Smaller
  <2>2. /\ low \in Nat /\ lowNew \in Nat /\ current \in Nat /\ n \in Nat /\ c \in Nat
        /\ blockEnd \in Nat
        /\ lowNew = low - c \/ lowNew = blockEnd - MaxDist
        /\ Reached' = blockEnd /\ Reached = current
    BY <1>4, <1>5, <1>8, <1>9 DEF Larger
  <2> HIDE DEF low, lowNew
  <2>3. blockEnd - lowNew >= Smaller(current - low, MaxDist)
    BY <1>7, <2>1, <2>2, Sizes
  <2> QED
    BY <2>2, <2>3 DEF low, lowNew
<1> QED
  BY <1>11, <1>12, <1>13, <1>14 DEF Step

LEMMA NextInv ==
  ASSUME LowDictionaries, IInv, [Next]_vars
  PROVE  IInv'
<1>1. IsWindow(window)
  BY DEF IInv
<1>2. CASE ResetContext
  BY <1>2, EmptyWindow, FrameBegins DEF ResetContext
<1>3. CASE ContinueContext
  BY <1>1, <1>3, ClearedWindow, FrameBegins DEF ContinueContext
<1>4. CASE AddChunk
  BY <1>4, AddChunkInv
<1>5. CASE CompressBlock
  BY <1>5, CompressBlockInv
<1>6. CASE UNCHANGED vars
  BY <1>6 DEF vars, frameVars, IInv, Near, Holds, HeldAt, Place, IsWindow, EndOf, End, Reached
<1> QED
  BY <1>2, <1>3, <1>4, <1>5, <1>6 DEF Next

-----------------------------------------------------------------------------
\* What follows for every behaviour.

(* The window's limits stay in order, whatever frames and chunks came      *)
(* before, and lowLimit stays close enough behind for a reduction, where   *)
(* no dictionary ends at a high index.                                     *)
THEOREM WindowInvariant ==
  ASSUME LowDictionaries
  PROVE  Spec => []IInv
<1>1. IInv /\ [Next]_vars => IInv'
  BY NextInv
<1> QED
  BY InitInv, <1>1, PTL DEF Spec

(* Every index a search may refer to is a byte of the frame or of its      *)
(* dictionary and still in the caller's memory, where no dictionary ends   *)
(* at a high index.                                                        *)
THEOREM HistoryTheorem ==
  ASSUME LowDictionaries
  PROVE  Spec => []HistoryIntact
<1>1. IInv => HistoryIntact
  BY DEF IInv, Holds, HeldAt, Place, HistoryIntact, AddressOf, End
<1> QED
  BY <1>1, WindowInvariant, PTL

(* Where no dictionary ends at a high index, indices stay below            *)
(* ZSTD1_CURRENT_MAX while blocks are compressed, and reducing them takes  *)
(* no limit of the window below zero.  The code does not see to the        *)
(* hypothesis: lowLimit -= correction (zstd_compress_internal.h:521) fails *)
(* without it.                                                             *)
THEOREM IndicesTheorem ==
  ASSUME LowDictionaries
  PROVE  Spec => IndicesReduced
<1>1. IInv /\ CompressBlock => Step
  BY CompressBlockInv
<1> QED
  BY <1>1, WindowInvariant, PTL DEF Spec, IndicesReduced, Step
=============================================================================
