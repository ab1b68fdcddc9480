-------------------------------- MODULE Bits --------------------------------
(***************************************************************************)
(* bitstream.h, the reading half: a sequence of bytes read backwards, bit  *)
(* by bit, from the mark that ends it.  A stream keeps the address of the  *)
(* Word bytes its container holds and how many of their bits are consumed; *)
(* the container is what those bytes say, so it is not kept.               *)
(***************************************************************************)
EXTENDS Common, Sequences

CONSTANT Word       \* sizeof(size_t)

ASSUME WordAssumption == Word \in {4, 8}

RECURSIVE Field(_, _, _)

\* A call that failed, and what follows one that may have.
Fail(error) == [ret |-> error]
Then(r, Next(_)) == IF IsError(r.ret) THEN r ELSE Next(r)

\* BIT_DStream_status
Unfinished == 0
EndOfBuffer == 1
Completed == 2
Overflow == 3

\* Byte i of s, counted from 0; what is outside s is not read.
Byte(s, i) == IF i \in 0 .. Len(s) - 1 THEN s[i + 1] ELSE 0
From(s, i) == SubSeq(s, i + 1, Len(s))
Slice(s, i, n) == SubSeq(s, i + 1, i + n)

\* MEM_readLE16, MEM_readLE24 and MEM_readLE32
LE16(s, i) == Field(s, 8 * i, 16)
LE24(s, i) == Field(s, 8 * i, 24)

\* BIT_highbit32
HighBit(n) == CHOOSE k \in 0 .. 29 : n \div 2 ^ k = 1

BIT_initDStream(src) ==
  LET n == Len(src)
      last == Byte(src, n - 1)
  IN IF n < 1 THEN Fail(Error.srcSize_wrong)
     ELSE IF last = 0
          THEN Fail(IF n >= Word THEN Error.GENERIC ELSE Error.corruption_detected)
     ELSE [ret |-> n, src |-> src, ptr |-> Larger(n - Word, 0), status |-> Unfinished,
           consumed |-> 8 - HighBit(last) + 8 * Larger(Word - n, 0)]

\* The next n bits.  What the container does not hold reads as zeros, and a
\* container consumed beyond its end starts again from its top.
BIT_lookBits(d, n) ==
  LET top == 8 * (d.ptr + Word) - (d.consumed % (8 * Word))
      low == top - n
      base == 8 * d.ptr
  IN IF low >= base THEN Field(d.src, low, n)
     ELSE Field(d.src, base, top - base) * 2 ^ (base - low)

BIT_skipBits(d, n) == [d EXCEPT !.consumed = @ + n]

BIT_reloadDStream(d) ==
  LET wanted == d.consumed \div 8
      bytes == Smaller(wanted, d.ptr)
      Moved(status) == [d EXCEPT !.ptr = @ - bytes, !.consumed = @ - 8 * bytes,
                                 !.status = status]
  IN IF d.consumed > 8 * Word THEN [d EXCEPT !.status = Overflow]
     ELSE IF d.ptr = 0
          THEN [d EXCEPT !.status = IF d.consumed < 8 * Word THEN EndOfBuffer ELSE Completed]
     ELSE Moved(IF wanted > d.ptr THEN EndOfBuffer ELSE Unfinished)

BIT_endOfDStream(d) == d.ptr = 0 /\ d.consumed = 8 * Word

\* The n bits of s from bit low on, the first the least significant.
Field(s, low, n) ==
  LET off == low % 8
      take == Smaller(8 - off, n)
  IN IF n <= 0 THEN 0
     ELSE ((Byte(s, low \div 8) \div 2 ^ off) % 2 ^ take)
          + 2 ^ take * Field(s, low + take, n - take)

=============================================================================
