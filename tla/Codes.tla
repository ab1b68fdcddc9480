------------------------------- MODULE Codes --------------------------------
(***************************************************************************)
(* Sequences.  What an encoder found in a block is its literals and, for   *)
(* each match, [ll, ml, off]: how many literals come before it, how long   *)
(* it is and how far back it starts.  That is what a block means, whatever *)
(* its format.                                                             *)
(*                                                                         *)
(* Formats 0.6 on have codes of lengths and offsets, zstd_internal.h: a    *)
(* code is a base and a number of bits to add to it, and each has a        *)
(* default distribution.  Tables are indexed by the code plus one.         *)
(***************************************************************************)
EXTENDS Bits

RECURSIVE Copied(_, _, _)

\* A block behind what came before it.
Meaning(before, block) ==
  LET After[k \in 0 .. Len(block.seqs)] ==
        IF k = 0 THEN [out |-> before, used |-> 0]
        ELSE LET s == block.seqs[k]
                 p == After[k - 1]
             IN CASE p.used + s.ll <= Len(block.literals) ->
                       [out |-> Copied(p.out \o Slice(block.literals, p.used, s.ll), s.off, s.ml),
                        used |-> p.used + s.ll]
      end == After[Len(block.seqs)]
  IN end.out \o From(block.literals, end.used)

\* The content of blocks, that of a dictionary left out.
ContentOf(blocks, dict) ==
  LET Upto[k \in 0 .. Len(blocks)] == IF k = 0 THEN dict ELSE Meaning(Upto[k - 1], blocks[k])
  IN From(Upto[Len(blocks)], Len(dict))

\* n bytes more, each that off before it.
Copied(out, off, n) ==
  IF n = 0 THEN out
  ELSE LET m == Smaller(off, n) IN Copied(out \o Slice(out, Len(out) - off, m), off, n - m)

-----------------------------------------------------------------------------
\* Codes.

MaxLL == 35
MaxML == 52
LLFSELog == 9
MLFSELog == 9
OffFSELog == 8
MINMATCH == 3

LL_bits == <<0, 0, 0, 0, 0, 0, 0, 0, 0, 0, 0, 0, 0, 0, 0, 0,
             1, 1, 1, 1, 2, 2, 3, 3, 4, 6, 7, 8, 9, 10, 11, 12, 13, 14, 15, 16>>
ML_bits == <<0, 0, 0, 0, 0, 0, 0, 0, 0, 0, 0, 0, 0, 0, 0, 0,
             0, 0, 0, 0, 0, 0, 0, 0, 0, 0, 0, 0, 0, 0, 0, 0,
             1, 1, 1, 1, 2, 2, 3, 3, 4, 4, 5, 7, 8, 9, 10, 11, 12, 13, 14, 15, 16>>
LL_base == <<0, 1, 2, 3, 4, 5, 6, 7, 8, 9, 10, 11, 12, 13, 14, 15,
             16, 18, 20, 22, 24, 28, 32, 40, 48, 64, 128, 256, 512, 1024, 2048, 4096,
             8192, 16384, 32768, 65536>>
ML_base == <<3, 4, 5, 6, 7, 8, 9, 10, 11, 12, 13, 14, 15, 16, 17, 18,
             19, 20, 21, 22, 23, 24, 25, 26, 27, 28, 29, 30, 31, 32, 33, 34,
             35, 37, 39, 41, 43, 47, 51, 59, 67, 83, 99, 131, 259, 515, 1027, 2051,
             4099, 8195, 16387, 32771, 65539>>
\* OF_base: from code 2 on, what makes the sum 2 ^ code + bits - 3
OF_base == [i \in 1 .. 31 |-> CASE i = 1 -> 0 [] i \in {2, 3} -> 1 [] OTHER -> 2 ^ (i - 1) - 3]

LL_defaultNormLog == 6
ML_defaultNormLog == 6
OF_defaultNormLog == 5
LL_defaultNorm == <<4, 3, 2, 2, 2, 2, 2, 2, 2, 2, 2, 2, 2, 1, 1, 1,
                    2, 2, 2, 2, 2, 2, 2, 2, 2, 3, 2, 1, 1, 1, 1, 1, -1, -1, -1, -1>>
ML_defaultNorm == <<1, 4, 3, 2, 2, 2, 2, 2, 2, 1, 1, 1, 1, 1, 1, 1,
                    1, 1, 1, 1, 1, 1, 1, 1, 1, 1, 1, 1, 1, 1, 1, 1,
                    1, 1, 1, 1, 1, 1, 1, 1, 1, 1, 1, 1, 1, 1, -1, -1, -1, -1, -1, -1, -1>>
OF_defaultNorm == <<1, 1, 1, 1, 1, 1, 2, 2, 2, 1, 1, 1, 1, 1, 1, 1,
                    1, 1, 1, 1, 1, 1, 1, 1, -1, -1, -1, -1, -1>>

\* ZSTD1_LLcode and ZSTD1_MLcode: the last code whose base is not beyond a length.
CodeOf(length, bases) ==
  (CHOOSE c \in DOMAIN bases : bases[c] <= length
                               /\ \A d \in DOMAIN bases : d > c => bases[d] > length) - 1

-----------------------------------------------------------------------------
\* The default tables as the decoder has them, a cell as <<nextState, nbAddBits,
\* nbBits, baseVal>>.

LL_defaultDTable ==
  <<<<0, 0, 4, 0>>, <<16, 0, 4, 0>>, <<32, 0, 5, 1>>, <<0, 0, 5, 3>>, <<0, 0, 5, 4>>,
    <<0, 0, 5, 6>>, <<0, 0, 5, 7>>, <<0, 0, 5, 9>>, <<0, 0, 5, 10>>, <<0, 0, 5, 12>>,
    <<0, 0, 6, 14>>, <<0, 1, 5, 16>>, <<0, 1, 5, 20>>, <<0, 1, 5, 22>>,
    <<0, 2, 5, 28>>, <<0, 3, 5, 32>>, <<0, 4, 5, 48>>, <<32, 6, 5, 64>>,
    <<0, 7, 5, 128>>, <<0, 8, 6, 256>>, <<0, 10, 6, 1024>>, <<0, 12, 6, 4096>>,
    <<32, 0, 4, 0>>, <<0, 0, 4, 1>>, <<0, 0, 5, 2>>, <<32, 0, 5, 4>>, <<0, 0, 5, 5>>,
    <<32, 0, 5, 7>>, <<0, 0, 5, 8>>, <<32, 0, 5, 10>>, <<0, 0, 5, 11>>,
    <<0, 0, 6, 13>>, <<32, 1, 5, 16>>, <<0, 1, 5, 18>>, <<32, 1, 5, 22>>,
    <<0, 2, 5, 24>>, <<32, 3, 5, 32>>, <<0, 3, 5, 40>>, <<0, 6, 4, 64>>,
    <<16, 6, 4, 64>>, <<32, 7, 5, 128>>, <<0, 9, 6, 512>>, <<0, 11, 6, 2048>>,
    <<48, 0, 4, 0>>, <<16, 0, 4, 1>>, <<32, 0, 5, 2>>, <<32, 0, 5, 3>>,
    <<32, 0, 5, 5>>, <<32, 0, 5, 6>>, <<32, 0, 5, 8>>, <<32, 0, 5, 9>>,
    <<32, 0, 5, 11>>, <<32, 0, 5, 12>>, <<0, 0, 6, 15>>, <<32, 1, 5, 18>>,
    <<32, 1, 5, 20>>, <<32, 2, 5, 24>>, <<32, 2, 5, 28>>, <<32, 3, 5, 40>>,
    <<32, 4, 5, 48>>, <<0, 16, 6, 65536>>, <<0, 15, 6, 32768>>, <<0, 14, 6, 16384>>,
    <<0, 13, 6, 8192>>>>

OF_defaultDTable ==
  <<<<0, 0, 5, 0>>, <<0, 6, 4, 61>>, <<0, 9, 5, 509>>, <<0, 15, 5, 32765>>,
    <<0, 21, 5, 2097149>>, <<0, 3, 5, 5>>, <<0, 7, 4, 125>>, <<0, 12, 5, 4093>>,
    <<0, 18, 5, 262141>>, <<0, 23, 5, 8388605>>, <<0, 5, 5, 29>>, <<0, 8, 4, 253>>,
    <<0, 14, 5, 16381>>, <<0, 20, 5, 1048573>>, <<0, 2, 5, 1>>, <<16, 7, 4, 125>>,
    <<0, 11, 5, 2045>>, <<0, 17, 5, 131069>>, <<0, 22, 5, 4194301>>, <<0, 4, 5, 13>>,
    <<16, 8, 4, 253>>, <<0, 13, 5, 8189>>, <<0, 19, 5, 524285>>, <<0, 1, 5, 1>>,
    <<16, 6, 4, 61>>, <<0, 10, 5, 1021>>, <<0, 16, 5, 65533>>, <<0, 28, 5, 268435453>>,
    <<0, 27, 5, 134217725>>, <<0, 26, 5, 67108861>>, <<0, 25, 5, 33554429>>,
    <<0, 24, 5, 16777213>>>>

ML_defaultDTable ==
  <<<<0, 0, 6, 3>>, <<0, 0, 4, 4>>, <<32, 0, 5, 5>>, <<0, 0, 5, 6>>, <<0, 0, 5, 8>>,
    <<0, 0, 5, 9>>, <<0, 0, 5, 11>>, <<0, 0, 6, 13>>, <<0, 0, 6, 16>>, <<0, 0, 6, 19>>,
    <<0, 0, 6, 22>>, <<0, 0, 6, 25>>, <<0, 0, 6, 28>>, <<0, 0, 6, 31>>,
    <<0, 0, 6, 34>>, <<0, 1, 6, 37>>, <<0, 1, 6, 41>>, <<0, 2, 6, 47>>,
    <<0, 3, 6, 59>>, <<0, 4, 6, 83>>, <<0, 7, 6, 131>>, <<0, 9, 6, 515>>,
    <<16, 0, 4, 4>>, <<0, 0, 4, 5>>, <<32, 0, 5, 6>>, <<0, 0, 5, 7>>, <<32, 0, 5, 9>>,
    <<0, 0, 5, 10>>, <<0, 0, 6, 12>>, <<0, 0, 6, 15>>, <<0, 0, 6, 18>>,
    <<0, 0, 6, 21>>, <<0, 0, 6, 24>>, <<0, 0, 6, 27>>, <<0, 0, 6, 30>>,
    <<0, 0, 6, 33>>, <<0, 1, 6, 35>>, <<0, 1, 6, 39>>, <<0, 2, 6, 43>>,
    <<0, 3, 6, 51>>, <<0, 4, 6, 67>>, <<0, 5, 6, 99>>, <<0, 8, 6, 259>>,
    <<32, 0, 4, 4>>, <<48, 0, 4, 4>>, <<16, 0, 4, 5>>, <<32, 0, 5, 7>>,
    <<32, 0, 5, 8>>, <<32, 0, 5, 10>>, <<32, 0, 5, 11>>, <<0, 0, 6, 14>>,
    <<0, 0, 6, 17>>, <<0, 0, 6, 20>>, <<0, 0, 6, 23>>, <<0, 0, 6, 26>>,
    <<0, 0, 6, 29>>, <<0, 0, 6, 32>>, <<0, 16, 6, 65539>>, <<0, 15, 6, 32771>>,
    <<0, 14, 6, 16387>>, <<0, 13, 6, 8195>>, <<0, 12, 6, 4099>>, <<0, 11, 6, 2051>>,
    <<0, 10, 6, 1027>>>>
=============================================================================
