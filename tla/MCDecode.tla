------------------------------ MODULE MCDecode ------------------------------
(***************************************************************************)
(* LegacyStream for TLC: sources made of small frames.  Blocks of at most  *)
(* 2 bytes, windows of 2 to 4 and copies that overrun by 2 put every block *)
(* boundary, wrap of the buffer and farthest match within a few bytes.     *)
(***************************************************************************)
EXTENDS LegacyStream

\* A block as <<type, csize, rsize>>; a frame as <<kind, hsize, window, fcs, cksum, reach,
\* skip, blocks>>, one of a legacy version, which all have the same blocks, as <<kind,
\* hsize, window, reach>>.  Those of the current format:
\* - a window of 4, no content size: the buffer wraps;
Long == <<Zstd, 6, 4, Unknown, TRUE, 4, 0,
          <<<<"comp", 2, 2>>, <<"raw", 1, 1>>, <<"comp", 1, 2>>, <<"rle", 1, 2>>,
            <<"comp", 2, 2>>, <<"comp", 1, 2>>>>>>
\* - a single segment: the window is the content, which may be decoded in one pass;
Single == <<Zstd, 6, 3, 3, FALSE, 3, 0, <<<<"comp", 2, 2>>, <<"raw", 1, 1>>>>>>
\* - nothing; a window that is too large; a skippable frame, too short for a block header.
Empty == <<Zstd, 6, 2, 0, FALSE, 2, 0, <<<<"raw", 0, 0>>>>>>
Wide == <<Zstd, 6, 8, Unknown, FALSE, 8, 0, <<<<"raw", 1, 1>>>>>>
Skip == <<Skippable, SkipHeader, 0, 2, FALSE, 0, 2, <<>>>>
Old(r) ==
  <<r[1], r[2], r[3], Unknown, FALSE, r[4], 0,
    <<<<"comp", 2, 2>>, <<"comp", 2, 2>>, <<"comp", 1, 2>>, <<"comp", 1, 1>>, <<"end", 0, 0>>>>>>

\* The frame r as it is behind the frames of s.
LaidOut(s, r) ==
  LET n == Len(r[8])
      at == SourceSize(s)
      out == OutputSize(s)
      first == at + r[2]
      Before(b, k) == LET sum[c \in 0 .. b - 1] == IF c = 0 THEN 0 ELSE sum[c - 1] + r[8][c][k]
                      IN sum[b - 1]
      blocks == [b \in 1 .. n |->
                   [type |-> r[8][b][1], csize |-> r[8][b][2], rsize |-> r[8][b][3],
                    at |-> first + BlockHeader * (b - 1) + Before(b, 2),
                    out |-> out + Before(b, 3)]]
  IN [kind |-> r[1], hsize |-> r[2], window |-> r[3], fcs |-> r[4], cksum |-> r[5],
      reach |-> r[6], skip |-> r[7], blocks |-> blocks, at |-> at, out |-> out,
      size |-> r[2] + r[7] + BlockHeader * n + Before(n + 1, 2)
                 + (IF r[5] THEN Checksum ELSE 0),
      content |-> Before(n + 1, 3)]
Source(fs) ==
  LET laid[i \in 0 .. Len(fs)] ==
        IF i = 0 THEN <<>>
        ELSE LET s == laid[i - 1]
             IN Append(s, LaidOut(s, IF Len(fs[i]) = 4 THEN Old(fs[i]) ELSE fs[i]))
  IN laid[Len(fs)]

SourceSet ==
  {Source(fs) : fs \in
  {<<Long>>, <<Single, Skip, Empty>>, <<Wide>>, <<<<4, 5, 4, 2>>>>,
   <<<<6, 6, 4, 4>>, <<6, 5, 2, 2>>>>, <<<<7, 6, 4, 4>>>>, <<<<5, 5, 4, 2>>, Single>>,
   <<<<3, 5, 4, 4>>>>}}
\* TLC evaluates SourceSet once, what a .cfg names at every use.
DecodeSources == SourceSet
=============================================================================
