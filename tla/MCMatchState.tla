---------------------------- MODULE MCMatchState ----------------------------
(***************************************************************************)
(* MatchState for TLC: one buffer, and chunks that repeat one another.     *)
(***************************************************************************)
EXTENDS MatchState

\* The sum of the bytes: many collide.
MCHash(bytes) ==
  LET SumTo[k \in 0 .. Len(bytes)] == IF k = 0 THEN 0 ELSE SumTo[k - 1] + k * bytes[k]
  IN SumTo[Len(bytes)] % HashSize

A == <<1, 2, 3, 1, 2, 3, 4, 5>>
B == <<3, 4, 5, 1, 2, 3, 4>>
MCChunks == {A \o B \o A \o B, <<3, 4, 5, 1, 2, 4, 5, 1, 2, 5, 1, 2, 3, 4, 1, 2, 3>>, <<2, 3, 4, 5, 1>>}
MCArea == 101 .. 156
MCMemories == {[a \in MCArea |-> 0]}
MCPlaces == {101, 112, 125}
MCDicts == {B \o A}
=============================================================================
