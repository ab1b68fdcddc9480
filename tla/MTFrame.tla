------------------------------ MODULE MTFrame ------------------------------
(***************************************************************************)
(* What a streaming compressor promises its caller about one frame: the    *)
(* bytes handed back are, at any moment, a prefix of the encoding of the   *)
(* input in the order it was given; the frame ends once, after everything  *)
(* was encoded; a frame that failed yields nothing more.                   *)
(* Input is counted in chunks (the unit ZSTDMT_compressionJob reports).    *)
(***************************************************************************)
EXTENDS Naturals, Sequences

VARIABLES
  taken,      \* chunks of input accepted in this frame
  given,      \* tokens handed to the caller in this frame
  want,       \* does the caller want a checksum in this frame
  status      \* "none", "open", "ended", "failed"

frameVars == <<taken, given, want, status>>

Flag(sum) == IF sum THEN 1 ELSE 0

Header(sum) == [k |-> "header", v |-> Flag(sum)]  \* announces the checksum
Block(p)    == [k |-> "block", v |-> p]     \* the p-th chunk
LastMark    == [k |-> "last", v |-> 0]      \* the last-block flag
HashOf(n)   == [k |-> "checksum", v |-> n]  \* hash of the first n chunks

Encoding(n, sum) ==
  <<Header(sum)>> \o [i \in 1 .. n |-> Block(i)] \o <<LastMark>>
             \o (IF sum THEN <<HashOf(n)>> ELSE <<>>)

FrameInit == taken = 0 /\ given = <<>> /\ want = FALSE /\ status = "none"

Start ==
  /\ status' = "open" /\ taken' = 0 /\ given' = <<>>
  /\ want' \in BOOLEAN

Accept ==
  /\ status = "open"
  /\ \A i \in 1 .. Len(given) : given[i] # LastMark
  /\ taken' \in Nat /\ taken' > taken
  /\ UNCHANGED <<given, want, status>>

\* Hand out some more of the encoding, perhaps nothing: never more than was
\* accepted.  The frame may end when all of it is out.
Deliver ==
  /\ status = "open"
  /\ \E n \in Len(given) .. taken + 3 :
       LET all == Encoding(taken, want) IN
       /\ n <= Len(all)
       /\ given' = SubSeq(all, 1, n)
       /\ SubSeq(all, 1, Len(given)) = given
       /\ \/ status' = "open"
          \/ status' = "ended" /\ n = Len(all)
  /\ UNCHANGED <<taken, want>>

Fail ==
  /\ status = "open"
  /\ status' = "failed"
  /\ UNCHANGED <<taken, given, want>>

FrameNext == Start \/ Accept \/ Deliver \/ Fail
FrameSpec == FrameInit /\ [][FrameNext]_frameVars

=============================================================================
