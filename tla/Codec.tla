------------------------------- MODULE Codec --------------------------------
(***************************************************************************)
(* Compressors and decompressors put together.  A source of one or more    *)
(* frames is written: frames of the current format by ZSTD1_compressBegin, *)
(* ZSTD1_compressContinue and ZSTD1_compressEnd, the blocks of a frame cut *)
(* into chunks at will; frames of formats 0.1 to 0.7 by the encoders that  *)
(* wrote them; skippable frames.  Then it is read: in one call, whole, cut *)
(* short or with too little room, or piece by piece into one destination   *)
(* or two.  Blocks of the current format also travel on their own.         *)
(*                                                                         *)
(* What is written and read is given by operators: their definitions are   *)
(* those of the modules ZstdC, LegacyWriter, MultiFrame and Codes.         *)
(***************************************************************************)
EXTENDS Integers, Sequences

CONSTANTS
  Cases,               \* what the first frame of a source may be
  Followers,           \* and those behind it, all with no dictionary
  MaxFrames,
  Enough,               \* room for any frame
  Tails,               \* what a source may be followed by that is none of it
  MeaningOf(_, _),     \* the content of blocks behind that of a dictionary
  WriteOld(_),         \* the frame of a case of an older format
  BeginFrame(_), ContinueFrame(_, _, _), EndFrame(_, _, _),      \* compression
  OneBlock(_, _, _),
  OnePass(_, _, _, _), \* decompression
  SizeOfFrame(_, _),
  StartReading(_, _), ReadOn(_, _, _, _, _),
  ReadBlock(_, _, _, _), SkipBlock(_, _, _)

Current == 8
Skippable == 0
Nothing == [ret |-> 0, overflow |-> FALSE]

(* A case is [version, blocks, dict, params, pledged]: dict is [bytes,     *)
(* content]; pledged is how much more than its content the compressor is   *)
(* told to expect.                                                         *)

VARIABLES
  case,      \* of the frame at work
  todo,      \* its blocks not yet compressed
  enc,       \* what the compressor returned last: [ret, overflow] and its context, cctx
  frame,     \* what it has written of the frame
  source,    \* the frames complete
  content,   \* and what they mean
  ends,      \* <<end in source, end in content>> of each
  reader,    \* how the source is read: "none", "pieces", "blocks" or "done"
  dec,       \* what the decompressor returned last
  at,        \* how much of source has been read
  out,       \* and what was regenerated
  moved,     \* whether the destination moved
  asked      \* the source and the room of a call: [given, room]

written == <<case, todo, enc, frame>>
complete == <<source, content, ends>>
reading == <<reader, dec, at, out, moved, asked>>
vars == <<written, complete, reading>>

Idle == [version |-> Skippable, blocks |-> <<>>, dict |-> [bytes |-> <<>>, content |-> <<>>]]
Init ==
  /\ case = Idle /\ todo = <<>> /\ enc = Nothing /\ frame = <<>>
  /\ source = <<>> /\ content = <<>> /\ ends = <<>>
  /\ reader = "none" /\ dec = Nothing /\ at = 0 /\ out = <<>> /\ moved = FALSE
  /\ asked = Nothing

Take(s, n) == SubSeq(s, 1, n)
Drop(s, n) == SubSeq(s, n + 1, Len(s))
Compressing == "cctx" \in DOMAIN enc
Dict == case.dict

-----------------------------------------------------------------------------
\* Writing.

Complete(bytes, meaning) ==
  /\ source' = source \o bytes
  /\ content' = content \o meaning
  /\ ends' = Append(ends, <<Len(source \o bytes), Len(content \o meaning)>>)

MayWrite == /\ reader = "none" /\ enc.ret >= 0 /\ ~Compressing
            /\ Len(ends) < MaxFrames /\ Dict.bytes = <<>>
NextCases == IF ends = <<>> THEN Cases ELSE Followers

CompressBegin ==
  /\ MayWrite
  /\ \E c \in NextCases :
       /\ c.version = Current
       /\ case' = c /\ todo' = c.blocks /\ frame' = <<>>
       /\ enc' = BeginFrame(c)
  /\ UNCHANGED <<complete, reading>>

CompressContinue ==
  /\ Compressing /\ reader = "none"
  /\ \E n \in 1 .. Len(todo) :
       /\ \E r \in {ContinueFrame(enc, Enough, Take(todo, n))} :
            /\ enc' = r
            /\ frame' = IF r.ret < 0 THEN frame ELSE frame \o r.out
       /\ todo' = Drop(todo, n)
  /\ UNCHANGED <<case, complete, reading>>

\* What is left goes with the end.
CompressEnd ==
  /\ Compressing /\ reader = "none"
  /\ \E r \in {EndFrame(enc, Enough, todo)} :
       IF r.ret < 0 THEN enc' = r /\ UNCHANGED <<todo, frame, complete>>
       ELSE /\ Complete(frame \o r.out, MeaningOf(case.blocks, Dict.content))
            /\ enc' = [ret |-> 0, overflow |-> r.cctx.overflow] /\ todo' = <<>> /\ frame' = <<>>
  /\ UNCHANGED <<case, reading>>

WriteOldFrame ==
  /\ MayWrite
  /\ \E c \in NextCases :
       /\ c.version \in 1 .. Current - 1
       /\ case' = c
       /\ \E bytes \in {WriteOld(c)} : Complete(bytes, MeaningOf(c.blocks, c.dict.content))
  /\ UNCHANGED <<todo, enc, frame, reading>>

WriteSkippable ==
  /\ MayWrite
  /\ \E c \in NextCases :
       /\ c.version = Skippable
       /\ case' = c
       /\ Complete(c.blocks, <<>>)
  /\ UNCHANGED <<todo, enc, frame, reading>>

-----------------------------------------------------------------------------
\* Reading in one call.

Readable == reader = "none" /\ enc.ret >= 0 /\ ~Compressing /\ ends # <<>>
LastFrame == Len(ends)
FrameStart(f) == IF f = 1 THEN <<0, 0>> ELSE ends[f - 1]

Ask(given, room, digested) ==
  /\ \E r \in {OnePass(Take(source, given), room, Dict.bytes, digested)} : dec' = r
  /\ asked' = [given |-> given, room |-> room]
  /\ reader' = "done"
  /\ UNCHANGED <<written, complete, at, out, moved>>

\* ZSTD1_decompress_usingDict and, of the current format, ZSTD1_decompress_usingDDict.
DecompressWhole ==
  /\ Readable
  /\ \E extra \in {0, 40}, digested \in BOOLEAN :
       /\ digested => Dict.bytes # <<>>
       /\ Ask(Len(source), Len(content) + extra, digested)

\* Somewhere in the last frame, in its header, its blocks or its end.
DecompressCut ==
  /\ Readable
  /\ \E n \in FrameStart(LastFrame)[1] + 1 .. Len(source) - 1 :
       /\ n - FrameStart(LastFrame)[1] \in {1, 4, 7} \/ Len(source) - n < 3
          \/ (LastFrame = 1 /\ (n < 8 \/ n % 64 = 0))
       /\ Ask(n, Len(content), FALSE)

\* What a legacy decoder returns behind other frames is added to their sizes, an error
\* too: see DecompressMultiFrame.
DecompressTight ==
  /\ Readable /\ (LastFrame > 1 => case.version \notin 1 .. Current - 1)
  /\ \E room \in {Len(content) - 1, FrameStart(LastFrame)[2]} :
       /\ room \in FrameStart(LastFrame)[2] .. Len(content) - 1
       /\ Ask(Len(source), room, FALSE)

\* ZSTD1_findFrameCompressedSize, whatever comes behind the frame.
FindSize ==
  /\ Readable /\ Len(ends) = 1
  /\ \E tail \in Tails :
       \E r \in {SizeOfFrame(case.version, source \o tail)} : dec' = r
  /\ asked' = Nothing /\ reader' = "done"
  /\ UNCHANGED <<written, complete, at, out, moved>>

-----------------------------------------------------------------------------
\* Reading one frame piece by piece: ZSTD1_decompressContinue is given as many bytes as
\* it asks for.

StartPieces ==
  /\ Readable /\ Len(ends) = 1
  /\ dec' = StartReading(case.version, Dict.bytes)
  /\ reader' = "pieces"
  /\ UNCHANGED <<written, complete, at, out, moved, asked>>

\* The destination may move once, where what came before is still known: not in the
\* first formats, and not when that is a dictionary.
ReadPiece ==
  /\ reader = "pieces" /\ dec.ret >= 0 /\ dec.expected > 0 /\ at + dec.expected <= Len(source)
  /\ \E move \in BOOLEAN :
       /\ move => ~moved /\ out # <<>> /\ Dict.bytes = <<>> /\ case.version \notin 1 .. 3
       /\ \E r \in {ReadOn(case.version, dec, SubSeq(source, at + 1, at + dec.expected),
                         Len(content) - Len(out), at > 0 /\ ~move)} :
            /\ dec' = r
            /\ out' = IF r.ret < 0 THEN out
                      ELSE out \o SubSeq(r.ctx.out, r.ctx.op - r.ret + 1, r.ctx.op)
       /\ moved' = (moved \/ move)
  /\ at' = at + dec.expected
  /\ UNCHANGED <<reader, asked, written, complete>>

-----------------------------------------------------------------------------
\* Blocks with no frame around them: ZSTD1_compressBlock, and ZSTD1_decompressBlock or,
\* of one left as it is, ZSTD1_insertBlock.

StartBlocks ==
  /\ Compressing /\ reader = "none" /\ frame = <<>> /\ case.pledged = 0
  /\ reader' = "blocks" /\ dec' = StartReading(Current, Dict.bytes)
  /\ UNCHANGED <<written, complete, at, out, moved, asked>>

PassOneBlock ==
  /\ reader = "blocks" /\ dec.ret >= 0 /\ todo # <<>>
  /\ \E b \in {OneBlock(enc, Enough, Head(todo))} :
       /\ enc' = [ret |-> 0, overflow |-> b.cctx.overflow, cctx |-> b.cctx]
       /\ \E r \in {IF b.ret = 0 THEN SkipBlock(dec, b.src, out # <<>>)
                    ELSE ReadBlock(dec, b.out, Enough, out # <<>>)} :
            /\ dec' = r
            /\ out' = IF r.ret < 0 THEN out
                      ELSE IF b.ret = 0 THEN out \o b.src
                      ELSE out \o SubSeq(r.ctx.out, r.ctx.op - r.ret + 1, r.ctx.op)
  /\ todo' = Tail(todo)
  /\ UNCHANGED <<case, frame, complete, reader, at, moved, asked>>

Next ==
  \/ CompressBegin \/ CompressContinue \/ CompressEnd
  \/ WriteOldFrame \/ WriteSkippable
  \/ DecompressWhole \/ DecompressCut \/ DecompressTight \/ FindSize
  \/ StartPieces \/ ReadPiece
  \/ StartBlocks \/ PassOneBlock

Spec == Init /\ [][Next]_vars

-----------------------------------------------------------------------------
IsPrefixOf(s, t) == Len(s) <= Len(t) /\ s = Take(t, Len(s))
OneCall == reader = "done" /\ asked # Nothing

(* Given all of a source and room for its content, one call regenerates    *)
(* what was compressed: whatever the format of its frames, the chunks they *)
(* were written in, the way their literals and the codes of sequences are  *)
(* coded and the tables a block takes over from the one before it or from  *)
(* a dictionary.                                                           *)
RoundTrip ==
  OneCall /\ asked.given = Len(source) /\ asked.room >= Len(content) =>
    dec.ret = Len(content) /\ IsPrefixOf(content, dec.out)

(* A frame that is cut short anywhere is refused.                          *)
CutRefused == OneCall /\ asked.given < Len(source) => dec.ret < 0

(* So is one whose content has not room enough, and whatever the room, no  *)
(* byte is written behind it: copies that overrun stay clear of its end.   *)
RoomRespected ==
  OneCall => /\ asked.room < Len(content) => dec.ret < 0
             /\ dec.ret >= 0 => Len(dec.out) <= asked.room

(* The size of a frame is told without decoding it, from its bytes alone.  *)
SizeFound == reader = "done" /\ ~OneCall => dec.ret = Len(source)

(* Piece by piece a frame regenerates the same, wherever its destination   *)
(* moved; it ends with the last byte of the frame and not before.  A       *)
(* series of blocks regenerates what they mean, those left uncompressed    *)
(* between them included.                                                  *)
PiecesAgree ==
  /\ reader = "pieces" => /\ dec.ret >= 0
                          /\ IsPrefixOf(out, content)
                          /\ (dec.expected = 0) = (at = Len(source))
                          /\ at = Len(source) => out = content
  /\ reader = "blocks" =>
       /\ dec.ret >= 0
       /\ out = MeaningOf(Take(case.blocks, Len(case.blocks) - Len(todo)), Dict.content)

(* The bit container of an encoder never holds more bits than it has, and  *)
(* the compressor only fails when it was told of another size than came.   *)
EncoderFits ==
  ~enc.overflow /\ (enc.ret < 0 => case.pledged # 0)
=============================================================================
