----------------------------- MODULE MultiFrame -----------------------------
(***************************************************************************)
(* A source of several frames in one call: ZSTD1_decompressMultiFrame and  *)
(* zstd_legacy.h, which hands a frame of an older format to its decoder.   *)
(***************************************************************************)
EXTENDS ZstdV01, ZstdV02, ZstdV03, ZstdV04, ZstdV05, ZstdV06, ZstdV07

RECURSIVE FramesFrom(_, _, _, _, _)

LegacyMagic == <<MAGICNUMBER01, MAGICNUMBER02, MAGICNUMBER03, MAGICNUMBER04, MAGICNUMBER05,
                 MAGICNUMBER06, MAGICNUMBER07>>

\* ZSTD1_isLegacy: the version, 0 for any other.
IsLegacy(src) ==
  IF \E v \in 1 .. 7 : Slice(src, 0, 4) = LegacyMagic[v]
  THEN CHOOSE v \in 1 .. 7 : Slice(src, 0, 4) = LegacyMagic[v] ELSE 0

FindFrameCompressedSizeLegacy(version, src) ==
  CASE version = 1 -> ZSTDv01_findFrameCompressedSize(src)
    [] version = 2 -> ZSTDv02_findFrameCompressedSize(src)
    [] version = 3 -> ZSTDv03_findFrameCompressedSize(src)
    [] version = 4 -> ZSTDv04_findFrameCompressedSize(src)
    [] version = 5 -> ZSTDv05_findFrameCompressedSize(src)
    [] version = 6 -> ZSTDv06_findFrameCompressedSize(src)
    [] version = 7 -> ZSTDv07_findFrameCompressedSize(src)

\* Formats before 0.5 know no dictionary.
DecompressLegacy(version, src, cap, dict) ==
  CASE version = 1 -> ZSTDv01_decompressDCtx(src, cap)
    [] version = 2 -> ZSTDv02_decompressDCtx(src, cap)
    [] version = 3 -> ZSTDv03_decompressDCtx(src, cap)
    [] version = 4 -> ZSTDv04_decompress_usingDict(src, cap, <<>>)
    [] version = 5 -> ZSTDv05_decompress_usingDict(src, cap, dict)
    [] version = 6 -> ZSTDv06_decompress_usingDict(src, cap, dict)
    [] version = 7 -> ZSTDv07_decompress_usingDict(src, cap, dict)

DecompressMultiFrame(src, cap, dict, begun) ==
  FramesFrom([ret |-> 0, out |-> <<>>, low |-> 0], src, cap, dict, begun)
ZSTD_decompress_usingDict(src, cap, dict) ==
  DecompressMultiFrame(src, cap, dict, ZSTD_decompressBegin_usingDict(dict))
ZSTD_decompress_usingDDict(src, cap, dict) ==
  LET Using(ddict) == DecompressMultiFrame(src, cap, dict, ZSTD_decompressBegin_usingDDict(ddict))
  IN Then(ZSTD_loadEntropy_inDDict(dict, FALSE), Using)

SkippableSize(rest) == LE32(rest, frameIdSize) + skippableHeaderSize
SkippableBegun(rest) == Len(rest) >= skippableHeaderSize
SkippableWhole(rest) == Len(rest) >= skippableHeaderSize /\ Len(rest) >= SkippableSize(rest)

\* The place dst moves by what a frame produced.  What the decoder of a legacy frame
\* returns is added whatever it is, an error too.  out is what is written from the
\* first destination on, low the lowest place written to.
FramesFrom(d, rest, cap, dict, begun) ==
  LET Put(r) == [ret |-> d.ret + r.ret, low |-> Smaller(d.low, d.ret),
                 out |-> IF d.ret < 0 THEN d.out ELSE Write(d.out, d.ret, r.out)]
      Next(e, src) == FramesFrom(e, src, cap, dict, begun)
      Legacy(version) ==
        LET size == FindFrameCompressedSizeLegacy(version, rest)
            r == DecompressLegacy(version, Slice(rest, 0, size.ret), cap - d.ret, dict)
        IN IF IsError(size.ret) THEN size
           ELSE Next(IF IsError(r.ret) THEN [d EXCEPT !.ret = @ + r.ret] ELSE Put(r),
                     From(rest, size.ret))
      r == ZSTD_decompressFrame(CheckContinuity(begun, FALSE), rest, cap - d.ret)
  IN IF Len(rest) < frameHeaderSize_prefix
     THEN IF rest = <<>> THEN d ELSE Fail(Error.srcSize_wrong)
     ELSE IF IsLegacy(rest) # 0 THEN Legacy(IsLegacy(rest))
     ELSE IF Slice(rest, 0, 4) = MAGICNUMBER
     THEN IF IsError(begun.ret) THEN begun
          ELSE IF IsError(r.ret) THEN r
          ELSE Next(Put(r), From(rest, r.read))
     ELSE IF ~IsSkippableMagic(rest) THEN Fail(Error.prefix_unknown)
     ELSE IF ~SkippableWhole(rest) THEN Fail(Error.srcSize_wrong)
     ELSE Next(d, From(rest, SkippableSize(rest)))
=============================================================================
