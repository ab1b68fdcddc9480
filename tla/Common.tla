------------------------------- MODULE Common -------------------------------
(***************************************************************************)
(* Return codes and the arithmetic the modules of the decoders share.      *)
(***************************************************************************)
EXTENDS Integers

Larger(a, b)  == IF a > b THEN a ELSE b
Smaller(a, b) == IF a < b THEN a ELSE b

\* ERROR(name), by the numbers of zstd_errors.h
Error == [GENERIC |-> -1, prefix_unknown |-> -10, version_unsupported |-> -12,
          frameParameter_unsupported |-> -14,
          windowTooLarge |-> -16, corruption_detected |-> -20,
          checksum_wrong |-> -22, dictionary_corrupted |-> -30,
          dictionary_wrong |-> -32, tableLog_tooLarge |-> -44,
          maxSymbolValue_tooLarge |-> -46, maxSymbolValue_tooSmall |-> -48,
          stage_wrong |-> -60, init_missing |-> -62,
          memory_allocation |-> -64, dstSize_tooSmall |-> -70, srcSize_wrong |-> -72]
IsError(ret) == ret < 0

=============================================================================
