----------------------------- MODULE MCMTStream -----------------------------
(***************************************************************************)
(* MTStream for TLC.  The table has the size ZSTDMT_createJobsTable gives  *)
(* it for nbWorkers + 2 jobs: 4 slots for one worker, 8 for two.           *)
(***************************************************************************)
EXTENDS MTStream, TLC

\* No worker is special in the safety properties.
WorkerSymmetry == Permutations(Workers)
=============================================================================
