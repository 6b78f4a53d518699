----------------------------- MODULE MCTaskIndex -----------------------------
(***************************************************************************)
(* Instances of TaskIndex for TLC.                                         *)
(***************************************************************************)
EXTENDS TaskIndex, TLC

CONSTANTS t1, t2,  \* threads
          goldens, submissions

ThreadSymmetry == Permutations(Threads)
ThreadDirSymmetry == Permutations(Threads) \cup Permutations(Dirs)
=============================================================================
