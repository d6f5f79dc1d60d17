---------------------------- MODULE MCIndexLock ----------------------------
(* Instances of IndexLock for TLC.                                         *)
EXTENDS IndexLock, TLC

\* Processes are interchangeable in the safety runs.
ProcSymmetry == Permutations(Procs)
=============================================================================
