----------------------------- MODULE MCScopeTxn -----------------------------
(* Instances of ScopeTxn for TLC.                                          *)
EXTENDS ScopeTxn, TLC

CONSTANTS t1, t2

\* t1 changes every image, t2 leaves the ones between index and Baseline alone.
SomeChanges == [t \in Txs |-> IF t = t1 THEN Images ELSE {1, N}]

ProcSymmetry == Permutations(Procs)
=============================================================================
