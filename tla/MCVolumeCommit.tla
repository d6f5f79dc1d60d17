--------------------------- MODULE MCVolumeCommit ---------------------------
(* Instances of VolumeCommit for TLC.                                      *)
EXTENDS VolumeCommit, TLC

\* A Code target without an Entry and a Database target with one.
OneEach == [t \in Targets |-> IF t = 1 THEN "code" ELSE "database"]
\* Code alone.
AllCode == [t \in Targets |-> "code"]

ProcSymmetry == Permutations(Procs)
=============================================================================
