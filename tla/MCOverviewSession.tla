------------------------- MODULE MCOverviewSession -------------------------
(* Instances of OverviewSession for TLC.                                   *)
EXTENDS OverviewSession

\* All requests come from one Host.
OneHost == [p \in Procs |-> "h1"]

\* The whole scope fits the store at version 0 and outgrows it at version 1.
Growing == [v \in {0, 1} |-> 3 + 2 * v]

\* Requests of one Host are interchangeable, and so are event ids.
Symmetry == Permutations(Procs) \cup Permutations(Events)
=============================================================================
