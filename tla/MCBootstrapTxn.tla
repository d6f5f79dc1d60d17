--------------------------- MODULE MCBootstrapTxn ---------------------------
(* Instances of BootstrapTxn for TLC: the bounds are in the .cfg files.  No *)
(* symmetry, because liveness is checked.                                  *)
EXTENDS BootstrapTxn, TLC
=============================================================================
