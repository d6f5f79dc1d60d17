---------------------------- MODULE MCAtomicCAS ----------------------------
(* The instance of AtomicCAS for TLC: AtomicCAS.cfg gives the constants.   *)
EXTENDS AtomicCAS
=============================================================================
