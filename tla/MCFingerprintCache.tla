------------------------- MODULE MCFingerprintCache -------------------------
(* Instances of FingerprintCache for TLC: the bounds are in the .cfg file.  *)
(* No symmetry: the two calls are of different kinds and there is one file. *)
EXTENDS FingerprintCache
=============================================================================
