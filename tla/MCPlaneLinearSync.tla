-------------------------- MODULE MCPlaneLinearSync --------------------------
(***************************************************************************)
(* Small instances of PlaneLinearSync.  Source keys and processes are only *)
(* compared for equality.                                                  *)
(***************************************************************************)
EXTENDS PlaneLinearSync, TLC

Symmetry == Permutations(Keys) \cup Permutations(Syncs)
=============================================================================
