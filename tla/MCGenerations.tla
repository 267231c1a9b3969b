---------------------------- MODULE MCGenerations ----------------------------
(***************************************************************************)
(* Small instances of Generations.  Files are only compared for equality,  *)
(* so their permutations are symmetries; of two processes one may read the *)
(* pack again.                                                             *)
(***************************************************************************)
EXTENDS Generations, TLC

Symmetry == Permutations(Files)
=============================================================================
