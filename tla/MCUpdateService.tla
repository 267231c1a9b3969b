--------------------------- MODULE MCUpdateService ---------------------------
(***************************************************************************)
(* Small instances of UpdateService.  Tokens, selections and updaters are  *)
(* only ever compared for equality, so their permutations are symmetries.  *)
(***************************************************************************)
EXTENDS UpdateService, TLC

Symmetry ==
  Permutations(Tokens) \cup Permutations(Selections) \cup Permutations(Updaters)
=============================================================================
