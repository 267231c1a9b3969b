-------------------------- MODULE MCUpdateExecution --------------------------
(***************************************************************************)
(* Every list of at most two dependencies over the components, a cycle     *)
(* through one component included, and every non-empty request without     *)
(* repetition.  Where there is no cycle, so that no component can depend   *)
(* on all three, every action and at most one target version.              *)
(***************************************************************************)
EXTENDS UpdateExecution

Requests == UNION {SetToSeqs(S) : S \in SUBSET Components \ {{}}}

Manifests == [Components -> {<<>>} \cup {l \in Requests : Len(l) <= 2}]

Acyclic == {l \in Manifests : ~Cyclic(DepsOf(l), Components)}

MCPlans ==
  [lists : Manifests, requested : Requests,
   action : {"update"}, targets : {{}}]
  \cup
  [lists : Acyclic, requested : Requests, action : {"update", "restart"},
   targets : {{}} \cup {{c} : c \in Components}]
=============================================================================
