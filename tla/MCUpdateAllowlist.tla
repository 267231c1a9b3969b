-------------------------- MODULE MCUpdateAllowlist --------------------------
(***************************************************************************)
(* All manifests over two components, cyclic ones included; restarts differ*)
(* from updates in their command only, so all or none have one.            *)
(***************************************************************************)
EXTENDS UpdateAllowlist

MCManifests == {m \in Manifest : m.restart \in {{}, Components}}
=============================================================================
