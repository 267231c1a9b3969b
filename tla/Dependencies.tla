---------------------------- MODULE Dependencies ----------------------------
(***************************************************************************)
(* What the declared dependencies of the manifest's components mean, said  *)
(* without an algorithm: deps[c] is the set of components c depends on.    *)
(***************************************************************************)
EXTENDS Integers, Sequences

CONSTANT Components

DependencyGraphs == [Components -> SUBSET Components]

Closed(deps, S) == \A c \in S : deps[c] \subseteq S

(* What S needs: the smallest set that contains S and all it depends on.   *)
Needed(deps, S) ==
  {c \in Components :
     \A T \in SUBSET Components : S \subseteq T /\ Closed(deps, T) => c \in T}

(* Everything c depends on, at any distance.                               *)
Prerequisites(deps, c) == Needed(deps, deps[c])

Cyclic(deps, S) == \E c \in Needed(deps, S) : c \in Prerequisites(deps, c)

(* A sequence of distinct components with each after its dependencies.     *)
DependenciesFirst(deps, order) ==
  \A i \in 1..Len(order) :
    deps[order[i]] \subseteq {order[j] : j \in 1..(i - 1)}

Distinct(order) ==
  \A i, j \in 1..Len(order) : order[i] = order[j] => i = j
=============================================================================
