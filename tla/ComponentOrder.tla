--------------------------- MODULE ComponentOrder ---------------------------
(***************************************************************************)
(* The components a run executes, and in which order: _component_order of  *)
(* ade/environment.py (ComponentOrder of internal/ade/environment.go is    *)
(* its port).  It first selects the requested ones with all they depend    *)
(* on, then visits them depth first.  The dependencies of a component are  *)
(* a list, and its order decides the order of the result.                  *)
(*                                                                         *)
(* One step is one call of include or visit up to the calls it makes       *)
(* itself, or the end of a call of visit.  What the calls under way have   *)
(* still to do is a sequence with the next thing first: the innermost call *)
(* goes on before those around it.                                         *)
(***************************************************************************)
EXTENDS Dependencies, SequencesExt

CONSTANT Plans  \* the runs to execute: manifest, request, action, targets

Plan == [lists : [Components -> Seq(Components)], requested : Seq(Components),
         action : {"update", "restart"}, targets : SUBSET Components]

ASSUME PlansAssumption == Plans \subseteq Plan

VARIABLES
  plan,      \* the run being executed and the manifest it is executed under
  selected,  \* the local sets of components to execute
  visiting,  \* and of those whose visit has begun and not ended
  todo,      \* the calls of include to make
  calls,     \* the calls of visit to make, and to leave
  ordered    \* the result, or the error raised

orderVars == <<plan, selected, visiting, todo, calls, ordered>>

Ordered == [error : {"none", "cycle"}, order : Seq(Components)]

Calls == [do : {"visit", "leave"}, of : Components]

OrderTypeOK ==
  /\ plan \in Plan
  /\ selected \subseteq Components /\ visiting \subseteq Components
  /\ todo \in Seq(Components) /\ calls \in Seq(Calls)
  /\ ordered \in Ordered

DepsOf(lists) == [c \in Components |-> ToSet(lists[c])]

Visits(list) == [i \in 1..Len(list) |-> [do |-> "visit", of |-> list[i]]]

OrderInit ==
  /\ plan \in Plans
  /\ selected = {} /\ todo = plan.requested
  /\ visiting = {} /\ calls = Visits(plan.requested)
  /\ ordered = [error |-> "none", order |-> <<>>]

Include ==
  /\ todo # <<>>
  /\ selected' = selected \cup {Head(todo)}
  /\ todo' = IF Head(todo) \in selected THEN Tail(todo)
             ELSE plan.lists[Head(todo)] \o Tail(todo)
  /\ UNCHANGED <<plan, visiting, calls, ordered>>

Due(do) == todo = <<>> /\ calls # <<>> /\ Head(calls).do = do

This == Head(calls).of

Visited == ToSet(ordered.order)

(* A visit that is not made, or returns at once.                           *)
Pass ==
  /\ Due("visit")
  /\ This \notin selected \/ This \in Visited
  /\ calls' = Tail(calls)
  /\ UNCHANGED <<plan, selected, visiting, todo, ordered>>

(* The error ends all calls.                                               *)
Raise ==
  /\ Due("visit")
  /\ This \in (selected \ Visited) \cap visiting
  /\ ordered' = [error |-> "cycle", order |-> <<>>]
  /\ calls' = <<>>
  /\ UNCHANGED <<plan, selected, visiting, todo>>

(* Mutant: a component is appended before its dependencies are visited.    *)
WithinPreorder(c, others) ==
  <<[do |-> "leave", of |-> c]>> \o Visits(plan.lists[c]) \o others

(* The calls of a visit that has just begun, and what comes after them.    *)
Within(c, others) ==
  Visits(plan.lists[c]) \o <<[do |-> "leave", of |-> c]>> \o others

Enter ==
  /\ Due("visit")
  /\ This \in selected \ (Visited \cup visiting)
  /\ visiting' = visiting \cup {This}
  /\ calls' = Within(This, Tail(calls))
  /\ UNCHANGED <<plan, selected, todo, ordered>>

Leave ==
  /\ Due("leave")
  /\ visiting' = visiting \ {This}
  /\ ordered' = [ordered EXCEPT !.order = Append(@, This)]
  /\ calls' = Tail(calls)
  /\ UNCHANGED <<plan, selected, todo>>

OrderNext == Include \/ Pass \/ Raise \/ Enter \/ Leave

Finished == todo = <<>> /\ calls = <<>>

(***************************************************************************)
(* What the order promises.                                                *)
(***************************************************************************)
(* An order is refused exactly when something the run has to execute       *)
(* depends, at any distance, on itself.  Otherwise it is everything the    *)
(* request needs, nothing else, nothing twice, and dependencies come first *)
(* ("the runner restarts dependencies first", deploy README).              *)
OrderIsComplete ==
  LET deps == DepsOf(plan.lists) requested == ToSet(plan.requested)
  IN Finished =>
       /\ ordered.error = "cycle" <=> Cyclic(deps, requested)
       /\ ordered.error = "cycle" => ordered.order = <<>>
       /\ ordered.error = "none" =>
            /\ ToSet(ordered.order) = Needed(deps, requested)
            /\ Distinct(ordered.order)
            /\ DependenciesFirst(deps, ordered.order)

(***************************************************************************)
(* The inductive invariant behind it.                                      *)
(***************************************************************************)
Needs(c) == ToSet(plan.lists[c])

Leaving(i) == calls[i].do = "leave"

(* Include has selected nothing but what is needed, and what is left to do *)
(* makes that closed; visit has not begun before that.                     *)
Selecting ==
  LET reached == selected \cup ToSet(todo)
  IN /\ ToSet(plan.requested) \subseteq reached
     /\ \A c \in selected : Needs(c) \subseteq reached
     /\ reached \subseteq Needed(DepsOf(plan.lists), ToSet(plan.requested))
     /\ todo # <<>> =>
          /\ calls = Visits(plan.requested) /\ visiting = {}
          /\ ordered = [error |-> "none", order |-> <<>>]

(* A call of visit ends after what it depends on was visited; what it      *)
(* has led to so far is needed by it.                                      *)
Nested ==
  \A i \in 1..Len(calls) : Leaving(i) =>
    /\ \A d \in Needs(calls[i].of) :
         d \in Visited \/ \E j \in 1..(i - 1) : calls[j].of = d
    /\ \A j \in 1..(i - 1) :
         calls[j].of \in Prerequisites(DepsOf(plan.lists), calls[i].of)

(* Each component is visited once, and is left when it was entered.        *)
Entered ==
  /\ visiting = {calls[i].of : i \in {k \in 1..Len(calls) : Leaving(k)}}
  /\ \A i, j \in 1..Len(calls) :
       Leaving(i) /\ Leaving(j) /\ calls[i].of = calls[j].of => i = j
  /\ visiting \cup Visited \subseteq selected
  /\ visiting \cap Visited = {}
  /\ Distinct(ordered.order)
  /\ DependenciesFirst(DepsOf(plan.lists), ordered.order)

Promised ==
  \A r \in ToSet(plan.requested) :
    r \in Visited \/ \E i \in 1..Len(calls) : calls[i].of = r

OrderIInv ==
  /\ OrderTypeOK /\ Selecting
  /\ ordered.error = "none" => Nested /\ Entered /\ Promised
  /\ ordered.error = "cycle" =>
       /\ Finished /\ ordered.order = <<>>
       /\ Cyclic(DepsOf(plan.lists), ToSet(plan.requested))
=============================================================================
