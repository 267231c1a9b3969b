------------------------- MODULE UpdateExecutionProofs -------------------------
(***************************************************************************)
(* Proofs about the execution of a run, for every manifest and request.    *)
(*                                                                         *)
(* The order.  Include keeps what is selected and still to do within what  *)
(* is needed, and nearly closed (Selecting).  While the calls of visit go  *)
(* on, what is above a call that has to be left is needed by its component *)
(* (Nested): so a component met again needs itself, and one that is left   *)
(* has its dependencies in the order.  In the end the order is closed, and *)
(* so is what comes before each of its components, which excludes cycles.  *)
(*                                                                         *)
(* The loop.  A turn settles the component at the position of the loop     *)
(* (SettleStep), whose dependencies come before it in the order and so     *)
(* have results.  What has all its direct dependencies has all             *)
(* prerequisites, because the components that succeeded are closed under   *)
(* dependencies (Grounded); no induction over the graph is needed.         *)
(***************************************************************************)
EXTENDS UpdateExecution, TLAPS

USE DEF orderVars

LEMMA ListType ==
  ASSUME NEW s \in Seq(Components)
  PROVE  ToSet(s) \subseteq Components /\ ToSet(s) = {s[i] : i \in 1..Len(s)}
BY DEF ToSet

(***************************************************************************)
(* What a set of components needs.                                         *)
(***************************************************************************)
LEMMA NeededFacts ==
  ASSUME NEW deps, NEW S \in SUBSET Components,
         \A c \in Components : deps[c] \subseteq Components
  PROVE  /\ S \subseteq Needed(deps, S)
         /\ Closed(deps, Needed(deps, S))
         /\ \A T \in SUBSET Components :
              S \subseteq T /\ Closed(deps, T) => Needed(deps, S) \subseteq T
BY DEF Needed, Closed

LEMMA PrerequisitesFacts ==
  ASSUME NEW deps, NEW c \in Components,
         \A d \in Components : deps[d] \subseteq Components
  PROVE  /\ deps[c] \subseteq Prerequisites(deps, c)
         /\ Closed(deps, Prerequisites(deps, c))
         /\ \A T \in SUBSET Components :
              deps[c] \subseteq T /\ Closed(deps, T) =>
                Prerequisites(deps, c) \subseteq T
BY NeededFacts DEF Prerequisites

(***************************************************************************)
(* Sequences.                                                              *)
(***************************************************************************)
LEMMA Popped ==
  ASSUME NEW S, NEW s \in Seq(S), s # <<>>
  PROVE  /\ Tail(s) \in Seq(S) /\ Len(s) \in Nat \ {0}
         /\ Len(Tail(s)) = Len(s) - 1
         /\ \A i \in 1..Len(Tail(s)) : Tail(s)[i] = s[i + 1]
         /\ Head(s) = s[1] /\ s[1] \in S
OBVIOUS

LEMMA Joined ==
  ASSUME NEW S, NEW s \in Seq(S), NEW t \in Seq(S)
  PROVE  /\ s \o t \in Seq(S) /\ Len(s) \in Nat /\ Len(t) \in Nat
         /\ Len(s \o t) = Len(s) + Len(t)
         /\ \A i \in 1..Len(s) : (s \o t)[i] = s[i]
         /\ \A i \in (Len(s) + 1)..(Len(s) + Len(t)) :
              (s \o t)[i] = t[i - Len(s)]
OBVIOUS

LEMMA PoppedSet ==
  ASSUME NEW S, NEW s \in Seq(S), s # <<>>
  PROVE  ToSet(s) = {Head(s)} \cup ToSet(Tail(s))
<1>1. ToSet(s) = {s[i] : i \in 1..Len(s)}
  BY DEF ToSet
<1>2. ToSet(Tail(s)) = {s[i + 1] : i \in 1..(Len(s) - 1)}
  <2>1. ToSet(Tail(s)) = {Tail(s)[i] : i \in 1..Len(Tail(s))}
    <3> DEFINE r == Tail(s)
    <3>1. r \in Seq(S)
      OBVIOUS
    <3> HIDE DEF r
    <3>2. ToSet(r) = {r[i] : i \in 1..Len(r)}
      BY <3>1 DEF ToSet
    <3> QED
      BY <3>2 DEF r
  <2> QED
    BY <2>1, Popped
<1>3. \A i \in 1..Len(s) : i = 1 \/ i - 1 \in 1..(Len(s) - 1)
  BY Popped
<1>4. \A i \in 1..(Len(s) - 1) : i + 1 \in 1..Len(s)
  BY Popped
<1>5. 1 \in 1..Len(s)
  BY Popped
<1>6. ASSUME NEW i \in 1..Len(s) PROVE s[i] = s[1] \/ s[i] \in ToSet(Tail(s))
  <2>1. CASE i # 1
    <3>1. i - 1 \in 1..(Len(s) - 1) /\ s[i] = s[(i - 1) + 1]
      BY <1>3, <2>1
    <3> QED
      BY <3>1, <1>2
  <2> QED
    BY <2>1
<1> QED
  BY <1>1, <1>2, <1>4, <1>5, <1>6, Popped

LEMMA JoinedSet ==
  ASSUME NEW s \in Seq(Components), NEW t \in Seq(Components)
  PROVE  s \o t \in Seq(Components) /\ ToSet(s \o t) = ToSet(s) \cup ToSet(t)
<1>1. /\ s \o t \in Seq(Components) /\ Len(s \o t) = Len(s) + Len(t)
      /\ Len(s) \in Nat /\ Len(t) \in Nat
      /\ \A i \in 1..Len(s) : (s \o t)[i] = s[i]
      /\ \A i \in (Len(s) + 1)..(Len(s) + Len(t)) : (s \o t)[i] = t[i - Len(s)]
  BY Joined
<1>2. /\ ToSet(s) = {s[i] : i \in 1..Len(s)}
      /\ ToSet(t) = {t[i] : i \in 1..Len(t)}
      /\ ToSet(s \o t) = {(s \o t)[i] : i \in 1..Len(s \o t)}
  BY <1>1 DEF ToSet
<1>3. ASSUME NEW i \in 1..Len(s \o t)
      PROVE  (s \o t)[i] \in ToSet(s) \cup ToSet(t)
  <2>1. CASE i <= Len(s)
    BY <1>1, <1>2, <2>1
  <2>2. CASE ~(i <= Len(s))
    <3>1. /\ i \in (Len(s) + 1)..(Len(s) + Len(t))
          /\ i - Len(s) \in 1..Len(t)
      BY <1>1, <2>2
    <3> QED
      BY <3>1, <1>1, <1>2
  <2> QED
    BY <2>1, <2>2
<1>4. ASSUME NEW i \in 1..Len(s) PROVE s[i] \in ToSet(s \o t)
  BY <1>1, <1>2
<1>5. ASSUME NEW i \in 1..Len(t) PROVE t[i] \in ToSet(s \o t)
  <2>1. /\ i + Len(s) \in (Len(s) + 1)..(Len(s) + Len(t))
        /\ (i + Len(s)) - Len(s) = i /\ i + Len(s) \in 1..Len(s \o t)
    BY <1>1
  <2> QED
    BY <2>1, <1>1, <1>2
<1>6. ToSet(s \o t) \subseteq ToSet(s) \cup ToSet(t)
  BY <1>2, <1>3
<1>7. ToSet(s) \cup ToSet(t) \subseteq ToSet(s \o t)
  <2>1. ToSet(s) \subseteq ToSet(s \o t)
    BY <1>2, <1>4
  <2>2. ToSet(t) \subseteq ToSet(s \o t)
    BY <1>2, <1>5
  <2> QED
    BY <2>1, <2>2
<1> QED
  BY <1>1, <1>6, <1>7

LEMMA AppendedSet ==
  ASSUME NEW s \in Seq(Components), NEW c \in Components
  PROVE  /\ Append(s, c) \in Seq(Components)
         /\ Len(Append(s, c)) = Len(s) + 1
         /\ \A i \in 1..Len(s) : Append(s, c)[i] = s[i]
         /\ Append(s, c)[Len(s) + 1] = c
         /\ ToSet(Append(s, c)) = ToSet(s) \cup {c}
<1>1. /\ Append(s, c) \in Seq(Components)
      /\ Len(Append(s, c)) = Len(s) + 1 /\ Len(s) \in Nat
      /\ \A i \in 1..Len(s) : Append(s, c)[i] = s[i]
      /\ Append(s, c)[Len(s) + 1] = c
  OBVIOUS
<1>2. /\ ToSet(s) = {s[i] : i \in 1..Len(s)}
      /\ ToSet(Append(s, c)) = {Append(s, c)[i] : i \in 1..(Len(s) + 1)}
  BY <1>1 DEF ToSet
<1>3. \A i \in 1..(Len(s) + 1) : i \in 1..Len(s) \/ i = Len(s) + 1
  BY <1>1
<1>4. /\ \A i \in 1..Len(s) : i \in 1..(Len(s) + 1)
      /\ Len(s) + 1 \in 1..(Len(s) + 1)
  BY <1>1
<1>5. ToSet(Append(s, c)) \subseteq ToSet(s) \cup {c}
  BY <1>1, <1>2, <1>3
<1>6. ToSet(s) \cup {c} \subseteq ToSet(Append(s, c))
  BY <1>1, <1>2, <1>4
<1> QED
  BY <1>1, <1>5, <1>6

LEMMA VisitsType ==
  ASSUME NEW s \in Seq(Components)
  PROVE  /\ Visits(s) \in Seq(Calls) /\ Len(Visits(s)) = Len(s)
         /\ \A i \in 1..Len(s) : Visits(s)[i] = [do |-> "visit", of |-> s[i]]
BY DEF Visits, Calls

LEMMA JoinedAround ==
  ASSUME NEW u \in Seq(Calls), NEW x \in Calls, NEW w \in Seq(Calls)
  PROVE  /\ u \o <<x>> \o w \in Seq(Calls) /\ Len(u) \in Nat /\ Len(w) \in Nat
         /\ Len(u \o <<x>> \o w) = Len(u) + 1 + Len(w)
         /\ \A i \in 1..Len(u) : (u \o <<x>> \o w)[i] = u[i]
         /\ (u \o <<x>> \o w)[Len(u) + 1] = x
         /\ \A i \in (Len(u) + 2)..(Len(u) + 1 + Len(w)) :
              (u \o <<x>> \o w)[i] = w[i - (Len(u) + 1)]
<1> DEFINE v == u \o <<x>>
<1>1. /\ v \in Seq(Calls) /\ Len(v) = Len(u) + 1
      /\ Len(u) \in Nat /\ Len(w) \in Nat
      /\ \A i \in 1..Len(u) : v[i] = u[i]
      /\ v[Len(u) + 1] = x
  OBVIOUS
<1> HIDE DEF v
<1>2. /\ v \o w \in Seq(Calls) /\ Len(v \o w) = Len(v) + Len(w)
      /\ \A i \in 1..Len(v) : (v \o w)[i] = v[i]
      /\ \A i \in (Len(v) + 1)..(Len(v) + Len(w)) : (v \o w)[i] = w[i - Len(v)]
  BY <1>1
<1>3. \A i \in 1..Len(u) : (v \o w)[i] = u[i]
  BY <1>1, <1>2
<1>4. (v \o w)[Len(u) + 1] = x
  BY <1>1, <1>2
<1>5. \A i \in (Len(u) + 2)..(Len(u) + 1 + Len(w)) :
        (v \o w)[i] = w[i - (Len(u) + 1)]
  BY <1>1, <1>2
<1>6. v \o w \in Seq(Calls) /\ Len(v \o w) = Len(u) + 1 + Len(w)
  BY <1>1, <1>2
<1> QED
  BY <1>1, <1>3, <1>4, <1>5, <1>6 DEF v

(* The calls left when a visit is entered: those it makes, its end, and    *)
(* what was left before.                                                   *)
LEMMA EnteredCalls ==
  ASSUME NEW c \in Components, plan.lists[c] \in Seq(Components),
         NEW s \in Seq(Calls), s # <<>>
  PROVE  /\ Within(c, Tail(s)) \in Seq(Calls)
         /\ Len(Within(c, Tail(s))) = Len(plan.lists[c]) + Len(s)
         /\ \A i \in 1..Len(plan.lists[c]) :
              Within(c, Tail(s))[i] = [do |-> "visit", of |-> plan.lists[c][i]]
         /\ Within(c, Tail(s))[Len(plan.lists[c]) + 1]
              = [do |-> "leave", of |-> c]
         /\ \A i \in (Len(plan.lists[c]) + 2)..(Len(plan.lists[c]) + Len(s)) :
              Within(c, Tail(s))[i] = s[i - Len(plan.lists[c])]
<1> DEFINE l == plan.lists[c]
           v == Visits(l)
           x == [do |-> "leave", of |-> c]
           w == Tail(s)
           t == Within(c, w)
<1>1. /\ v \in Seq(Calls) /\ Len(v) = Len(l) /\ Len(l) \in Nat
      /\ \A i \in 1..Len(l) : v[i] = [do |-> "visit", of |-> l[i]]
  BY VisitsType
<1>2. x \in Calls
  BY DEF Calls
<1>3. /\ w \in Seq(Calls) /\ Len(s) \in Nat \ {0} /\ Len(w) = Len(s) - 1
      /\ \A i \in 1..Len(w) : w[i] = s[i + 1]
  BY Popped
<1>4. t = v \o <<x>> \o w
  BY DEF Within
<1> HIDE DEF v, x, w, t
<1>5. /\ t \in Seq(Calls) /\ Len(t) = Len(l) + 1 + Len(w)
      /\ \A i \in 1..Len(l) : t[i] = v[i]
      /\ t[Len(l) + 1] = x
      /\ \A i \in (Len(l) + 2)..(Len(l) + 1 + Len(w)) :
           t[i] = w[i - (Len(l) + 1)]
  <2>1. v \in Seq(Calls) /\ x \in Calls /\ w \in Seq(Calls)
    BY <1>1, <1>2, <1>3
  <2>2. /\ v \o <<x>> \o w \in Seq(Calls)
        /\ Len(v \o <<x>> \o w) = Len(v) + 1 + Len(w)
        /\ \A i \in 1..Len(v) : (v \o <<x>> \o w)[i] = v[i]
        /\ (v \o <<x>> \o w)[Len(v) + 1] = x
        /\ \A i \in (Len(v) + 2)..(Len(v) + 1 + Len(w)) :
             (v \o <<x>> \o w)[i] = w[i - (Len(v) + 1)]
    BY ONLY <2>1, JoinedAround
  <2>3. Len(v) = Len(l)
    BY <1>1
  <2> QED
    BY <2>2, <2>3, <1>4
<1>6. ASSUME NEW i \in (Len(l) + 2)..(Len(l) + Len(s))
      PROVE  t[i] = s[i - Len(l)]
  <2>1. i - (Len(l) + 1) \in 1..Len(w) /\ (i - (Len(l) + 1)) + 1 = i - Len(l)
    BY <1>1, <1>3
  <2>2. i \in (Len(l) + 2)..(Len(l) + 1 + Len(w))
    BY <1>1, <1>3
  <2> QED
    BY <2>1, <2>2, <1>3, <1>5
<1>7. \A i \in 1..Len(l) : t[i] = [do |-> "visit", of |-> l[i]]
  BY <1>1, <1>5
<1>8. t \in Seq(Calls) /\ Len(t) = Len(l) + Len(s)
  BY <1>1, <1>3, <1>5
<1>9. t[Len(l) + 1] = [do |-> "leave", of |-> c]
  BY <1>5 DEF x
<1> QED
  BY ONLY <1>6, <1>7, <1>8, <1>9 DEF t, w

(***************************************************************************)
(* The order.                                                              *)
(***************************************************************************)
LEMMA OrderTypes ==
  ASSUME OrderTypeOK
  PROVE  /\ plan.requested \in Seq(Components)
         /\ ToSet(plan.requested) \subseteq Components
         /\ \A c \in Components :
              /\ plan.lists[c] \in Seq(Components)
              /\ Needs(c) = {plan.lists[c][i] : i \in 1..Len(plan.lists[c])}
              /\ Needs(c) \subseteq Components
              /\ DepsOf(plan.lists)[c] = Needs(c)
         /\ ordered.order \in Seq(Components) /\ Len(ordered.order) \in Nat
         /\ Visited = {ordered.order[i] : i \in 1..Len(ordered.order)}
         /\ Visited \subseteq Components
         /\ calls \in Seq(Calls) /\ Len(calls) \in Nat
         /\ \A i \in 1..Len(calls) :
              calls[i].of \in Components /\ calls[i].do \in {"visit", "leave"}
<1>1. /\ plan.requested \in Seq(Components)
      /\ \A c \in Components : plan.lists[c] \in Seq(Components)
      /\ ordered.order \in Seq(Components) /\ calls \in Seq(Calls)
  BY DEF OrderTypeOK, Plan, Ordered
<1>2. /\ ToSet(plan.requested) \subseteq Components
      /\ Visited = {ordered.order[i] : i \in 1..Len(ordered.order)}
      /\ Visited \subseteq Components
  BY <1>1, ListType DEF Visited
<1>3. ASSUME NEW c \in Components
      PROVE  /\ Needs(c) = {plan.lists[c][i] : i \in 1..Len(plan.lists[c])}
             /\ Needs(c) \subseteq Components
             /\ DepsOf(plan.lists)[c] = Needs(c)
  BY <1>1, ListType DEF Needs, DepsOf
<1>4. \A i \in 1..Len(calls) : calls[i] \in Calls
  BY <1>1
<1>5. \A i \in 1..Len(calls) :
        calls[i].of \in Components /\ calls[i].do \in {"visit", "leave"}
  BY <1>4 DEF Calls
<1>6. Len(ordered.order) \in Nat /\ Len(calls) \in Nat
  BY <1>1
<1> QED
  BY <1>1, <1>2, <1>3, <1>5, <1>6

(* What the request needs, and what one component needs.                   *)
LEMMA NeedsOfRequest ==
  ASSUME OrderTypeOK,
         NEW N, N = Needed(DepsOf(plan.lists), ToSet(plan.requested))
  PROVE  /\ ToSet(plan.requested) \subseteq N /\ N \subseteq Components
         /\ \A c \in N : Needs(c) \subseteq N
         /\ \A T \in SUBSET Components :
              /\ ToSet(plan.requested) \subseteq T
              /\ \A c \in T : Needs(c) \subseteq T
              => N \subseteq T
<1> DEFINE deps == DepsOf(plan.lists)
           R == ToSet(plan.requested)
<1>1. /\ \A c \in Components :
           deps[c] = Needs(c) /\ deps[c] \subseteq Components
      /\ R \in SUBSET Components
  BY OrderTypes
<1>2. N \subseteq Components
  BY DEF Needed
<1> HIDE DEF deps, R
<1>3. /\ R \subseteq Needed(deps, R) /\ Closed(deps, Needed(deps, R))
      /\ \A T \in SUBSET Components :
           R \subseteq T /\ Closed(deps, T) => Needed(deps, R) \subseteq T
  BY <1>1, NeededFacts
<1>4. N = Needed(deps, R)
  BY DEF deps, R
<1>5. R \subseteq N /\ \A c \in N : Needs(c) \subseteq N
  BY <1>1, <1>2, <1>3, <1>4 DEF Closed
<1>6. ASSUME NEW T \in SUBSET Components, R \subseteq T,
             \A c \in T : Needs(c) \subseteq T
      PROVE  N \subseteq T
  <2>1. Closed(deps, T)
    BY <1>1, <1>6 DEF Closed
  <2> QED
    BY <1>3, <1>4, <1>6, <2>1
<1> QED
  BY <1>2, <1>5, <1>6 DEF R

LEMMA NeedsOfOne ==
  ASSUME OrderTypeOK, NEW x \in Components,
         NEW P, P = Prerequisites(DepsOf(plan.lists), x)
  PROVE  /\ Needs(x) \subseteq P /\ P \subseteq Components
         /\ \A c \in P : Needs(c) \subseteq P
         /\ \A T \in SUBSET Components :
              /\ Needs(x) \subseteq T
              /\ \A c \in T : Needs(c) \subseteq T
              => P \subseteq T
<1> DEFINE deps == DepsOf(plan.lists)
<1>1. \A c \in Components : deps[c] = Needs(c) /\ deps[c] \subseteq Components
  BY OrderTypes
<1>2. P \subseteq Components
  BY DEF Prerequisites, Needed
<1> HIDE DEF deps
<1>3. P = Prerequisites(deps, x)
  BY DEF deps
<1>4. /\ deps[x] \subseteq P /\ Closed(deps, P)
      /\ \A T \in SUBSET Components :
           deps[x] \subseteq T /\ Closed(deps, T) => P \subseteq T
  BY <1>1, <1>3, PrerequisitesFacts
<1>5. Needs(x) \subseteq P /\ \A c \in P : Needs(c) \subseteq P
  BY <1>1, <1>2, <1>4 DEF Closed
<1>6. ASSUME NEW T \in SUBSET Components, Needs(x) \subseteq T,
             \A c \in T : Needs(c) \subseteq T
      PROVE  P \subseteq T
  <2>1. Closed(deps, T) /\ deps[x] \subseteq T
    BY <1>1, <1>6 DEF Closed
  <2> QED
    BY <1>4, <2>1
<1> QED
  BY <1>2, <1>5, <1>6

LEMMA OrderInitInvariant == OrderInit => OrderIInv
<1> SUFFICES ASSUME OrderInit PROVE OrderIInv
  OBVIOUS
<1>1. /\ plan \in Plan /\ plan.requested \in Seq(Components)
      /\ selected = {} /\ visiting = {} /\ todo = plan.requested
      /\ calls = Visits(plan.requested)
      /\ ordered = [error |-> "none", order |-> <<>>]
  BY PlansAssumption DEF OrderInit, Plan
<1>2. /\ calls \in Seq(Calls) /\ Len(calls) = Len(plan.requested)
      /\ \A i \in 1..Len(calls) :
           calls[i].do = "visit" /\ calls[i].of = plan.requested[i]
  <2>1. /\ calls \in Seq(Calls) /\ Len(calls) = Len(plan.requested)
        /\ \A i \in 1..Len(plan.requested) :
             calls[i] = [do |-> "visit", of |-> plan.requested[i]]
    BY <1>1, VisitsType
  <2>2. ASSUME NEW i \in 1..Len(calls)
        PROVE  calls[i].do = "visit" /\ calls[i].of = plan.requested[i]
    <3>1. calls[i] = [do |-> "visit", of |-> plan.requested[i]]
      BY <2>1
    <3> QED
      BY ONLY <3>1
  <2> QED
    BY <2>1, <2>2
<1>3. OrderTypeOK
  BY <1>1, <1>2 DEF OrderTypeOK, Ordered
<1>4. Visited = {} /\ Len(ordered.order) = 0
  BY <1>1, <1>3, OrderTypes
<1>5. Selecting
  <2>1. ToSet(plan.requested) \subseteq
          Needed(DepsOf(plan.lists), ToSet(plan.requested))
    BY <1>3, NeedsOfRequest
  <2> QED
    BY <1>1, <2>1 DEF Selecting
<1>6. \A i \in 1..Len(calls) : ~Leaving(i)
  BY <1>2 DEF Leaving
<1>7. Nested
  BY <1>6 DEF Nested
<1>8. Entered
  BY <1>1, <1>4, <1>6 DEF Entered, Distinct, DependenciesFirst
<1>9. Promised
  <2>1. ToSet(plan.requested)
          = {plan.requested[i] : i \in 1..Len(plan.requested)}
    BY <1>1, ListType
  <2> QED
    BY <1>2, <2>1 DEF Promised
<1> QED
  BY <1>1, <1>3, <1>5, <1>7, <1>8, <1>9 DEF OrderIInv

LEMMA IncludeStep == ASSUME OrderIInv, Include PROVE OrderIInv'
<1> DEFINE c == Head(todo)
           reached == selected \cup ToSet(todo)
           N == Needed(DepsOf(plan.lists), ToSet(plan.requested))
<1>1. /\ OrderTypeOK /\ Selecting /\ todo # <<>>
      /\ UNCHANGED <<plan, visiting, calls, ordered>>
  BY DEF OrderIInv, Include
<1>2. /\ ordered = [error |-> "none", order |-> <<>>]
      /\ calls = Visits(plan.requested) /\ visiting = {}
  BY <1>1 DEF Selecting
<1>3. /\ todo \in Seq(Components) /\ c \in Components
      /\ Tail(todo) \in Seq(Components)
      /\ ToSet(todo) = {c} \cup ToSet(Tail(todo))
  <2>1. todo \in Seq(Components)
    BY <1>1 DEF OrderTypeOK
  <2> QED
    BY <1>1, <2>1, Popped, PoppedSet
<1>4. /\ selected' = selected \cup {c}
      /\ c \in selected => todo' = Tail(todo)
      /\ c \notin selected => todo' = plan.lists[c] \o Tail(todo)
  BY DEF Include
<1>5. /\ plan.lists[c] \in Seq(Components) /\ Needs(c) = ToSet(plan.lists[c])
      /\ Needs(c) \subseteq Components
  BY <1>1, <1>3, OrderTypes DEF Needs
<1>6. /\ todo' \in Seq(Components)
      /\ c \in selected => ToSet(todo') = ToSet(Tail(todo))
      /\ c \notin selected => ToSet(todo') = Needs(c) \cup ToSet(Tail(todo))
  <2>1. CASE c \in selected
    BY <2>1, <1>3, <1>4
  <2>2. CASE c \notin selected
    <3>1. todo' = plan.lists[c] \o Tail(todo)
      BY <2>2, <1>4
    <3> QED
      BY <3>1, <2>2, <1>3, <1>5, JoinedSet
  <2> QED
    BY <2>1, <2>2
<1>7. OrderTypeOK'
  BY <1>1, <1>3, <1>4, <1>6 DEF OrderTypeOK
<1>8. /\ reached \subseteq N /\ ToSet(plan.requested) \subseteq reached
      /\ \A d \in selected : Needs(d) \subseteq reached
  BY <1>1 DEF Selecting
<1>9. Needs(c) \subseteq N
  <2>1. c \in N
    BY <1>3, <1>8
  <2> HIDE DEF c, N
  <2> QED
    BY <2>1, <1>1, NeedsOfRequest DEF N
<1>10. /\ reached \subseteq reached' /\ reached' \subseteq N
       /\ Needs(c) \subseteq reached'
  <2>1. CASE c \in selected
    <3>1. reached' = reached
      BY <2>1, <1>3, <1>4, <1>6
    <3> QED
      BY <2>1, <3>1, <1>8
  <2>2. CASE c \notin selected
    <3>1. reached' = reached \cup Needs(c)
      BY <2>2, <1>3, <1>4, <1>6
    <3> QED
      BY <3>1, <1>8, <1>9
  <2> QED
    BY <2>1, <2>2
<1>11. Selecting'
  <2>1. N' = N /\ ToSet(plan'.requested) = ToSet(plan.requested)
        /\ \A d : Needs(d)' = Needs(d)
    BY <1>1 DEF Needs
  <2>2. \A d \in selected' : Needs(d) \subseteq reached'
    BY <1>4, <1>8, <1>10
  <2>3. ToSet(plan.requested) \subseteq reached'
    BY <1>8, <1>10
  <2> QED
    BY <1>1, <1>2, <1>10, <2>1, <2>2, <2>3 DEF Selecting
<1>12. Nested' /\ Promised' /\ Entered'
  <2>1. Nested /\ Promised /\ Entered
    BY <1>2 DEF OrderIInv
  <2>2. /\ UNCHANGED <<plan, calls, ordered, visiting>>
        /\ selected \subseteq selected'
    BY <1>1, <1>4
  <2>3. Nested' /\ Promised'
    BY <2>1, <2>2 DEF Nested, Promised, Leaving, Needs, Visited
  <2>4. Entered'
    BY <2>1, <2>2 DEF Entered, Leaving, Visited
  <2> QED
    BY <2>3, <2>4
<1>13. ordered'.error = "none"
  BY <1>1, <1>2
<1> QED
  BY <1>7, <1>11, <1>12, <1>13 DEF OrderIInv

(* Once everything is selected, that is what the request needs.            *)
LEMMA SelectedFacts ==
  ASSUME OrderIInv, todo = <<>>
  PROVE  /\ ToSet(plan.requested) \subseteq selected
         /\ selected = Needed(DepsOf(plan.lists), ToSet(plan.requested))
         /\ selected \subseteq Components
         /\ \A c \in selected : Needs(c) \subseteq selected
<1> DEFINE N == Needed(DepsOf(plan.lists), ToSet(plan.requested))
<1>1. OrderTypeOK /\ Selecting /\ selected \subseteq Components
  BY DEF OrderIInv, OrderTypeOK
<1>2. ToSet(todo) = {}
  BY DEF ToSet
<1>3. /\ ToSet(plan.requested) \subseteq selected
      /\ \A c \in selected : Needs(c) \subseteq selected
      /\ selected \subseteq N
  BY <1>1, <1>2 DEF Selecting
<1> HIDE DEF N
<1>4. N \subseteq selected
  BY <1>1, <1>3, NeedsOfRequest DEF N
<1>5. selected = N
  BY <1>3, <1>4
<1> QED
  BY <1>1, <1>3, <1>5 DEF N

(* What is next to do in a visit.                                          *)
LEMMA DueFacts ==
  ASSUME OrderIInv, NEW do, Due(do)
  PROVE  /\ OrderTypeOK /\ Selecting /\ todo = <<>>
         /\ ordered.error = "none" /\ Nested /\ Entered /\ Promised
         /\ calls \in Seq(Calls) /\ calls # <<>> /\ Len(calls) \in Nat \ {0}
         /\ 1 \in 1..Len(calls)
         /\ calls[1].do = do /\ This = calls[1].of /\ This \in Components
         /\ Tail(calls) \in Seq(Calls) /\ Len(Tail(calls)) = Len(calls) - 1
         /\ \A i \in 1..Len(Tail(calls)) : Tail(calls)[i] = calls[i + 1]
<1>1. todo = <<>> /\ calls # <<>> /\ Head(calls).do = do
  BY DEF Due
<1>2. OrderTypeOK /\ Selecting /\ ordered.error \in {"none", "cycle"}
  BY DEF OrderIInv, OrderTypeOK, Ordered
<1>3. ordered.error = "none"
  BY <1>1, <1>2 DEF OrderIInv, Finished
<1>4. calls \in Seq(Calls)
  BY <1>2, OrderTypes
<1>5. /\ Len(calls) \in Nat \ {0} /\ Head(calls) = calls[1]
      /\ Tail(calls) \in Seq(Calls) /\ Len(Tail(calls)) = Len(calls) - 1
      /\ \A i \in 1..Len(Tail(calls)) : Tail(calls)[i] = calls[i + 1]
      /\ calls[1] \in Calls
  BY <1>1, <1>4, Popped
<1>6. This = calls[1].of /\ calls[1].do = do /\ This \in Components
  BY <1>1, <1>5 DEF This, Calls
<1>7. 1 \in 1..Len(calls)
  BY <1>5
<1> QED
  BY <1>1, <1>2, <1>3, <1>4, <1>5, <1>6, <1>7 DEF OrderIInv

LEMMA KeepSelecting ==
  ASSUME Selecting, todo = <<>>, UNCHANGED <<plan, selected, todo>>
  PROVE  Selecting'
BY DEF Selecting, Needs

(* The end of what is next: it was visited, or is not selected.            *)
LEMMA PopStep ==
  ASSUME OrderIInv, NEW do, Due(do), calls' = Tail(calls),
         UNCHANGED <<plan, selected, todo>>,
         Visited \subseteq Visited', This \in selected => This \in Visited'
  PROVE  Selecting' /\ Nested' /\ Promised'
<1>1. /\ OrderTypeOK /\ Selecting /\ todo = <<>>
      /\ Nested /\ Entered /\ Promised
      /\ This = calls[1].of /\ Len(calls) \in Nat \ {0}
      /\ Len(calls') = Len(calls) - 1
      /\ \A i \in 1..Len(calls') : calls'[i] = calls[i + 1]
  BY DueFacts
<1>2. /\ ToSet(plan.requested) \subseteq selected
      /\ \A c \in selected : Needs(c) \subseteq selected
  BY <1>1, SelectedFacts
<1>3. Selecting'
  BY <1>1, KeepSelecting
<1>4. \A i \in 1..Len(calls') :
        /\ i + 1 \in 1..Len(calls) /\ calls'[i] = calls[i + 1]
        /\ Leaving(i)' <=> Leaving(i + 1)
  BY <1>1 DEF Leaving
<1>5. \A i \in 1..Len(calls) : i = 1 \/ i - 1 \in 1..Len(calls')
  BY <1>1
<1>6. ASSUME NEW i \in 1..Len(calls'), Leaving(i)'
      PROVE  /\ \A d \in Needs(calls'[i].of) :
                  d \in Visited' \/ \E j \in 1..(i - 1) : calls'[j].of = d
             /\ \A j \in 1..(i - 1) :
                  calls'[j].of \in
                    Prerequisites(DepsOf(plan.lists), calls'[i].of)
  <2>1. i + 1 \in 1..Len(calls) /\ Leaving(i + 1) /\ calls'[i] = calls[i + 1]
    BY <1>4, <1>6
  <2>2. /\ \A d \in Needs(calls[i + 1].of) :
             d \in Visited \/ \E j \in 1..((i + 1) - 1) : calls[j].of = d
        /\ \A j \in 1..((i + 1) - 1) :
             calls[j].of \in Prerequisites(DepsOf(plan.lists), calls[i + 1].of)
    BY <1>1, <2>1 DEF Nested
  <2>3. calls[i + 1].of \in selected
    BY <1>1, <2>1 DEF Entered
  <2>4. ASSUME NEW d \in Needs(calls[i + 1].of), d \notin Visited'
        PROVE  \E j \in 1..(i - 1) : calls'[j].of = d
    <3>1. PICK j \in 1..i : calls[j].of = d
      BY <2>2, <2>4, <1>1
    <3>2. d \in selected
      BY <2>3, <2>4, <1>2
    <3>3. j # 1
      BY <3>1, <3>2, <2>4, <1>1
    <3>4. /\ j - 1 \in 1..(i - 1) /\ j - 1 \in 1..Len(calls')
          /\ (j - 1) + 1 = j
      BY <3>3, <1>1
    <3> QED
      BY <3>1, <3>4, <1>1
  <2>5. ASSUME NEW j \in 1..(i - 1)
        PROVE  calls'[j].of \in
                 Prerequisites(DepsOf(plan.lists), calls[i + 1].of)
    <3>1. j \in 1..Len(calls') /\ j + 1 \in 1..((i + 1) - 1)
      BY <1>1
    <3> QED
      BY <3>1, <2>2, <1>1
  <2> QED
    BY <2>1, <2>4, <2>5
<1>7. Nested'
  <2>1. plan' = plan
    OBVIOUS
  <2> QED
    BY <1>6, <2>1 DEF Nested, Needs
<1>8. Promised'
  <2> SUFFICES ASSUME NEW r \in ToSet(plan.requested), r \notin Visited'
               PROVE  \E i \in 1..Len(calls') : calls'[i].of = r
    BY DEF Promised
  <2>1. PICK i \in 1..Len(calls) : calls[i].of = r
    BY <1>1 DEF Promised
  <2>2. i # 1
    BY <2>1, <1>1, <1>2
  <2>3. i - 1 \in 1..Len(calls') /\ (i - 1) + 1 = i
    BY <2>2, <1>1
  <2> QED
    BY <2>1, <2>3, <1>1
<1> QED
  BY <1>3, <1>7, <1>8

LEMMA PassStep == ASSUME OrderIInv, Pass PROVE OrderIInv'
<1>1. /\ Due("visit") /\ calls' = Tail(calls)
      /\ UNCHANGED <<plan, selected, visiting, todo, ordered>>
      /\ This \notin selected \/ This \in Visited
  BY DEF Pass
<1>2. /\ OrderTypeOK /\ Entered /\ ordered.error = "none"
      /\ calls[1].do = "visit" /\ Len(calls) \in Nat \ {0}
      /\ calls' \in Seq(Calls) /\ Len(calls') = Len(calls) - 1
      /\ \A i \in 1..Len(calls') : calls'[i] = calls[i + 1]
  BY <1>1, DueFacts
<1>3. Visited' = Visited
  BY <1>1 DEF Visited
<1>4. Selecting' /\ Nested' /\ Promised'
  BY <1>1, <1>3, PopStep
<1>5. OrderTypeOK'
  BY <1>1, <1>2 DEF OrderTypeOK
<1>6. /\ \A i \in 1..Len(calls') :
           i + 1 \in 1..Len(calls) /\ (Leaving(i)' <=> Leaving(i + 1))
      /\ \A i \in 1..Len(calls) :
           Leaving(i) => i - 1 \in 1..Len(calls') /\ (i - 1) + 1 = i
  BY <1>2 DEF Leaving
<1>7. visiting' = {calls'[i].of : i \in {k \in 1..Len(calls') : Leaving(k)'}}
  <2>1. visiting = {calls[i].of : i \in {k \in 1..Len(calls) : Leaving(k)}}
    BY <1>2 DEF Entered
  <2>2. ASSUME NEW i \in 1..Len(calls'), Leaving(i)'
        PROVE  calls'[i].of \in visiting
    BY <2>1, <2>2, <1>2, <1>6
  <2>3. ASSUME NEW i \in 1..Len(calls), Leaving(i)
        PROVE  \E k \in 1..Len(calls') :
                 Leaving(k)' /\ calls'[k].of = calls[i].of
    <3>1. i - 1 \in 1..Len(calls') /\ (i - 1) + 1 = i
      BY <1>6, <2>3
    <3> QED
      BY <3>1, <2>3, <1>2, <1>6
  <2> QED
    BY <2>1, <2>2, <2>3, <1>1
<1>8. \A i, j \in 1..Len(calls') :
        Leaving(i)' /\ Leaving(j)' /\ calls'[i].of = calls'[j].of => i = j
  <2> SUFFICES ASSUME NEW i \in 1..Len(calls'), NEW j \in 1..Len(calls'),
                      Leaving(i)', Leaving(j)', calls'[i].of = calls'[j].of
               PROVE  i = j
    OBVIOUS
  <2>1. i + 1 = j + 1
    BY <1>2, <1>6 DEF Entered
  <2> QED
    BY <2>1
<1>9. Entered'
  BY <1>1, <1>2, <1>3, <1>7, <1>8 DEF Entered
<1> QED
  BY <1>1, <1>2, <1>4, <1>5, <1>9 DEF OrderIInv

(* A component met again before it was left needs itself.                  *)
LEMMA RaiseStep == ASSUME OrderIInv, Raise PROVE OrderIInv'
<1>1. /\ Due("visit") /\ This \in selected /\ This \in visiting
      /\ ordered' = [error |-> "cycle", order |-> <<>>] /\ calls' = <<>>
      /\ UNCHANGED <<plan, selected, visiting, todo>>
  BY DEF Raise
<1>2. /\ OrderTypeOK /\ Selecting /\ todo = <<>> /\ Nested /\ Entered
      /\ calls[1].do = "visit" /\ This = calls[1].of /\ This \in Components
      /\ Len(calls) \in Nat \ {0}
  BY <1>1, DueFacts
<1>3. PICK i \in 1..Len(calls) : Leaving(i) /\ calls[i].of = This
  BY <1>1, <1>2 DEF Entered
<1>4. 1 \in 1..(i - 1)
  BY <1>2, <1>3 DEF Leaving
<1>5. This \in Prerequisites(DepsOf(plan.lists), This)
  BY <1>2, <1>3, <1>4 DEF Nested
<1>6. This \in Needed(DepsOf(plan.lists), ToSet(plan.requested))
  BY <1>1, <1>2, SelectedFacts
<1>7. Cyclic(DepsOf(plan.lists), ToSet(plan.requested))
  BY <1>5, <1>6 DEF Cyclic
<1>8. OrderTypeOK'
  BY <1>1, <1>2 DEF OrderTypeOK, Ordered
<1>9. Selecting'
  BY <1>1, <1>2, KeepSelecting
<1>10. Finished' /\ ordered'.order = <<>> /\ ordered'.error = "cycle"
  BY <1>1, <1>2 DEF Finished
<1> QED
  BY <1>1, <1>7, <1>8, <1>9, <1>10 DEF OrderIInv

(* A visit makes those of the dependencies, and is left after them.        *)
LEMMA EnterStep == ASSUME OrderIInv, Enter PROVE OrderIInv'
<1>1. /\ Due("visit") /\ visiting' = visiting \cup {This}
      /\ calls' = Within(This, Tail(calls))
      /\ UNCHANGED <<plan, selected, todo, ordered>>
      /\ This \in selected /\ This \notin Visited /\ This \notin visiting
  BY DEF Enter
<1>2. /\ OrderTypeOK /\ Selecting /\ todo = <<>> /\ ordered.error = "none"
      /\ Nested /\ Entered /\ Promised
      /\ calls[1].do = "visit" /\ This = calls[1].of /\ This \in Components
      /\ calls \in Seq(Calls) /\ calls # <<>> /\ Len(calls) \in Nat \ {0}
  BY <1>1, DueFacts
<1>3. PICK l \in Seq(Components), n \in Nat :
        /\ l = plan.lists[This] /\ n = Len(l)
        /\ Needs(This) = {l[i] : i \in 1..n} /\ Needs(This) \subseteq Components
  <2>1. /\ plan.lists[This] \in Seq(Components)
        /\ Needs(This)
             = {plan.lists[This][i] : i \in 1..Len(plan.lists[This])}
        /\ Needs(This) \subseteq Components
    BY <1>2, OrderTypes
  <2>2. Len(plan.lists[This]) \in Nat
    BY <2>1
  <2> QED
    BY <2>1, <2>2
<1>4. /\ calls' \in Seq(Calls) /\ Len(calls') = n + Len(calls)
      /\ \A i \in 1..n : calls'[i] = [do |-> "visit", of |-> l[i]]
      /\ calls'[n + 1] = [do |-> "leave", of |-> This]
      /\ \A i \in (n + 2)..(n + Len(calls)) : calls'[i] = calls[i - n]
  <2>1. /\ This \in Components /\ plan.lists[This] \in Seq(Components)
        /\ calls \in Seq(Calls) /\ calls # <<>>
    BY <1>2, <1>3
  <2>2. /\ Within(This, Tail(calls)) \in Seq(Calls)
        /\ Len(Within(This, Tail(calls))) = Len(plan.lists[This]) + Len(calls)
        /\ \A i \in 1..Len(plan.lists[This]) :
             Within(This, Tail(calls))[i]
               = [do |-> "visit", of |-> plan.lists[This][i]]
        /\ Within(This, Tail(calls))[Len(plan.lists[This]) + 1]
             = [do |-> "leave", of |-> This]
        /\ \A i \in (Len(plan.lists[This]) + 2)
                   ..(Len(plan.lists[This]) + Len(calls)) :
             Within(This, Tail(calls))[i] = calls[i - Len(plan.lists[This])]
    BY ONLY <2>1, EnteredCalls
  <2> QED
    BY <2>2, <1>1, <1>3
<1>5. /\ \A i \in 1..n : calls'[i].of = l[i] /\ ~Leaving(i)'
      /\ calls'[n + 1].of = This /\ Leaving(n + 1)'
      /\ \A i \in (n + 2)..(n + Len(calls)) :
           /\ calls'[i].of = calls[i - n].of
           /\ Leaving(i)' <=> Leaving(i - n)
  <2>1. ASSUME NEW i \in 1..n PROVE calls'[i].of = l[i] /\ ~Leaving(i)'
    <3>1. calls'[i] = [do |-> "visit", of |-> l[i]]
      BY <1>4
    <3> QED
      BY ONLY <3>1 DEF Leaving
  <2>2. calls'[n + 1].of = This /\ Leaving(n + 1)'
    BY ONLY <1>4 DEF Leaving
  <2>3. ASSUME NEW i \in (n + 2)..(n + Len(calls))
        PROVE  /\ calls'[i].of = calls[i - n].of
               /\ Leaving(i)' <=> Leaving(i - n)
    <3>1. calls'[i] = calls[i - n]
      BY <1>4
    <3> QED
      BY ONLY <3>1 DEF Leaving
  <2> QED
    BY <2>1, <2>2, <2>3
<1>6. /\ \A i \in 1..Len(calls') :
           i \in 1..n \/ i = n + 1 \/ i \in (n + 2)..(n + Len(calls))
      /\ \A i \in 2..Len(calls) :
           /\ i + n \in (n + 2)..(n + Len(calls)) /\ (i + n) - n = i
           /\ i + n \in 1..Len(calls')
      /\ n + 1 \in 1..Len(calls')
  <2>1. n \in Nat /\ Len(calls) \in Nat \ {0} /\ Len(calls') = n + Len(calls)
    BY <1>2, <1>3, <1>4
  <2> QED
    BY ONLY <2>1
<1>7. UNCHANGED <<Visited>> /\ \A c : Needs(c)' = Needs(c)
  BY <1>1 DEF Visited, Needs
<1>8. OrderTypeOK'
  BY <1>1, <1>2, <1>4 DEF OrderTypeOK
<1>9. Selecting'
  BY <1>1, <1>2, KeepSelecting
<1> DEFINE P(c) == Prerequisites(DepsOf(plan.lists), c)
<1>10. ASSUME NEW i \in 1..Len(calls'), Leaving(i)'
       PROVE  /\ \A d \in Needs(calls'[i].of) :
                   d \in Visited \/ \E j \in 1..(i - 1) : calls'[j].of = d
              /\ \A j \in 1..(i - 1) : calls'[j].of \in P(calls'[i].of)
  <2>1. CASE i = n + 1
    <3>1. ASSUME NEW d \in Needs(This)
          PROVE  \E j \in 1..((n + 1) - 1) : calls'[j].of = d
      <4>1. PICK j \in 1..n : d = l[j]
        BY <1>3
      <4>2. j \in 1..((n + 1) - 1) /\ calls'[j].of = d
        BY <4>1, <1>5
      <4> QED
        BY <4>2
    <3>2. Needs(This) \subseteq P(This)
      BY <1>2, NeedsOfOne
    <3>3. \A j \in 1..((n + 1) - 1) : calls'[j].of \in P(This)
      <4> HIDE DEF P
      <4> QED
        BY <1>3, <1>5, <3>2
    <3> QED
      BY <2>1, <3>1, <3>3, <1>5
  <2>2. CASE i \in (n + 2)..(n + Len(calls))
    <3> DEFINE k == i - n
    <3>1. /\ k \in 2..Len(calls) /\ i = k + n /\ k \in 1..Len(calls)
          /\ Leaving(k) /\ calls'[i].of = calls[k].of
      BY <2>2, <1>2, <1>3, <1>5, <1>10
    <3> HIDE DEF k
    <3>2. /\ \A d \in Needs(calls[k].of) :
               d \in Visited \/ \E j \in 1..(k - 1) : calls[j].of = d
          /\ \A j \in 1..(k - 1) : calls[j].of \in P(calls[k].of)
      BY <1>2, <3>1 DEF Nested
    <3>3. This \in P(calls[k].of)
      BY <3>1, <3>2, <1>2
    <3>4. Needs(This) \subseteq P(calls[k].of)
      <4>1. calls[k].of \in Components
        BY <1>2, <3>1, OrderTypes
      <4> QED
        BY <4>1, <3>3, <1>2, NeedsOfOne
    <3> HIDE DEF P
    <3>5. ASSUME NEW d \in Needs(calls[k].of), d \notin Visited
          PROVE  \E j \in 1..(i - 1) : calls'[j].of = d
      <4>1. PICK j \in 1..(k - 1) : calls[j].of = d
        BY <3>2, <3>5
      <4>2. CASE j = 1
        <5>1. n + 1 \in 1..(i - 1) /\ calls'[n + 1].of = d
          BY <4>1, <4>2, <1>2, <1>3, <1>5, <3>1
        <5> QED
          BY <5>1
      <4>3. CASE j # 1
        <5>1. j \in 2..Len(calls) /\ j + n \in 1..(i - 1)
          BY <4>3, <1>2, <1>3, <3>1
        <5>2. calls'[j + n].of = calls[j].of
          <6>1. j + n \in (n + 2)..(n + Len(calls)) /\ (j + n) - n = j
            BY <5>1, <1>6
          <6> QED
            BY <6>1, <1>5
        <5> QED
          BY <4>1, <5>1, <5>2
      <4> QED
        BY <4>2, <4>3
    <3>6. ASSUME NEW j \in 1..(i - 1) PROVE calls'[j].of \in P(calls[k].of)
      <4>1. CASE j \in 1..n
        BY <4>1, <1>3, <1>5, <3>4
      <4>2. CASE j = n + 1
        BY <4>2, <1>5, <3>3
      <4>3. CASE j \in (n + 2)..(i - 1)
        <5>1. /\ j \in (n + 2)..(n + Len(calls)) /\ j - n \in 1..(k - 1)
          <6>1. /\ j >= n + 2 /\ j < k + n /\ k <= Len(calls)
                /\ j \in Int /\ k \in Int /\ n \in Nat /\ Len(calls) \in Nat
            BY <4>3, <1>2, <3>1
          <6> QED
            BY ONLY <6>1
        <5> QED
          BY <5>1, <1>5, <3>2
      <4>4. j \in 1..n \/ j = n + 1 \/ j \in (n + 2)..(i - 1)
        BY <3>1
      <4> QED
        BY <4>1, <4>2, <4>3, <4>4
    <3> QED
      BY <3>1, <3>5, <3>6
  <2>3. i \notin 1..n
    BY <1>5, <1>10
  <2> QED
    BY <2>1, <2>2, <2>3, <1>6
<1>11. Nested'
  <2>1. DepsOf(plan'.lists) = DepsOf(plan.lists)
    BY <1>1
  <2> QED
    BY <1>7, <1>10, <2>1 DEF Nested
<1>12. Promised'
  <2> SUFFICES ASSUME NEW r \in ToSet(plan.requested), r \notin Visited
               PROVE  \E i \in 1..Len(calls') : calls'[i].of = r
    BY <1>1, <1>7 DEF Promised
  <2>1. PICK i \in 1..Len(calls) : calls[i].of = r
    BY <1>2 DEF Promised
  <2>2. CASE i = 1
    BY <2>1, <2>2, <1>2, <1>5, <1>6
  <2>3. CASE i # 1
    <3>1. i \in 2..Len(calls)
      BY <2>3, <1>2
    <3>2. i + n \in 1..Len(calls') /\ calls'[i + n].of = calls[i].of
      <4>1. /\ i + n \in (n + 2)..(n + Len(calls)) /\ (i + n) - n = i
            /\ i + n \in 1..Len(calls')
        BY <3>1, <1>6
      <4> QED
        BY <4>1, <1>5
    <3> QED
      BY <2>1, <3>2
  <2> QED
    BY <2>2, <2>3
<1>13. \A i \in 1..Len(calls) :
         Leaving(i) => /\ i + n \in 1..Len(calls') /\ Leaving(i + n)'
                       /\ calls'[i + n].of = calls[i].of
  <2> SUFFICES ASSUME NEW i \in 1..Len(calls), Leaving(i)
               PROVE  /\ i + n \in 1..Len(calls') /\ Leaving(i + n)'
                      /\ calls'[i + n].of = calls[i].of
    OBVIOUS
  <2>1. i \in 2..Len(calls)
    BY <1>2 DEF Leaving
  <2>2. /\ i + n \in (n + 2)..(n + Len(calls)) /\ (i + n) - n = i
        /\ i + n \in 1..Len(calls')
    BY <2>1, <1>6
  <2> QED
    BY <2>2, <1>5
<1>14. \A i \in 1..Len(calls') :
         Leaving(i)' => \/ i = n + 1 /\ calls'[i].of = This
                        \/ /\ i - n \in 1..Len(calls) /\ Leaving(i - n)
                           /\ calls'[i].of = calls[i - n].of
  <2> SUFFICES ASSUME NEW i \in 1..Len(calls'), Leaving(i)', i # n + 1
               PROVE  /\ i - n \in 1..Len(calls) /\ Leaving(i - n)
                      /\ calls'[i].of = calls[i - n].of
    BY <1>5
  <2>1. i \in (n + 2)..(n + Len(calls))
    BY <1>5, <1>6
  <2>2. i - n \in 1..Len(calls)
    BY <2>1, <1>2, <1>3
  <2> QED
    BY <2>1, <2>2, <1>5
<1>15. visiting = {calls[i].of : i \in {k \in 1..Len(calls) : Leaving(k)}}
  BY <1>2 DEF Entered
<1>16. visiting' = {calls'[i].of : i \in {k \in 1..Len(calls') : Leaving(k)'}}
  <2>1. ASSUME NEW i \in 1..Len(calls'), Leaving(i)'
        PROVE  calls'[i].of \in visiting'
    BY <2>1, <1>1, <1>14, <1>15
  <2>2. ASSUME NEW c \in visiting'
        PROVE  \E k \in 1..Len(calls') : Leaving(k)' /\ calls'[k].of = c
    <3>1. CASE c = This
      BY <3>1, <1>5, <1>6
    <3>2. CASE c # This
      <4>1. PICK i \in 1..Len(calls) : Leaving(i) /\ calls[i].of = c
        BY <3>2, <2>2, <1>1, <1>15
      <4> QED
        BY <4>1, <1>13
    <3> QED
      BY <3>1, <3>2
  <2> QED
    BY <2>1, <2>2
<1>17. \A i, j \in 1..Len(calls') :
         Leaving(i)' /\ Leaving(j)' /\ calls'[i].of = calls'[j].of => i = j
  <2> SUFFICES ASSUME NEW i \in 1..Len(calls'), NEW j \in 1..Len(calls'),
                      Leaving(i)', Leaving(j)', calls'[i].of = calls'[j].of
               PROVE  i = j
    OBVIOUS
  <2>1. \A k \in 1..Len(calls) : Leaving(k) => calls[k].of # This
    BY <1>1, <1>15
  <2>2. i = n + 1 <=> j = n + 1
    <3>1. \A k \in 1..Len(calls') :
            Leaving(k)' /\ k # n + 1 => calls'[k].of # This
      <4> SUFFICES ASSUME NEW k \in 1..Len(calls'), Leaving(k)', k # n + 1
                   PROVE  calls'[k].of # This
        OBVIOUS
      <4>1. /\ k - n \in 1..Len(calls) /\ Leaving(k - n)
            /\ calls'[k].of = calls[k - n].of
        BY <1>14
      <4> QED
        BY <4>1, <2>1
    <3> QED
      BY <3>1, <1>5
  <2>3. CASE i # n + 1
    <3>1. /\ i - n \in 1..Len(calls) /\ Leaving(i - n)
          /\ j - n \in 1..Len(calls) /\ Leaving(j - n)
          /\ calls[i - n].of = calls[j - n].of
      BY <2>2, <2>3, <1>14
    <3>2. i - n = j - n
      BY <3>1, <1>2 DEF Entered
    <3> QED
      BY <3>2, <1>3, <1>4
  <2> QED
    BY <2>2, <2>3
<1>18. Entered'
  <2>1. /\ visiting' \cup Visited' \subseteq selected'
        /\ visiting' \cap Visited' = {}
        /\ Distinct(ordered.order)
        /\ DependenciesFirst(DepsOf(plan.lists), ordered.order)
        /\ UNCHANGED <<plan, ordered>>
    BY <1>1, <1>2, <1>7 DEF Entered
  <2> QED
    BY ONLY <2>1, <1>16, <1>17 DEF Entered
<1> QED
  BY <1>1, <1>2, <1>8, <1>9, <1>11, <1>12, <1>18 DEF OrderIInv

(* A component is appended to the result after all it depends on.          *)
LEMMA LeaveStep == ASSUME OrderIInv, Leave PROVE OrderIInv'
<1> DEFINE new == Append(ordered.order, This)
           len == Len(ordered.order)
<1>1. /\ Due("leave") /\ calls' = Tail(calls)
      /\ visiting' = visiting \ {This}
      /\ ordered' = [ordered EXCEPT !.order = new]
      /\ UNCHANGED <<plan, selected, todo>>
  BY DEF Leave
<1>2. /\ OrderTypeOK /\ Entered /\ Nested /\ ordered.error = "none"
      /\ ordered \in Ordered /\ todo = <<>>
      /\ calls[1].do = "leave" /\ This = calls[1].of /\ This \in Components
      /\ Len(calls) \in Nat \ {0} /\ 1 \in 1..Len(calls)
      /\ calls' \in Seq(Calls) /\ Len(calls') = Len(calls) - 1
      /\ \A i \in 1..Len(calls') : calls'[i] = calls[i + 1]
  BY <1>1, DueFacts DEF OrderTypeOK
<1>3. /\ ordered'.order = new /\ ordered'.error = "none" /\ ordered' \in Ordered
      /\ new \in Seq(Components) /\ Len(new) = len + 1 /\ len \in Nat
      /\ \A i \in 1..len : new[i] = ordered.order[i]
      /\ new[len + 1] = This
      /\ ToSet(new) = Visited \cup {This}
      /\ Visited = {ordered.order[i] : i \in 1..len}
  <2>1. ordered.order \in Seq(Components) /\ len \in Nat
        /\ Visited = {ordered.order[i] : i \in 1..len}
    BY <1>2, OrderTypes
  <2>2. /\ new \in Seq(Components) /\ Len(new) = len + 1
        /\ \A i \in 1..len : new[i] = ordered.order[i]
        /\ new[len + 1] = This
        /\ ToSet(new) = Visited \cup {This}
    BY <1>2, <2>1, AppendedSet DEF Visited
  <2> HIDE DEF new
  <2>3. ordered'.order = new /\ ordered'.error = "none" /\ ordered' \in Ordered
    BY <1>1, <1>2, <2>2 DEF Ordered
  <2> QED
    BY <2>1, <2>2, <2>3
<1> HIDE DEF new, len
<1>4. Visited' = Visited \cup {This}
  BY <1>3 DEF Visited
<1>5. Selecting' /\ Nested' /\ Promised'
  BY <1>1, <1>4, PopStep
<1>6. OrderTypeOK'
  BY <1>1, <1>2, <1>3 DEF OrderTypeOK
<1>7. /\ visiting = {calls[i].of : i \in {k \in 1..Len(calls) : Leaving(k)}}
      /\ \A i, j \in 1..Len(calls) :
           Leaving(i) /\ Leaving(j) /\ calls[i].of = calls[j].of => i = j
      /\ visiting \cup Visited \subseteq selected
      /\ visiting \cap Visited = {}
      /\ Distinct(ordered.order)
      /\ DependenciesFirst(DepsOf(plan.lists), ordered.order)
  BY <1>2 DEF Entered
<1>8. Leaving(1) /\ This \in visiting /\ This \notin Visited
  BY <1>2, <1>7 DEF Leaving
<1>9. /\ \A i \in 1..Len(calls') :
           /\ i + 1 \in 1..Len(calls) /\ i + 1 # 1
           /\ Leaving(i)' <=> Leaving(i + 1)
           /\ calls'[i].of = calls[i + 1].of
      /\ \A i \in 1..Len(calls) :
           i # 1 => i - 1 \in 1..Len(calls') /\ (i - 1) + 1 = i
  BY <1>2 DEF Leaving
<1>10. visiting' = {calls'[i].of : i \in {k \in 1..Len(calls') : Leaving(k)'}}
  <2>1. ASSUME NEW i \in 1..Len(calls'), Leaving(i)'
        PROVE  calls'[i].of \in visiting'
    <3>1. calls[i + 1].of \in visiting
      BY <2>1, <1>7, <1>9
    <3>2. calls[i + 1].of # This
      BY <2>1, <1>2, <1>7, <1>8, <1>9
    <3> QED
      BY <3>1, <3>2, <1>1, <1>9
  <2>2. ASSUME NEW c \in visiting'
        PROVE  \E k \in 1..Len(calls') : Leaving(k)' /\ calls'[k].of = c
    <3>1. PICK i \in 1..Len(calls) : Leaving(i) /\ calls[i].of = c
      BY <2>2, <1>1, <1>7
    <3>2. i # 1
      BY <2>2, <3>1, <1>1, <1>2
    <3>3. i - 1 \in 1..Len(calls') /\ (i - 1) + 1 = i
      BY <3>2, <1>9
    <3> QED
      BY <3>1, <3>3, <1>9
  <2> QED
    BY <2>1, <2>2
<1>11. \A i, j \in 1..Len(calls') :
         Leaving(i)' /\ Leaving(j)' /\ calls'[i].of = calls'[j].of => i = j
  <2> SUFFICES ASSUME NEW i \in 1..Len(calls'), NEW j \in 1..Len(calls'),
                      Leaving(i)', Leaving(j)', calls'[i].of = calls'[j].of
               PROVE  i = j
    OBVIOUS
  <2>1. i + 1 = j + 1
    BY <1>7, <1>9
  <2> QED
    BY <2>1
<1>12. /\ visiting' \cup Visited' \subseteq selected'
       /\ visiting' \cap Visited' = {}
  BY <1>1, <1>4, <1>7, <1>8
<1>13. \A i \in 1..(len + 1) : i \in 1..len \/ i = len + 1
  BY <1>3
<1>14. Distinct(new)
  <2> SUFFICES ASSUME NEW i \in 1..(len + 1), NEW j \in 1..(len + 1),
                      new[i] = new[j]
               PROVE  i = j
    BY <1>3 DEF Distinct
  <2>1. \A k \in 1..len : new[k] \in Visited /\ new[k] # This
    BY <1>3, <1>8
  <2>2. CASE i \in 1..len /\ j \in 1..len
    <3>1. ordered.order[i] = ordered.order[j]
      BY <2>2, <1>3
    <3> QED
      BY <2>2, <3>1, <1>7 DEF Distinct, len
  <2>3. i = len + 1 <=> j = len + 1
    BY <2>1, <1>3, <1>13
  <2> QED
    BY <2>2, <2>3, <1>13
<1>15. DependenciesFirst(DepsOf(plan.lists), new)
  <2> SUFFICES ASSUME NEW i \in 1..(len + 1),
                      NEW d \in DepsOf(plan.lists)[new[i]]
               PROVE  \E j \in 1..(i - 1) : d = new[j]
    BY <1>3 DEF DependenciesFirst
  <2>1. CASE i \in 1..len
    <3>1. d \in DepsOf(plan.lists)[ordered.order[i]]
      BY <2>1, <1>3
    <3>2. PICK j \in 1..(i - 1) : d = ordered.order[j]
      BY <2>1, <3>1, <1>7 DEF DependenciesFirst, len
    <3>3. j \in 1..len
      BY <2>1, <1>3
    <3> QED
      BY <3>2, <3>3, <1>3
  <2>2. CASE i = len + 1
    <3>1. d \in Needs(calls[1].of)
      BY <2>2, <1>2, <1>3, OrderTypes
    <3>2. d \in Visited \/ \E j \in 1..(1 - 1) : calls[j].of = d
      BY <3>1, <1>2, <1>8 DEF Nested
    <3>3. d \in Visited
      BY <3>2
    <3>4. PICK j \in 1..len : d = ordered.order[j]
      BY <3>3, <1>3
    <3>5. j \in 1..(i - 1) /\ d = new[j]
      BY <3>4, <2>2, <1>3
    <3> QED
      BY <3>5
  <2> QED
    BY <2>1, <2>2, <1>13
<1>16. Entered'
  <2>1. DepsOf(plan'.lists) = DepsOf(plan.lists)
    BY <1>1
  <2> QED
    BY <1>3, <1>10, <1>11, <1>12, <1>14, <1>15, <2>1 DEF Entered
<1> QED
  BY <1>3, <1>5, <1>6, <1>16 DEF OrderIInv

LEMMA OrderNextInvariant == OrderIInv /\ [OrderNext]_orderVars => OrderIInv'
<1>1. ASSUME OrderIInv, UNCHANGED orderVars PROVE OrderIInv'
  BY <1>1 DEF OrderIInv, OrderTypeOK, Selecting, Nested, Entered, Promised,
              Leaving, Needs, Visited, Finished
<1> QED
  BY <1>1, IncludeStep, PassStep, RaiseStep, EnterStep, LeaveStep DEF OrderNext

(* When the calls are over, the order is all that is needed, and so there  *)
(* is no cycle: what comes before a component is closed.                   *)
LEMMA OrderIsRight == OrderIInv => OrderIsComplete
<1> SUFFICES ASSUME OrderIInv, Finished, ordered.error = "none"
             PROVE  /\ ~Cyclic(DepsOf(plan.lists), ToSet(plan.requested))
                    /\ ToSet(ordered.order)
                         = Needed(DepsOf(plan.lists), ToSet(plan.requested))
                    /\ Distinct(ordered.order)
                    /\ DependenciesFirst(DepsOf(plan.lists), ordered.order)
  BY DEF OrderIsComplete, OrderIInv, OrderTypeOK, Ordered
<1> DEFINE N == Needed(DepsOf(plan.lists), ToSet(plan.requested))
           len == Len(ordered.order)
<1>1. /\ OrderTypeOK /\ Entered /\ Promised
      /\ todo = <<>> /\ calls = <<>>
  BY DEF OrderIInv, Finished
<1>2. /\ Distinct(ordered.order) /\ Visited \subseteq selected
      /\ DependenciesFirst(DepsOf(plan.lists), ordered.order)
  BY <1>1 DEF Entered
<1>3. /\ selected = N /\ ToSet(plan.requested) \subseteq Visited
  <2>1. Len(calls) = 0
    BY <1>1
  <2> QED
    BY <1>1, <2>1, SelectedFacts DEF Promised
<1>4. /\ Visited = {ordered.order[i] : i \in 1..len} /\ len \in Nat
      /\ Visited \subseteq Components
      /\ \A c \in Components : DepsOf(plan.lists)[c] = Needs(c)
  BY <1>1, OrderTypes
<1>5. ASSUME NEW i \in 1..len, NEW d \in Needs(ordered.order[i])
      PROVE  \E j \in 1..(i - 1) : d = ordered.order[j]
  <2>1. d \in DepsOf(plan.lists)[ordered.order[i]]
    BY <1>4
  <2> QED
    BY <1>2, <2>1 DEF DependenciesFirst
<1>6. N \subseteq Visited
  <2>1. ASSUME NEW c \in Visited, NEW d \in Needs(c) PROVE d \in Visited
    <3>1. PICK i \in 1..len : c = ordered.order[i]
      BY <1>4
    <3>2. PICK j \in 1..(i - 1) : d = ordered.order[j]
      BY <3>1, <2>1, <1>5
    <3>3. j \in 1..len
      BY <1>4
    <3> QED
      BY <3>2, <3>3, <1>4
  <2> HIDE DEF N
  <2>2. \A T \in SUBSET Components :
          /\ ToSet(plan.requested) \subseteq T
          /\ \A c \in T : Needs(c) \subseteq T
          => N \subseteq T
    BY <1>1, NeedsOfRequest DEF N
  <2>3. Visited \in SUBSET Components /\ ToSet(plan.requested) \subseteq Visited
    BY <1>3, <1>4
  <2>4. \A c \in Visited : Needs(c) \subseteq Visited
    BY <2>1
  <2> QED
    BY ONLY <2>2, <2>3, <2>4
<1>7. ToSet(ordered.order) = N
  BY <1>2, <1>3, <1>6 DEF Visited
<1>8. ASSUME NEW c \in N PROVE c \notin Prerequisites(DepsOf(plan.lists), c)
  <2>1. PICK i \in 1..len : c = ordered.order[i]
    BY <1>4, <1>6, <1>8
  <2> DEFINE T == {ordered.order[j] : j \in 1..(i - 1)}
  <2>2. T \subseteq Components /\ c \in Components
    <3>1. \A j \in 1..(i - 1) : j \in 1..len
      BY <1>4
    <3> QED
      BY <3>1, <2>1, <1>4
  <2>3. Needs(c) \subseteq T
    BY <2>1, <1>5
  <2>4. ASSUME NEW d \in T, NEW e \in Needs(d) PROVE e \in T
    <3>1. PICK j \in 1..(i - 1) : d = ordered.order[j]
      OBVIOUS
    <3>2. j \in 1..len
      BY <1>4
    <3>3. PICK k \in 1..(j - 1) : e = ordered.order[k]
      BY <3>1, <3>2, <2>4, <1>5
    <3>4. k \in 1..(i - 1)
      BY <1>4
    <3> QED
      BY <3>3, <3>4
  <2>5. c \notin T
    <3> SUFFICES ASSUME NEW j \in 1..(i - 1), c = ordered.order[j] PROVE FALSE
      OBVIOUS
    <3>1. j \in 1..len /\ j # i
      BY <1>4
    <3> QED
      BY <2>1, <3>1, <1>2 DEF Distinct
  <2> HIDE DEF T
  <2>6. Prerequisites(DepsOf(plan.lists), c) \subseteq T
    BY <2>2, <2>3, <2>4, <1>1, NeedsOfOne
  <2> QED
    BY <2>5, <2>6
<1> QED
  BY <1>2, <1>7, <1>8 DEF Cyclic

(***************************************************************************)
(* The loop.                                                               *)
(***************************************************************************)
LEMMA TypeFacts ==
  ASSUME TypeOK
  PROVE  /\ plan \in Plan /\ ordered \in Ordered
         /\ ordered.order \in Seq(Components)
         /\ Len(ordered.order) \in Nat /\ position \in Nat
         /\ position \in 1..(Len(ordered.order) + 1)
         /\ results \in [Components -> ResultKinds]
         /\ failed \subseteq Components
         /\ ran \in [Components -> 0..2]
         /\ \A i \in 1..Len(ordered.order) : ordered.order[i] \in Components
         /\ \A c \in Components : plan.lists[c] \in Seq(Components)
BY DEF TypeOK, OrderTypeOK, Ordered, Plan

(* Nothing comes twice in an order, and dependencies come first.           *)
LEMMA OrderFacts ==
  ASSUME OrderIInv
  PROVE  /\ \A i, j \in 1..Len(ordered.order) :
              ordered.order[i] = ordered.order[j] => i = j
         /\ \A i \in 1..Len(ordered.order) :
              \A d \in ToSet(plan.lists[ordered.order[i]]) :
                \E j \in 1..(i - 1) : d = ordered.order[j]
<1>1. OrderTypeOK /\ ordered.error \in {"none", "cycle"}
  BY DEF OrderIInv, OrderTypeOK, Ordered
<1>2. CASE ordered.error = "cycle"
  <2>1. Len(ordered.order) = 0
    BY <1>2 DEF OrderIInv
  <2> QED
    BY <2>1
<1>3. CASE ordered.error = "none"
  <2>1. Distinct(ordered.order)
        /\ DependenciesFirst(DepsOf(plan.lists), ordered.order)
    BY <1>3 DEF OrderIInv, Entered
  <2>2. ASSUME NEW i \in 1..Len(ordered.order),
               NEW d \in ToSet(plan.lists[ordered.order[i]])
        PROVE  \E j \in 1..(i - 1) : d = ordered.order[j]
    <3>1. ordered.order[i] \in Components
      BY <1>1, OrderTypes
    <3>2. d \in DepsOf(plan.lists)[ordered.order[i]]
      BY <2>2, <3>1 DEF DepsOf
    <3> QED
      BY <2>1, <3>2 DEF DependenciesFirst
  <2>3. \A i, j \in 1..Len(ordered.order) :
          ordered.order[i] = ordered.order[j] => i = j
    BY <2>1 DEF Distinct
  <2> QED
    BY <2>2, <2>3
<1> QED
  BY <1>1, <1>2, <1>3

LEMMA KeepOrder == ASSUME OrderIInv, UNCHANGED orderVars PROVE OrderIInv'
BY OrderNextInvariant

(* Before its first turn the loop has done nothing.                        *)
LEMMA Resting == OrderTypeOK /\ AtRest /\ step = "ordering" => LoopIInv
<1> SUFFICES ASSUME OrderTypeOK, AtRest, step = "ordering" PROVE LoopIInv
  OBVIOUS
<1>1. Len(ordered.order) \in Nat /\ ordered.order \in Seq(Components)
  BY OrderTypes
<1>2. TypeOK
  BY <1>1 DEF AtRest, TypeOK, ResultKinds
<1>3. \A i \in 1..Len(ordered.order) : ordered.order[i] \in Components
  BY <1>1
<1>4. Walked
  BY <1>1, <1>3 DEF Walked, AtRest
<1>5. AtTurn
  BY DEF AtTurn, More
<1>6. FailedCounts /\ Based
  BY DEF FailedCounts, Based, AtRest
<1>7. RollbackOnlyAfterFailedUpdate
  <2>1. \A c \in Components : ran[c] = 0 /\ ran[c] \in 0..2
    BY <1>2 DEF AtRest, TypeOK
  <2>2. \A c \in Components : ran[c] # 2 /\ ~(ran[c] > 0)
    <3> TAKE c \in Components
    <3> QED
      BY <2>1
  <2> QED
    BY <2>2 DEF RollbackOnlyAfterFailedUpdate
<1>8. VerdictIsTrue
  BY DEF VerdictIsTrue
<1> QED
  BY <1>2, <1>4, <1>5, <1>6, <1>7, <1>8 DEF LoopIInv

LEMMA InitInvariant == Init => IInv
<1> SUFFICES ASSUME Init PROVE IInv
  OBVIOUS
<1>1. OrderIInv
  BY OrderInitInvariant DEF Init
<1>2. AtRest /\ step = "ordering"
  BY DEF Init, LoopInit
<1> QED
  BY <1>1, <1>2, Resting DEF IInv, OrderIInv, Waiting

LEMMA OrderStep == ASSUME IInv, Order PROVE IInv'
<1>1. /\ step = "ordering" /\ OrderNext
      /\ UNCHANGED <<position, step, results, failed, ran, verdict>>
      /\ AtRest /\ OrderIInv
  BY DEF Order, IInv, Waiting
<1>2. OrderIInv'
  BY <1>1, OrderNextInvariant
<1>3. AtRest' /\ step' = "ordering"
  BY <1>1 DEF AtRest
<1>4. LoopIInv'
  <2>1. (OrderTypeOK /\ AtRest /\ step = "ordering")' => LoopIInv'
    BY Resting, PTL
  <2> QED
    BY <1>2, <1>3, <2>1 DEF OrderIInv
<1> QED
  BY <1>2, <1>3, <1>4 DEF IInv, Waiting

LEMMA BeginStep == ASSUME IInv, Begin PROVE IInv'
<1>1. /\ step = "ordering" /\ Finished
      /\ step' = IF ordered.error = "cycle" THEN "aborted" ELSE "next"
      /\ UNCHANGED <<orderVars, position, results, failed, ran, verdict>>
      /\ AtRest /\ OrderIInv /\ TypeOK /\ LoopIInv
  BY DEF Begin, IInv, Waiting, LoopIInv
<1>2. OrderIInv' /\ Finished'
  BY <1>1, KeepOrder DEF Finished
<1>3. Waiting'
  BY <1>1, <1>2 DEF Waiting
<1>4. TypeOK'
  BY <1>1 DEF TypeOK, OrderTypeOK
<1>5. Walked' /\ FailedCounts' /\ Based' /\ RollbackOnlyAfterFailedUpdate'
  BY <1>1 DEF LoopIInv, Walked, FailedCounts, Based,
              RollbackOnlyAfterFailedUpdate
<1>6. AtTurn'
  <2>1. ordered.error \in {"none", "cycle"}
    BY <1>1, TypeFacts DEF Ordered
  <2>2. More' => ran'[Current'] = 0
    <3> SUFFICES ASSUME More' PROVE ran[ordered.order[position]] = 0
      BY <1>1 DEF Current
    <3>1. position = 1 /\ 1 \in 1..Len(ordered.order)
      BY <1>1, TypeFacts DEF More, AtRest
    <3>2. ordered.order[1] \in Components
      BY <1>1, <3>1, TypeFacts
    <3> QED
      BY <1>1, <3>1, <3>2 DEF AtRest
  <2> QED
    BY <1>1, <2>1, <2>2 DEF AtTurn
<1>7. VerdictIsTrue'
  BY <1>1 DEF VerdictIsTrue
<1> QED
  BY <1>2, <1>3, <1>4, <1>5, <1>6, <1>7 DEF IInv, LoopIInv

(* The component at the position has no result yet; unless one of its      *)
(* direct dependencies failed, all of them succeeded.                      *)
LEMMA CurrentFacts ==
  ASSUME IInv, position <= Len(ordered.order)
  PROVE  /\ Current \in Components /\ results[Current] = "none"
         /\ Current \notin failed
         /\ ~DependencyFailed =>
              \A d \in ToSet(plan.lists[Current]) :
                results[d] \in {"completed", "skipped"}
<1> USE DEF IInv, LoopIInv
<1>1. position \in 1..Len(ordered.order)
  BY TypeFacts
<1>2. Current \in Components
  BY <1>1, TypeFacts DEF Current
<1>3. results[Current] = "none"
  BY <1>1 DEF Walked, Current
<1>4. Current \notin failed
  BY <1>3 DEF FailedCounts
<1>5. ASSUME ~DependencyFailed, NEW d \in ToSet(plan.lists[Current])
      PROVE  results[d] \in {"completed", "skipped"}
  <2>1. PICK j \in 1..(position - 1) : d = ordered.order[j]
    BY <1>1, <1>5, OrderFacts DEF Current
  <2>2. j \in 1..Len(ordered.order) /\ j < position
    BY <1>1, TypeFacts
  <2>3. results[d] # "none" /\ d \in Components
    BY <2>1, <2>2, TypeFacts DEF Walked
  <2>4. d \notin failed
    BY <1>5 DEF DependencyFailed
  <2> QED
    BY <2>3, <2>4, TypeFacts DEF FailedCounts, ResultKinds
<1> QED
  BY <1>2, <1>3, <1>4, <1>5

(* A turn that ends with a result.                                         *)
LEMMA SettleStep ==
  ASSUME IInv, position <= Len(ordered.order), step \in {"next", "rollback"},
         NEW result \in {"completed", "failed", "blocked", "skipped"},
         Settle(result), UNCHANGED <<orderVars, verdict>>,
         ran' \in [Components -> 0..2],
         \A c \in Components \ {Current} : ran'[c] = ran[c],
         ran'[Current] > 0 \/ result \in {"completed", "skipped"} =>
           ~DependencyFailed,
         ran'[Current] = 2 => plan.action = "update" /\ result = "failed",
         result = "failed" /\ ran'[Current] > 0 /\ plan.action = "update"
           /\ Current \in HasRollback => ran'[Current] = 2
  PROVE  IInv'
<1> USE DEF IInv, LoopIInv
<1>1. /\ position \in 1..Len(ordered.order) /\ position' = position + 1
      /\ step' = "next" /\ UNCHANGED <<orderVars, verdict>>
  BY TypeFacts DEF Settle
<1>2. /\ Current \in Components /\ results[Current] = "none"
      /\ Current \notin failed
  BY CurrentFacts
<1>3. /\ results' \in [Components -> ResultKinds]
      /\ results'[Current] = result
      /\ \A c \in Components \ {Current} : results'[c] = results[c]
  BY <1>2, TypeFacts DEF Settle, ResultKinds
<1>4. \A i \in 1..Len(ordered.order) :
        /\ ordered.order[i] \in Components
        /\ ordered.order[i] = Current <=> i = position
  BY <1>1, OrderFacts, TypeFacts DEF Current
<1>5. TypeOK'
  <2>1. failed' \subseteq Components
    BY <1>2, TypeFacts DEF Settle
  <2>2. position' \in 1..(Len(ordered'.order) + 1)
    BY <1>1, TypeFacts
  <2> QED
    BY <1>1, <1>3, <2>1, <2>2, TypeFacts DEF TypeOK, OrderTypeOK
<1>6. OrderIInv' /\ Waiting'
  BY <1>1, KeepOrder DEF Waiting, Finished
<1>7. Walked'
  <2>1. ASSUME NEW i \in 1..Len(ordered.order)
        PROVE  /\ results'[ordered.order[i]] # "none" <=> i < position'
               /\ i > position' => ran'[ordered.order[i]] = 0
    <3>1. CASE i = position
      <4>1. results'[ordered.order[i]] = result /\ i < position'
        BY <1>1, <1>3, <1>4, <3>1, TypeFacts
      <4> QED
        BY <4>1, <1>1, <3>1, TypeFacts
    <3>2. CASE i # position
      <4>1. ordered.order[i] \in Components \ {Current}
        BY <1>4, <3>2
      <4>2. /\ results'[ordered.order[i]] = results[ordered.order[i]]
            /\ ran'[ordered.order[i]] = ran[ordered.order[i]]
        BY <1>3, <4>1
      <4>3. i < position' <=> i < position
        BY <1>1, <3>2, TypeFacts
      <4>4. i > position' => i > position
        BY <1>1, TypeFacts
      <4> QED
        BY <4>2, <4>3, <4>4 DEF Walked
    <3> QED
      BY <3>1, <3>2
  <2>2. ASSUME NEW c \in Components \ ToSet(ordered.order)
        PROVE  results'[c] = "none" /\ ran'[c] = 0
    <3>1. c # Current
      BY <1>1, ListType, TypeFacts DEF Current
    <3> QED
      BY <1>3, <3>1 DEF Walked
  <2> QED
    BY <1>1, <2>1, <2>2 DEF Walked
<1>8. AtTurn'
  <2>1. (More => ran[Current] = 0)'
    <3> SUFFICES ASSUME More' PROVE ran'[ordered.order[position']] = 0
      BY <1>1 DEF Current
    <3>1. position' \in 1..Len(ordered.order) /\ position' > position
      BY <1>1, TypeFacts DEF More
    <3>2. ordered.order[position'] \in Components \ {Current}
      BY <1>4, <3>1, TypeFacts
    <3> QED
      BY <3>1, <3>2 DEF Walked
  <2>2. ordered.error = "none"
    BY DEF AtTurn
  <2> QED
    BY <1>1, <2>1, <2>2 DEF AtTurn
<1>9. FailedCounts'
  BY <1>2, <1>3 DEF FailedCounts, Settle
<1>10. Based'
  <2> SUFFICES ASSUME NEW c \in Components,
                      ran'[c] > 0 \/ results'[c] \in {"completed", "skipped"},
                      NEW d \in ToSet(plan.lists[c])
               PROVE  results'[d] \in {"completed", "skipped"}
    BY <1>1 DEF Based
  <2>1. results[d] \in {"completed", "skipped"}
    <3>1. CASE c = Current
      BY <3>1, <1>3, CurrentFacts
    <3>2. CASE c # Current
      BY <3>2, <1>3 DEF Based
    <3> QED
      BY <3>1, <3>2
  <2>2. d \in Components
    BY ListType, TypeFacts
  <2>3. d # Current
    BY <2>1, <1>2
  <2> QED
    BY <1>3, <2>1, <2>2, <2>3
<1>11. RollbackOnlyAfterFailedUpdate'
  <2> SUFFICES ASSUME NEW c \in Components
               PROVE  /\ ran'[c] = 2 =>
                           /\ plan.action = "update"
                           /\ results'[c] \in {"failed", "none"}
                      /\ /\ results'[c] = "failed" /\ ran'[c] > 0
                         /\ plan.action = "update" /\ c \in HasRollback
                         => ran'[c] = 2
    BY <1>1 DEF RollbackOnlyAfterFailedUpdate
  <2>1. CASE c = Current
    <3>1. ran'[Current] \in 0..2
      BY <1>2
    <3> QED
      BY <2>1, <3>1, <1>3
  <2>2. CASE c # Current
    BY <2>2, <1>3 DEF RollbackOnlyAfterFailedUpdate
  <2> QED
    BY <2>1, <2>2
<1>12. VerdictIsTrue'
  BY <1>1 DEF VerdictIsTrue
<1> QED
  BY <1>5, <1>6, <1>7, <1>8, <1>9, <1>10, <1>11, <1>12

LEMMA BlockStep == ASSUME IInv, Block PROVE IInv'
<1>1. /\ position <= Len(ordered.order) /\ step = "next"
      /\ ran[Current] = 0 /\ Settle("blocked")
      /\ UNCHANGED <<orderVars, ran, verdict>> /\ TypeOK
  BY DEF IInv, LoopIInv, AtTurn, Block, More
<1> QED
  BY <1>1, SettleStep, TypeFacts

LEMMA SkipStep == ASSUME IInv, Skip PROVE IInv'
<1>1. /\ position <= Len(ordered.order) /\ step = "next"
      /\ ran[Current] = 0 /\ Settle("skipped") /\ ~DependencyFailed
      /\ UNCHANGED <<orderVars, ran, verdict>> /\ TypeOK
  BY DEF IInv, LoopIInv, AtTurn, Skip, More
<1> QED
  BY <1>1, SettleStep, TypeFacts

LEMMA RejectTargetStep == ASSUME IInv, RejectTarget PROVE IInv'
<1>1. /\ position <= Len(ordered.order) /\ step = "next"
      /\ ran[Current] = 0 /\ Settle("failed")
      /\ UNCHANGED <<orderVars, ran, verdict>> /\ TypeOK
  BY DEF IInv, LoopIInv, AtTurn, RejectTarget, More
<1> QED
  BY <1>1, SettleStep, TypeFacts

(* A step that runs something for the component at the position, whose     *)
(* dependencies have not failed, and leaves it without a result.           *)
LEMMA UnsettledStep ==
  ASSUME IInv, position <= Len(ordered.order), step \in {"next", "rollback"},
         UNCHANGED <<orderVars, position, results, failed, verdict>>,
         ~DependencyFailed,
         ran' \in [Components -> 0..2],
         \A c \in Components \ {Current} : ran'[c] = ran[c],
         ran'[Current] = 2 => plan.action = "update",
         \/ step' = "aborted"
         \/ /\ step' = "rollback" /\ ran'[Current] = 1
            /\ plan.action = "update" /\ Current \in HasRollback
  PROVE  IInv'
<1> USE DEF IInv, LoopIInv
<1>1. position \in 1..Len(ordered.order)
  BY TypeFacts
<1>2. Current \in Components /\ results[Current] = "none"
  BY CurrentFacts
<1>3. TypeOK'
  BY TypeFacts DEF TypeOK, OrderTypeOK
<1>4. OrderIInv' /\ Waiting' /\ FailedCounts'
  BY KeepOrder DEF Waiting, Finished, FailedCounts
<1>5. Walked'
  <2>1. ASSUME NEW i \in 1..Len(ordered.order), i > position
        PROVE  ran'[ordered.order[i]] = 0
    <3>1. i # position
      BY <2>1, TypeFacts
    <3>2. ordered.order[i] \in Components \ {Current}
      BY <3>1, <1>1, OrderFacts, TypeFacts DEF Current
    <3> QED
      BY <2>1, <3>2 DEF Walked
  <2>2. Current \in ToSet(ordered.order)
    BY <1>1, ListType, TypeFacts DEF Current
  <2>3. \A c \in Components \ ToSet(ordered.order) : ran'[c] = 0
    BY <2>2 DEF Walked
  <2> QED
    BY <2>1, <2>3 DEF Walked
<1>6. AtTurn'
  <2>1. Current' = Current /\ ~More'
    BY DEF Current, More
  <2>2. ordered.error = "none"
    BY DEF AtTurn
  <2> QED
    BY <2>1, <2>2 DEF AtTurn
<1>7. Based'
  <2> SUFFICES ASSUME NEW c \in Components,
                      ran'[c] > 0 \/ results[c] \in {"completed", "skipped"},
                      NEW d \in ToSet(plan.lists[c])
               PROVE  results[d] \in {"completed", "skipped"}
    BY DEF Based
  <2>1. CASE c = Current
    BY <2>1, CurrentFacts
  <2>2. CASE c # Current
    BY <2>2 DEF Based
  <2> QED
    BY <2>1, <2>2
<1>8. RollbackOnlyAfterFailedUpdate'
  <2> SUFFICES ASSUME NEW c \in Components
               PROVE  /\ ran'[c] = 2 =>
                           /\ plan.action = "update"
                           /\ results[c] \in {"failed", "none"}
                      /\ /\ results[c] = "failed" /\ ran'[c] > 0
                         /\ plan.action = "update" /\ c \in HasRollback
                         => ran'[c] = 2
    BY DEF RollbackOnlyAfterFailedUpdate
  <2>1. CASE c = Current
    <3>1. ran'[Current] \in 0..2
      BY <1>2
    <3> QED
      BY <2>1, <3>1, <1>2
  <2>2. CASE c # Current
    BY <2>2 DEF RollbackOnlyAfterFailedUpdate
  <2> QED
    BY <2>1, <2>2
<1>9. VerdictIsTrue'
  BY DEF VerdictIsTrue
<1> QED
  BY <1>3, <1>4, <1>5, <1>6, <1>7, <1>8, <1>9

LEMMA RunCommandStep ==
  ASSUME IInv, NEW good \in BOOLEAN, RunCommand(good) PROVE IInv'
<1>1. /\ position <= Len(ordered.order) /\ step = "next"
      /\ ran[Current] = 0 /\ ~DependencyFailed /\ Ran
      /\ UNCHANGED <<orderVars, verdict>> /\ TypeOK
  BY DEF IInv, LoopIInv, AtTurn, RunCommand, Commanded, More
<1>2. /\ ran' \in [Components -> 0..2]
      /\ \A c \in Components \ {Current} : ran'[c] = ran[c]
      /\ ran'[Current] = 1
  BY <1>1, CurrentFacts, TypeFacts DEF Ran
<1>3. CASE ~good /\ plan.action = "update" /\ Current \in HasRollback
  <2>1. step' = "rollback" /\ UNCHANGED <<results, failed, position>>
    BY <1>3 DEF RunCommand
  <2> QED
    BY <1>1, <1>2, <1>3, <2>1, UnsettledStep
<1>4. CASE ~(~good /\ plan.action = "update" /\ Current \in HasRollback)
  <2> DEFINE result == IF good THEN "completed" ELSE "failed"
  <2>1. Settle(result)
    BY <1>4 DEF RunCommand
  <2>2. /\ result \in {"completed", "failed", "blocked", "skipped"}
        /\ result = "failed" => ~good
    OBVIOUS
  <2> HIDE DEF result
  <2> QED
    BY <1>1, <1>2, <1>4, <2>1, <2>2, SettleStep
<1> QED
  BY <1>3, <1>4

(* What a rollback starts from.                                            *)
LEMMA RollbackFacts ==
  ASSUME IInv, step = "rollback"
  PROVE  /\ position <= Len(ordered.order) /\ ran[Current] = 1
         /\ plan.action = "update" /\ ~DependencyFailed
<1>1. /\ position <= Len(ordered.order) /\ ran[Current] = 1
      /\ plan.action = "update"
  BY DEF IInv, LoopIInv, AtTurn
<1>2. \A d \in ToSet(plan.lists[Current]) :
        results[d] \in {"completed", "skipped"}
  BY <1>1, CurrentFacts DEF IInv, LoopIInv, Based
<1> QED
  BY <1>1, <1>2 DEF IInv, LoopIInv, FailedCounts, DependencyFailed

LEMMA RolledBack ==
  ASSUME IInv, step = "rollback", Ran
  PROVE  /\ ran' \in [Components -> 0..2]
         /\ \A c \in Components \ {Current} : ran'[c] = ran[c]
         /\ ran'[Current] = 2
BY RollbackFacts, CurrentFacts, TypeFacts DEF IInv, LoopIInv, Ran

LEMMA RollbackStep == ASSUME IInv, Rollback PROVE IInv'
<1>1. /\ step = "rollback" /\ Ran /\ Settle("failed")
      /\ UNCHANGED <<orderVars, verdict>>
  BY DEF Rollback
<1> QED
  BY <1>1, RollbackFacts, RolledBack, SettleStep

LEMMA AbortStep == ASSUME IInv, Abort PROVE IInv'
<1>1. /\ step' = "aborted" /\ TypeOK
      /\ UNCHANGED <<orderVars, position, results, failed, verdict>>
  BY DEF Abort, IInv, LoopIInv
<1>2. CASE Commanded /\ (Ran \/ UNCHANGED ran)
  <2>1. /\ position <= Len(ordered.order) /\ step = "next"
        /\ ran[Current] = 0 /\ ~DependencyFailed
    BY <1>2 DEF IInv, LoopIInv, AtTurn, Commanded, More
  <2>2. /\ ran' \in [Components -> 0..2]
        /\ \A c \in Components \ {Current} : ran'[c] = ran[c]
        /\ ran'[Current] # 2
    BY <1>1, <1>2, <2>1, CurrentFacts, TypeFacts DEF Ran
  <2> QED
    BY <1>1, <2>1, <2>2, UnsettledStep
<1>3. CASE step = "rollback" /\ (Ran \/ UNCHANGED ran)
  <2>1. /\ ran' \in [Components -> 0..2]
        /\ \A c \in Components \ {Current} : ran'[c] = ran[c]
    BY <1>1, <1>3, RolledBack, TypeFacts
  <2> QED
    BY <1>1, <1>3, <2>1, RollbackFacts, UnsettledStep
<1> QED
  BY <1>2, <1>3 DEF Abort

(* The verdict is written once the loop was left, at its end or early.     *)
LEMMA RecordStep == ASSUME IInv, Record PROVE IInv'
<1> USE DEF IInv, LoopIInv
<1>1. /\ step' = "recorded" /\ verdict' = Verdict
      /\ UNCHANGED <<orderVars, position, results, failed, ran>>
      /\ step = "aborted" \/ (step = "next" /\ position > Len(ordered.order))
  BY DEF Record
<1>2. TypeOK'
  BY <1>1 DEF TypeOK, OrderTypeOK, Verdict
<1>3. /\ OrderIInv' /\ Waiting'
      /\ Walked' /\ FailedCounts' /\ Based'
  BY <1>1, KeepOrder DEF Waiting, Finished, Walked, FailedCounts, Based
<1>4. AtTurn'
  BY <1>1 DEF AtTurn, More
<1>5. RollbackOnlyAfterFailedUpdate'
  BY <1>1 DEF RollbackOnlyAfterFailedUpdate
<1> DEFINE Mine == ToSet(ordered.order)
           Good == {c \in Mine : results[c] \in {"completed", "skipped"}}
           Done == {c \in Mine : results[c] = "completed"}
           Whole == ordered.error = "none" /\ Good = Mine
<1>6. /\ Mine \subseteq Components
      /\ Mine = {ordered.order[i] : i \in 1..Len(ordered.order)}
  BY ListType, TypeFacts
<1>7. Done = {} <=> ~\E c \in Components : results[c] = "completed"
  BY <1>6 DEF Walked
<1>8. Whole <=> failed = {} /\ step # "aborted"
  <2>1. CASE step = "aborted"
    <3>1. ASSUME ordered.error = "none" PROVE Good # Mine
      <4>1. position \in 1..Len(ordered.order)
        BY <2>1, <3>1, TypeFacts DEF AtTurn
      <4>2. ordered.order[position] \in Mine
        BY <4>1, <1>6
      <4>3. results[ordered.order[position]] = "none"
        BY <4>1, TypeFacts DEF Walked
      <4> QED
        BY <4>2, <4>3
    <3> QED
      BY <2>1, <3>1
  <2>2. CASE step = "next" /\ position > Len(ordered.order)
    <3>1. ordered.error = "none"
      BY <2>2 DEF AtTurn
    <3>2. \A c \in Mine : results[c] # "none" /\ c \in Components
      <4>1. \A i \in 1..Len(ordered.order) : i < position
        BY <2>2, TypeFacts
      <4>2. \A i \in 1..Len(ordered.order) : results[ordered.order[i]] # "none"
        BY <4>1 DEF Walked
      <4> QED
        BY <4>2, <1>6
    <3>3. \A c \in Mine :
            c \notin failed <=> results[c] \in {"completed", "skipped"}
      BY <3>2, TypeFacts DEF FailedCounts, ResultKinds
    <3>4. failed \subseteq Mine
      BY DEF FailedCounts, Walked
    <3> QED
      BY <2>2, <3>1, <3>3, <3>4
  <2> QED
    BY <1>1, <2>1, <2>2
<1>9. VerdictIsTrue'
  <2>1. /\ verdict' = "completed" <=> Whole
        /\ verdict' = "partial_failure" <=> ~Whole /\ Done # {}
        /\ verdict' = "failed" <=> ~Whole /\ Done = {}
    <3> HIDE DEF Whole, Done
    <3> QED
      BY <1>1, <1>7, <1>8 DEF Verdict
  <2>2. \A i \in 1..Len(ordered.order) :
          /\ results[ordered.order[i]] # "none" <=> i < position
          /\ i > position => ran[ordered.order[i]] = 0
    BY DEF Walked
  <2> QED
    BY <1>1, <2>1, <2>2 DEF VerdictIsTrue
<1> QED
  BY <1>2, <1>3, <1>4, <1>5, <1>9

LEMMA KillStep == ASSUME IInv, Kill PROVE IInv'
<1> USE DEF IInv, LoopIInv
<1>1. /\ step' = "killed"
      /\ UNCHANGED <<orderVars, position, results, failed, ran, verdict>>
  BY DEF Kill
<1>2. TypeOK'
  BY <1>1 DEF TypeOK, OrderTypeOK
<1>3. AtTurn' /\ VerdictIsTrue' /\ Waiting'
  BY <1>1 DEF AtTurn, More, VerdictIsTrue, Waiting
<1>4. OrderIInv'
  BY <1>1, KeepOrder
<1> QED
  BY <1>1, <1>2, <1>3, <1>4 DEF Walked, FailedCounts, Based,
                               RollbackOnlyAfterFailedUpdate

LEMMA StutterStep == ASSUME IInv, UNCHANGED vars PROVE IInv'
<1>1. OrderIInv'
  BY KeepOrder DEF vars, IInv
<1>2. Waiting'
  BY DEF vars, IInv, Waiting, Finished, AtRest
<1>3. LoopIInv'
  BY DEF vars, IInv, LoopIInv, TypeOK, OrderTypeOK, Walked, AtTurn, More,
         Current, FailedCounts, Based, RollbackOnlyAfterFailedUpdate,
         VerdictIsTrue
<1> QED
  BY <1>1, <1>2, <1>3 DEF IInv

LEMMA NextInvariant == IInv /\ [Next]_vars => IInv'
BY OrderStep, BeginStep, BlockStep, SkipStep, RejectTargetStep, RunCommandStep,
   RollbackStep, AbortStep, RecordStep, KillStep, StutterStep DEF Next, Turn

(* The components that succeeded are closed under dependencies, so one     *)
(* whose direct dependencies succeeded has all its prerequisites.          *)
LEMMA Grounded == IInv => PrerequisitesHold
<1> SUFFICES ASSUME IInv, NEW c \in Components, ran[c] > 0,
                    NEW d \in Prerequisites(DepsOf(plan.lists), c)
             PROVE  d \notin failed /\ results[d] \in {"completed", "skipped"}
  BY DEF PrerequisitesHold
<1> DEFINE Good == {e \in Components : results[e] \in {"completed", "skipped"}}
           deps == DepsOf(plan.lists)
<1>1. \A e \in Components :
        deps[e] = ToSet(plan.lists[e]) /\ deps[e] \subseteq Components
  BY ListType, TypeFacts DEF IInv, LoopIInv, DepsOf
<1>2. Closed(deps, Good)
  BY <1>1 DEF IInv, LoopIInv, Based, Closed
<1>3. deps[c] \subseteq Good
  BY <1>1 DEF IInv, LoopIInv, Based
<1>4. d \in Good
  BY <1>2, <1>3 DEF Prerequisites, Needed
<1> QED
  BY <1>4 DEF IInv, LoopIInv, FailedCounts

(* The inductive invariant holds throughout.                               *)
THEOREM Invariance == Spec => []IInv
BY InitInvariant, NextInvariant, PTL DEF Spec

(* Every variable of the loop keeps its type (execute, environment.py):    *)
(* above all its position never leaves the order, and no component is run  *)
(* a third time.                                                           *)
THEOREM TypeCorrect == Spec => []TypeOK
<1>1. IInv => TypeOK
  BY DEF IInv, LoopIInv
<1> QED
  BY Invariance, <1>1, PTL

(* The order is refused exactly on cycles, and otherwise is all that the   *)
(* request needs, nothing twice and dependencies first (_component_order,  *)
(* environment.py).                                                        *)
THEOREM OrdersAreComplete == Spec => []OrderIsComplete
<1>1. IInv => OrderIsComplete
  BY OrderIsRight DEF IInv
<1> QED
  BY Invariance, <1>1, PTL

(* A command is run only after everything the component depends on, at any *)
(* distance, has succeeded (execute, environment.py).                      *)
THEOREM PrerequisitesAreMet == Spec => []PrerequisitesHold
BY Invariance, Grounded, PTL

(* A component that was rolled back is one whose update failed, and it is  *)
(* rolled back once (execute, environment.py).                             *)
THEOREM RollbacksFollowFailures == Spec => []RollbackOnlyAfterFailedUpdate
<1>1. IInv => RollbackOnlyAfterFailedUpdate
  BY DEF IInv, LoopIInv
<1> QED
  BY Invariance, <1>1, PTL

(* The status written at the end tells what happened (execute,             *)
(* environment.py).                                                        *)
THEOREM VerdictsAreTrue == Spec => []VerdictIsTrue
<1>1. IInv => VerdictIsTrue
  BY DEF IInv, LoopIInv
<1> QED
  BY Invariance, <1>1, PTL
=============================================================================
