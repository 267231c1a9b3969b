------------------------ MODULE PlaneLinearSyncProofs ------------------------
(***************************************************************************)
(* Proofs about PlaneLinearSync for any number of issues, processes and    *)
(* faults.  IInv is inductive; the part of it that needs whole listings,   *)
(* Searched, is there until one is cut short.                              *)
(***************************************************************************)
EXTENDS PlaneLinearSync, TLAPS

(***************************************************************************)
(* Processes.                                                              *)
(***************************************************************************)
Others(p) == \A q \in Syncs \ {p} : sync'[q] = sync[q]

LEMMA Changed ==
  ASSUME TypeOK, NEW p \in Syncs, NEW value \in Sync, Become(p, value)
  PROVE  sync' \in [Syncs -> Sync] /\ sync'[p] = value /\ Others(p)
BY DEF TypeOK, Become, Others

LEMMA Fields ==
  ASSUME TypeOK
  PROVE  /\ \A p \in Syncs :
              /\ sync[p] \in Sync
              /\ sync[p].step \in Steps /\ sync[p].todo \subseteq Keys
              /\ sync[p].key \in Keys \cup {NoKey}
              /\ sync[p].target \in 0..MaxIssues
              /\ sync[p].listed \in [Keys -> 0..MaxEdits]
              /\ sync[p].memory \in [Keys -> 0..MaxIssues]
              /\ sync[p].fetched \in BOOLEAN
              /\ sync[p].index \subseteq Ids
         /\ \A i \in Ids : /\ linear[i] \in Issue
                           /\ linear[i].key \in Keys \cup {NoKey}
                           /\ linear[i].version \in 0..MaxEdits
         /\ MaxIssues \in Nat /\ MaxEdits \in Nat
         /\ made \in Nat /\ 1..made \subseteq Ids
<1>1. \A p \in Syncs : sync[p] \in Sync
  BY DEF TypeOK
<1>2. \A i \in Ids : linear[i] \in Issue
  BY DEF TypeOK
<1>3. MaxIssues \in Nat /\ MaxEdits \in Nat
  BY SyncAssumption
<1>4. made \in Nat /\ 1..made \subseteq Ids
  BY <1>3 DEF TypeOK, Ids
<1>5. QED
  BY <1>1, <1>2, <1>3, <1>4 DEF Sync, Issue

LEMMA OffType == Off \in Sync
BY SyncAssumption DEF Off, Sync, Steps, Unmapped

LEMMA GotoEffect ==
  ASSUME TypeOK, NEW p \in Syncs, NEW step \in Steps, Goto(p, step)
  PROVE  /\ sync' \in [Syncs -> Sync] /\ Others(p)
         /\ sync'[p] = [sync[p] EXCEPT !.step = step]
         /\ sync'[p].step = step
         /\ sync'[p].todo = sync[p].todo
         /\ sync'[p].key = sync[p].key
         /\ sync'[p].target = sync[p].target
         /\ sync'[p].listed = sync[p].listed
         /\ sync'[p].memory = sync[p].memory
         /\ sync'[p].fetched = sync[p].fetched
         /\ sync'[p].index = sync[p].index
<1> DEFINE value == [sync[p] EXCEPT !.step = step]
<1>1. sync[p] \in Sync
  BY Fields
<1>2. value \in Sync
  BY <1>1 DEF Sync
<1>3. Become(p, value)
  BY DEF Goto
<1> HIDE DEF value
<1>4. sync' \in [Syncs -> Sync] /\ sync'[p] = value /\ Others(p)
  BY <1>2, <1>3, Changed
<1> USE DEF value
<1>5. QED
  BY <1>1, <1>4 DEF Sync

LEMMA NextIssueEffect ==
  ASSUME TypeOK, NEW p \in Syncs, NextIssue(p)
  PROVE  /\ sync' \in [Syncs -> Sync] /\ Others(p)
         /\ sync'[p].step = "next"
         /\ sync'[p].todo = sync[p].todo
         /\ sync'[p].key = NoKey
         /\ sync'[p].target = 0
         /\ sync'[p].listed = sync[p].listed
         /\ sync'[p].memory = sync[p].memory
         /\ sync'[p].fetched = sync[p].fetched
         /\ sync'[p].index = sync[p].index
<1> DEFINE value == [sync[p] EXCEPT !.step = "next", !.key = NoKey, !.target = 0]
<1>1. sync[p] \in Sync /\ MaxIssues \in Nat
  BY Fields
<1>2. value \in Sync
  <2>1. "next" \in Steps /\ NoKey \in Keys \cup {NoKey} /\ 0 \in 0..MaxIssues
    BY <1>1 DEF Steps
  <2>2. QED
    BY <1>1, <2>1 DEF Sync
<1>3. Become(p, value)
  BY DEF NextIssue
<1> HIDE DEF value
<1>4. sync' \in [Syncs -> Sync] /\ sync'[p] = value /\ Others(p)
  BY <1>2, <1>3, Changed
<1> USE DEF value
<1>5. QED
  BY <1>1, <1>4 DEF Sync

LEMMA OffEffect ==
  ASSUME TypeOK, NEW p \in Syncs, Become(p, Off)
  PROVE  sync' \in [Syncs -> Sync] /\ sync'[p] = Off /\ Others(p)
BY OffType, Changed

(* The budget of cuts only goes down, and with the first cut Uncut ends.   *)
Cutting == budget'["cut"] <= MaxCut /\ (Uncut' => Uncut)

LEMMA SpendEffect ==
  ASSUME IInv, NEW kind \in Faults, Spend(kind)
  PROVE  /\ budget' \in [Faults -> Nat] /\ Cutting
         /\ kind = "cut" => ~Uncut'
BY SyncAssumption DEF IInv, TypeOK, Spend, Faults, Cutting, Uncut

LEMMA SameBudget ==
  ASSUME IInv, UNCHANGED budget
  PROVE  budget' \in [Faults -> Nat] /\ Cutting
BY DEF IInv, TypeOK, Cutting, Uncut

(***************************************************************************)
(* What a step leaves alone.                                               *)
(***************************************************************************)
Mono ==
  /\ made <= made'
  /\ \A i \in 1..made : linear'[i].key = linear[i].key

LEMMA FitsKept ==
  ASSUME TypeOK, TypeOK', Mono, NEW q \in Syncs, Fits(q), sync'[q] = sync[q]
  PROVE  Fits(q)'
<1>1. \A i \in 1..made : i \in 1..made' /\ linear'[i].key = linear[i].key
  BY DEF Mono, TypeOK
<1>2. \A i, k : MadeFor(i, k) => MadeFor(i, k)'
  BY <1>1 DEF MadeFor
<1>3. QED
  BY <1>1, <1>2 DEF Fits

(* Processes that have no run are Off but for their step.                  *)
LEMMA Bystander ==
  ASSUME IInv, NEW q \in Syncs, ~Held(q)
  PROVE  /\ sync[q].step \in {"idle", "waiting"}
         /\ sync[q].todo = {} /\ sync[q].key = NoKey /\ sync[q].key \notin Keys
         /\ ~sync[q].fetched /\ sync[q].index = {}
BY SyncAssumption DEF IInv, Held, Fits

LEMMA RunStep ==
  ASSUME IInv, TypeOK', NEW p \in Syncs, Held(p), Others(p), Mono,
         Fits(p)', Pending(p)', Unmade', Links', Versions',
         Cutting, Uncut' => OnePerKey' /\ Indexed(p)' /\ Ahead(p)'
  PROVE  IInv'
<1>1. \A q \in Syncs \ {p} : ~Held(q) /\ sync'[q] = sync[q]
  BY DEF IInv, OneRun, Others
<1>2. OneRun'
  BY <1>1 DEF OneRun, Held
<1>3. ASSUME NEW q \in Syncs \ {p}
      PROVE  Fits(q)' /\ Pending(q)' /\ Indexed(q)' /\ Ahead(q)'
  <2>1. /\ sync'[q] = sync[q]
        /\ sync[q].step \in {"idle", "waiting"}
        /\ sync[q].todo = {} /\ sync[q].key \notin Keys
        /\ ~sync[q].fetched /\ sync[q].index = {}
    BY <1>1, Bystander
  <2>2. Fits(q)'
    BY <2>1, FitsKept DEF IInv
  <2>3. Pending(q)'
    BY <2>1 DEF Pending
  <2>4. Indexed(q)' /\ Ahead(q)'
    BY <2>1 DEF Indexed, Ahead, Held
  <2>5. QED
    BY <2>2, <2>3, <2>4
<1>4. \A q \in Syncs : Fits(q)' /\ Pending(q)'
  BY <1>3
<1>5. Uncut' => Searched'
  BY <1>3 DEF Searched
<1>6. QED
  BY <1>2, <1>4, <1>5 DEF IInv, Cutting

(* Most steps change the process and maybe a budget.                       *)
LEMMA QuietStep ==
  ASSUME IInv, TypeOK', NEW p \in Syncs, Held(p), Others(p),
         UNCHANGED <<plane, linear, live, made, mappings>>,
         Fits(p)', Pending(p)',
         Cutting, Uncut' => Indexed(p)' /\ Ahead(p)'
  PROVE  IInv'
<1>1. Mono
  BY DEF Mono, IInv, TypeOK
<1>2. Unmade' /\ Links' /\ Versions'
  BY DEF IInv, Unmade, Links, MadeFor, Versions
<1>3. Uncut' => OnePerKey'
  BY DEF IInv, Searched, OnePerKey, Cutting
<1>4. QED
  BY <1>1, <1>2, <1>3, RunStep

(* A process that ends, by itself or not, leaves nothing behind.           *)
LEMMA OffStep ==
  ASSUME IInv, NEW p \in Syncs, Held(p), Become(p, Off),
         UNCHANGED <<plane, linear, live, made, mappings>>,
         budget' \in [Faults -> Nat], Cutting
  PROVE  IInv'
<1>1. sync' \in [Syncs -> Sync] /\ sync'[p] = Off /\ Others(p)
  BY OffEffect DEF IInv
<1>2. TypeOK'
  BY <1>1 DEF IInv, TypeOK, Ids
<1>3. NoKey \notin Keys
  BY SyncAssumption
<1>4. Fits(p)' /\ Pending(p)' /\ Indexed(p)' /\ Ahead(p)'
  BY <1>1, <1>3 DEF Off, Unmapped, Fits, Pending, Indexed, Ahead, Held, Steps
<1>5. QED
  BY <1>1, <1>2, <1>4, QuietStep, SameBudget DEF IInv, Searched, Cutting

(***************************************************************************)
(* Steps of people and schedules.                                          *)
(***************************************************************************)
LEMMA EditStep ==
  ASSUME IInv, NEW k \in Keys, Edit(k)
  PROVE  IInv'
<1>1. /\ plane' = [plane EXCEPT ![k] = @ + 1] /\ plane[k] < MaxEdits
      /\ UNCHANGED <<linear, live, made, mappings, sync, budget>>
  BY DEF Edit
<1>2. plane \in [Keys -> 0..MaxEdits] /\ MaxEdits \in Nat
  BY Fields DEF IInv, TypeOK
<1>3. plane' \in [Keys -> 0..MaxEdits]
      /\ \A q \in Keys : plane[q] <= plane'[q] /\ plane[q] \in Int /\ plane'[q] \in Int
  BY <1>1, <1>2
<1>4. TypeOK'
  BY <1>1, <1>3 DEF IInv, TypeOK
<1>5. Versions'
  BY <1>1, <1>3, Fields DEF IInv, Versions, Issue
<1>6. \A p \in Syncs : Pending(p)'
  <2>1. \A p \in Syncs, q \in Keys : sync[p].listed[q] \in Int
    BY Fields DEF IInv
  <2>2. QED
    BY <1>1, <1>3, <2>1 DEF IInv, Pending
<1>7. OneRun' /\ Unmade' /\ Links' /\ \A p \in Syncs : Fits(p)'
  BY <1>1 DEF IInv, OneRun, Held, Unmade, Links, MadeFor, Fits
<1>8. Searched => Searched'
  BY <1>1 DEF Searched, OnePerKey, Indexed, Ahead, Held
<1>9. QED
  BY <1>1, <1>4, <1>5, <1>6, <1>7, <1>8, SameBudget DEF IInv, Cutting

LEMMA DeleteStep ==
  ASSUME IInv, NEW i \in Ids, Delete(i)
  PROVE  IInv'
<1>1. /\ live' \subseteq live /\ Spend("deletes")
      /\ UNCHANGED <<plane, linear, made, mappings, sync>>
  BY DEF Delete
<1>2. budget' \in [Faults -> Nat] /\ Cutting
  BY <1>1, SpendEffect DEF IInv, Faults
<1>3. TypeOK'
  BY <1>1, <1>2 DEF IInv, TypeOK
<1>4. Unmade' /\ Versions' /\ Links'
  BY <1>1 DEF IInv, Unmade, Versions, Links, MadeFor
<1>5. OneRun' /\ \A p \in Syncs : Pending(p)' /\ Fits(p)'
  BY <1>1 DEF IInv, OneRun, Held, Pending, Fits, MadeFor
<1>6. Searched => Searched'
  BY <1>1, <1>2 DEF Searched, OnePerKey, Indexed, Ahead, Held
<1>7. QED
  BY <1>2, <1>3, <1>4, <1>5, <1>6 DEF IInv, Cutting

(* Neither an invocation nor the lock changes what a process knows.        *)
LEMMA EntryStep ==
  ASSUME IInv, NEW p \in Syncs, Start(p) \/ AcquireLock(p)
  PROVE  IInv'
<1>1. PICK step \in {"waiting", "locked"} :
        /\ Goto(p, step) /\ UNCHANGED <<plane, linear, live, made, mappings, budget>>
        /\ step = "locked" => \A q \in Syncs : ~Held(q)
        /\ sync[p].step \in {"idle", "waiting"}
  BY DEF Start, AcquireLock, At, Held
<1>2. /\ sync' \in [Syncs -> Sync] /\ Others(p)
      /\ sync'[p].step = step
      /\ sync'[p].todo = sync[p].todo
      /\ sync'[p].key = sync[p].key
      /\ sync'[p].target = sync[p].target
      /\ sync'[p].listed = sync[p].listed
      /\ sync'[p].memory = sync[p].memory
      /\ sync'[p].fetched = sync[p].fetched
      /\ sync'[p].index = sync[p].index
  BY <1>1, GotoEffect DEF IInv, Steps
<1>3. TypeOK'
  BY <1>1, <1>2 DEF IInv, TypeOK, Ids, Issue
<1>4. OneRun'
  BY <1>1, <1>2 DEF IInv, OneRun, Held, Others
<1>5. Unmade' /\ Links' /\ Versions' /\ (OnePerKey => OnePerKey')
  BY <1>1 DEF IInv, Unmade, Links, MadeFor, Versions, OnePerKey
<1>6. ASSUME NEW q \in Syncs
      PROVE  /\ Fits(q)' /\ Pending(q)'
             /\ Indexed(q) => Indexed(q)'
             /\ Ahead(q) => Ahead(q)'
  <2>1. CASE q = p
    <3>1. Fits(p) /\ Pending(p)
      BY DEF IInv
    <3>2. Fits(p)' /\ Pending(p)'
      BY <1>1, <1>2, <3>1 DEF Fits, Pending, MadeFor, Steps
    <3>3. (Indexed(p) => Indexed(p)') /\ (Ahead(p) => Ahead(p)')
      BY <1>1, <1>2, <3>1 DEF Fits, Indexed, Ahead, Held
    <3>4. QED
      BY <2>1, <3>2, <3>3
  <2>2. CASE q # p
    <3>1. sync'[q] = sync[q] /\ Fits(q) /\ Pending(q)
      BY <1>2, <2>2 DEF Others, IInv
    <3>2. QED
      BY <1>1, <3>1 DEF Fits, Pending, MadeFor, Indexed, Ahead, Held
  <2>3. QED
    BY <2>1, <2>2
<1>7. Uncut' => Searched'
  BY <1>1, <1>5, <1>6, SameBudget DEF IInv, Searched, Cutting
<1>8. QED
  BY <1>1, <1>3, <1>4, <1>5, <1>6, <1>7, SameBudget DEF IInv, Cutting

(***************************************************************************)
(* Steps of a run that leave Linear alone.                                 *)
(***************************************************************************)
LEMMA ListStep ==
  ASSUME IInv, NEW p \in Syncs, List(p)
  PROVE  IInv'
<1> DEFINE value == [sync[p] EXCEPT !.step = "next", !.todo = Keys,
                                    !.listed = plane, !.memory = mappings]
<1>1. /\ sync[p].step = "locked" /\ Held(p)
      /\ UNCHANGED <<plane, linear, live, made, mappings>>
  BY DEF List, At, Held
<1>2. CASE Become(p, value) /\ UNCHANGED budget
  <2>1. sync[p] \in Sync /\ TypeOK /\ Fits(p)
    BY Fields DEF IInv
  <2>2. value \in Sync
    BY <2>1 DEF Sync, TypeOK, Steps
  <2>3. /\ value.step = "next" /\ value.todo = Keys /\ value.listed = plane
        /\ value.memory = mappings /\ value.key = sync[p].key
        /\ value.fetched = sync[p].fetched /\ value.index = sync[p].index
    BY <2>1 DEF Sync
  <2> HIDE DEF value
  <2>4. sync' \in [Syncs -> Sync] /\ sync'[p] = value /\ Others(p)
    BY <1>2, <2>1, <2>2, Changed
  <2>5. TypeOK'
    BY <1>1, <1>2, <2>4 DEF IInv, TypeOK
  <2>6. sync[p].key = NoKey /\ ~sync[p].fetched /\ sync[p].index = {}
    BY <1>1, <2>1 DEF Fits
  <2>7. Fits(p)'
    BY <1>1, <2>3, <2>4, <2>6 DEF IInv, Fits, Links, MadeFor, Steps
  <2>8. Pending(p)'
    <3>1. \A k \in Keys : plane[k] \in 0..MaxEdits /\ MaxEdits \in Nat
      BY Fields, <2>1 DEF TypeOK
    <3>2. NoKey \notin Keys
      BY SyncAssumption
    <3>3. QED
      BY <1>1, <2>3, <2>4, <2>6, <3>1, <3>2 DEF IInv, Pending, Versions
  <2>9. Indexed(p)' /\ Ahead(p)'
    BY <1>1, <2>3, <2>4, <2>6 DEF Indexed, Ahead
  <2>10. QED
    BY <1>1, <1>2, <2>4, <2>5, <2>7, <2>8, <2>9, QuietStep, SameBudget DEF IInv, Searched, Cutting
<1>3. CASE Spend("failed") /\ Become(p, Off)
  BY <1>1, <1>3, SpendEffect, OffStep DEF Faults, IInv
<1>4. QED
  BY <1>2, <1>3 DEF List

(* From memory or from the file, a run knows what the file says, but for   *)
(* issues that are gone.                                                   *)
LEMMA KnownMappings ==
  ASSUME IInv, NEW p \in Syncs, Held(p), sync[p].step # "locked"
  PROVE  /\ Known(p) \in [Keys -> 0..MaxIssues]
         /\ \A k \in Keys : Known(p)[k] # 0 => MadeFor(Known(p)[k], k)
         /\ Uncut => \A k \in Keys : mappings[k] # 0 =>
              /\ Known(p)[k] # 0
              /\ Known(p)[k] # mappings[k] => mappings[k] \notin live
         /\ Uncut /\ sync[p].step = "save" =>
              /\ sync[p].key \in Keys
              /\ Known(p)[sync[p].key] \notin {0, sync[p].target}
                   => Known(p)[sync[p].key] \notin live
<1>1. TypeOK /\ Fits(p) /\ Links /\ (Uncut => Ahead(p))
  BY DEF IInv, Searched
<1>2. /\ sync[p].memory \in [Keys -> 0..MaxIssues]
      /\ mappings \in [Keys -> 0..MaxIssues]
      /\ sync[p].key \in Keys \cup {NoKey}
  BY <1>1, Fields DEF TypeOK
<1>3. sync[p].step = "save" => sync[p].key \in Keys
  BY <1>1, <1>2 DEF Fits, Steps
<1>4. CASE p \in Remembering
  BY <1>1, <1>2, <1>3, <1>4 DEF Known, Fits, Ahead
<1>5. CASE p \notin Remembering
  BY <1>1, <1>2, <1>3, <1>5 DEF Known, Links, Ahead
<1>6. QED
  BY <1>4, <1>5

LEMMA TakeStep ==
  ASSUME IInv, NEW p \in Syncs, NEW k \in Keys, Take(p, k)
  PROVE  IInv'
<1> DEFINE rest == [sync[p] EXCEPT !.todo = @ \ {k}, !.memory = Known(p)]
           id == Known(p)[k]
           value == [rest EXCEPT !.key = k, !.target = id,
                       !.step = IF id # 0 THEN "update" ELSE "find"]
<1>1. /\ sync[p].step = "next" /\ k \in sync[p].todo /\ Held(p)
      /\ UNCHANGED <<plane, linear, live, made, mappings>>
  BY DEF Take, At, Held
<1>2. sync[p] \in Sync /\ TypeOK /\ Fits(p) /\ Pending(p)
  BY Fields DEF IInv
<1>k. /\ Known(p) \in [Keys -> 0..MaxIssues]
      /\ \A q \in Keys : Known(p)[q] # 0 => MadeFor(Known(p)[q], q)
      /\ Uncut => \A q \in Keys : mappings[q] # 0 =>
           /\ Known(p)[q] # 0
           /\ Known(p)[q] # mappings[q] => mappings[q] \notin live
  BY <1>1, KnownMappings
<1>3. rest \in Sync
  BY <1>2, <1>k DEF Sync
<1>4. /\ rest.step = "next" /\ rest.todo = sync[p].todo \ {k}
      /\ rest.key = sync[p].key /\ rest.listed = sync[p].listed
      /\ rest.memory = Known(p) /\ rest.target = sync[p].target
      /\ rest.fetched = sync[p].fetched /\ rest.index = sync[p].index
  BY <1>1, <1>2 DEF Sync
<1>5. id \in 0..MaxIssues /\ NoKey # k
  BY <1>k, SyncAssumption
<1> HIDE DEF rest
<1>6. value \in Sync
  BY <1>3, <1>5 DEF Sync, Steps
<1>7. /\ value.step = IF id # 0 THEN "update" ELSE "find"
      /\ value.todo = sync[p].todo \ {k} /\ value.key = k
      /\ value.target = id /\ value.listed = sync[p].listed
      /\ value.memory = Known(p)
      /\ value.fetched = sync[p].fetched /\ value.index = sync[p].index
  BY <1>3, <1>4 DEF Sync
<1> HIDE DEF value
<1>8. CASE Become(p, value) /\ UNCHANGED budget
  <2>1. sync' \in [Syncs -> Sync] /\ sync'[p] = value /\ Others(p)
    BY <1>8, <1>2, <1>6, Changed
  <2>2. TypeOK'
    BY <1>1, <1>8, <2>1 DEF IInv, TypeOK
  <2>3. Fits(p)'
    BY <1>1, <1>2, <1>5, <1>k, <1>7, <2>1 DEF Fits, MadeFor, Steps
  <2>4. Pending(p)'
    BY <1>1, <1>2, <1>7, <2>1 DEF Pending
  <2>5. Indexed(p) => Indexed(p)'
    BY <1>1, <1>7, <2>1 DEF Indexed
  <2>6. Uncut => Ahead(p)'
    BY <1>1, <1>k, <1>7, <2>1 DEF Ahead, Held
  <2>7. QED
    BY <1>1, <1>8, <2>1, <2>2, <2>3, <2>4, <2>5, <2>6, QuietStep, SameBudget DEF IInv, Searched, Cutting
<1>9. CASE Spend("failed") /\ Become(p, rest)
  <2>1. sync' \in [Syncs -> Sync] /\ sync'[p] = rest /\ Others(p)
    BY <1>9, <1>2, <1>3, Changed
  <2>2. budget' \in [Faults -> Nat] /\ Cutting
    BY <1>9, SpendEffect DEF Faults
  <2>3. TypeOK'
    BY <1>1, <2>1, <2>2 DEF IInv, TypeOK
  <2>4. Fits(p)'
    BY <1>1, <1>2, <1>k, <1>4, <2>1 DEF Fits, MadeFor, Steps
  <2>5. Pending(p)'
    BY <1>1, <1>2, <1>4, <2>1 DEF Pending
  <2>6. Indexed(p) => Indexed(p)'
    BY <1>1, <1>4, <2>1 DEF Indexed
  <2>7. Uncut => Ahead(p)'
    BY <1>1, <1>k, <1>4, <2>1 DEF Ahead, Held
  <2>8. QED
    BY <1>1, <2>1, <2>2, <2>3, <2>4, <2>5, <2>6, <2>7, QuietStep, SameBudget DEF IInv, Searched, Cutting
<1>10. QED
  BY <1>8, <1>9 DEF Take, rest, value

LEMMA MisjudgedStep ==
  ASSUME IInv, NEW p \in Syncs, Misjudged(p)
  PROVE  IInv'
<1>1. /\ sync[p].step = "update" /\ Held(p) /\ Spend("failed") /\ Goto(p, "find")
      /\ UNCHANGED <<plane, linear, live, made, mappings>>
  BY DEF Misjudged, At, Held
<1>2. TypeOK /\ Fits(p) /\ Pending(p)
  BY DEF IInv
<1>3. /\ sync' \in [Syncs -> Sync] /\ Others(p)
      /\ sync'[p].step = "find" /\ sync'[p].todo = sync[p].todo
      /\ sync'[p].key = sync[p].key /\ sync'[p].target = sync[p].target
      /\ sync'[p].listed = sync[p].listed /\ sync'[p].memory = sync[p].memory
      /\ sync'[p].fetched = sync[p].fetched /\ sync'[p].index = sync[p].index
  BY <1>1, <1>2, GotoEffect DEF Steps
<1>4. budget' \in [Faults -> Nat] /\ Cutting
  BY <1>1, SpendEffect DEF Faults
<1>5. TypeOK'
  BY <1>1, <1>3, <1>4 DEF IInv, TypeOK
<1>6. Fits(p)' /\ Pending(p)'
  BY <1>1, <1>2, <1>3 DEF Fits, Pending, MadeFor, Steps
<1>7. (Indexed(p) => Indexed(p)') /\ (Ahead(p) => Ahead(p)')
  BY <1>1, <1>3 DEF Indexed, Ahead, Held
<1>8. QED
  BY <1>1, <1>3, <1>4, <1>5, <1>6, <1>7, QuietStep, SameBudget DEF IInv, Searched, Cutting

LEMMA FindStep ==
  ASSUME IInv, NEW p \in Syncs, Find(p)
  PROVE  IInv'
<1>1. /\ sync[p].step = "find" /\ Held(p)
      /\ UNCHANGED <<plane, linear, live, made, mappings, budget>>
  BY DEF Find, At, Held
<1>2. sync[p] \in Sync /\ TypeOK /\ Fits(p) /\ Pending(p)
  BY Fields DEF IInv
<1>3. CASE /\ ~sync[p].fetched
           /\ Become(p, [sync[p] EXCEPT !.step = "page", !.fetched = TRUE])
  <2> DEFINE value == [sync[p] EXCEPT !.step = "page", !.fetched = TRUE]
  <2>1. value \in Sync
    BY <1>2 DEF Sync, Steps
  <2>2. /\ value.step = "page" /\ value.todo = sync[p].todo
        /\ value.key = sync[p].key /\ value.target = sync[p].target
        /\ value.listed = sync[p].listed /\ value.memory = sync[p].memory
        /\ value.fetched = TRUE /\ value.index = sync[p].index
    BY <1>2 DEF Sync
  <2> HIDE DEF value
  <2>3. sync' \in [Syncs -> Sync] /\ sync'[p] = value /\ Others(p)
    BY <1>2, <1>3, <2>1, Changed DEF value
  <2>4. TypeOK'
    BY <1>1, <2>3 DEF IInv, TypeOK
  <2>5. Fits(p)' /\ Pending(p)'
    BY <1>1, <1>2, <2>2, <2>3 DEF Fits, Pending, MadeFor, Steps
  <2>6. (Indexed(p) => Indexed(p)') /\ (Ahead(p) => Ahead(p)')
    BY <1>1, <2>2, <2>3 DEF Indexed, Ahead, Held
  <2>7. QED
    BY <1>1, <2>3, <2>4, <2>5, <2>6, QuietStep, SameBudget DEF IInv, Searched, Cutting
<1>4. ASSUME NEW i \in sync[p].index, sync[p].fetched,
             linear[i].key = sync[p].key,
             Become(p, [sync[p] EXCEPT !.step = "update_found", !.target = i])
      PROVE  IInv'
  <2> DEFINE value == [sync[p] EXCEPT !.step = "update_found", !.target = i]
  <2>1. i \in 0..MaxIssues /\ MadeFor(i, sync[p].key)
    BY <1>2, <1>4, Fields DEF Fits, MadeFor, Ids
  <2>2. value \in Sync
    BY <1>2, <2>1 DEF Sync, Steps
  <2>3. /\ value.step = "update_found" /\ value.todo = sync[p].todo
        /\ value.key = sync[p].key /\ value.target = i
        /\ value.listed = sync[p].listed /\ value.memory = sync[p].memory
        /\ value.fetched = sync[p].fetched /\ value.index = sync[p].index
    BY <1>2 DEF Sync
  <2> HIDE DEF value
  <2>4. sync' \in [Syncs -> Sync] /\ sync'[p] = value /\ Others(p)
    BY <1>2, <1>4, <2>2, Changed DEF value
  <2>5. TypeOK'
    BY <1>1, <2>4 DEF IInv, TypeOK
  <2>6. Fits(p)' /\ Pending(p)'
    BY <1>1, <1>2, <1>4, <2>1, <2>3, <2>4 DEF Fits, Pending, MadeFor, Steps
  <2>7. (Indexed(p) => Indexed(p)') /\ (Ahead(p) => Ahead(p)')
    BY <1>1, <2>3, <2>4 DEF Indexed, Ahead, Held
  <2>8. QED
    BY <1>1, <2>4, <2>5, <2>6, <2>7, QuietStep, SameBudget DEF IInv, Searched, Cutting
<1>5. CASE /\ sync[p].fetched
           /\ \A i \in sync[p].index : linear[i].key # sync[p].key
           /\ Goto(p, "create")
  <2>1. /\ sync' \in [Syncs -> Sync] /\ Others(p)
        /\ sync'[p].step = "create" /\ sync'[p].todo = sync[p].todo
        /\ sync'[p].key = sync[p].key /\ sync'[p].target = sync[p].target
        /\ sync'[p].listed = sync[p].listed /\ sync'[p].memory = sync[p].memory
        /\ sync'[p].fetched = sync[p].fetched /\ sync'[p].index = sync[p].index
    BY <1>2, <1>5, GotoEffect DEF Steps
  <2>2. TypeOK'
    BY <1>1, <2>1 DEF IInv, TypeOK
  <2>3. Fits(p)' /\ Pending(p)'
    BY <1>1, <1>2, <1>5, <2>1 DEF Fits, Pending, MadeFor, Steps
  <2>4. (Indexed(p) => Indexed(p)') /\ (Ahead(p) => Ahead(p)')
    BY <1>1, <1>5, <2>1 DEF Indexed, Ahead, Held
  <2>5. QED
    BY <1>1, <2>1, <2>2, <2>3, <2>4, QuietStep, SameBudget DEF IInv, Searched, Cutting
<1>6. QED
  BY <1>3, <1>4, <1>5 DEF Find

(* An issue that is given up: the run goes on with the next one.           *)
LEMMA GivenUp ==
  ASSUME IInv, NEW p \in Syncs, NextIssue(p), Held(p),
         sync[p].step \in Steps \ {"idle", "waiting", "locked", "next"},
         Mono, UNCHANGED <<plane, mappings>>,
         linear' \in [Ids -> Issue], live' \subseteq Ids, made' \in 0..MaxIssues,
         budget' \in [Faults -> Nat], Cutting,
         Unmade', Links', Versions',
         \A k \in sync[p].todo, i \in 1..made' :
           linear'[i].key = k => linear'[i].version <= sync[p].listed[k],
         Uncut' =>
           /\ OnePerKey'
           /\ \A i \in sync[p].index, j \in live' :
                linear'[i].key = linear'[j].key => i = j
           /\ sync[p].fetched =>
                \A i \in live' \ sync[p].index : linear'[i].key \notin sync[p].todo
           /\ \A k \in Keys : mappings[k] \in live' => mappings[k] \in live
  PROVE  IInv'
<1>1. TypeOK /\ Fits(p) /\ Pending(p) /\ NoKey \notin Keys
  BY SyncAssumption DEF IInv
<1>2. /\ sync' \in [Syncs -> Sync] /\ Others(p)
      /\ sync'[p].step = "next" /\ sync'[p].todo = sync[p].todo
      /\ sync'[p].key = NoKey /\ sync'[p].target = 0
      /\ sync'[p].listed = sync[p].listed /\ sync'[p].memory = sync[p].memory
      /\ sync'[p].fetched = sync[p].fetched /\ sync'[p].index = sync[p].index
  BY <1>1, NextIssueEffect
<1>3. TypeOK'
  BY <1>1, <1>2 DEF TypeOK
<1>4. \A i \in 1..made : i \in 1..made' /\ linear'[i].key = linear[i].key
  BY <1>1, <1>3 DEF Mono, TypeOK
<1>5. \A i, k : MadeFor(i, k) => MadeFor(i, k)'
  BY <1>4 DEF MadeFor
<1>6. Fits(p)'
  BY <1>1, <1>2, <1>4, <1>5 DEF Fits, Steps
<1>7. Pending(p)'
  BY <1>1, <1>2 DEF Pending
<1>8. Uncut' => Indexed(p)'
  <2>1. \A i \in live' : linear'[i].key # NoKey
    BY <1>1 DEF Unmade, Versions
  <2>2. QED
    BY <1>2, <2>1 DEF Indexed
<1>9. Uncut' => Ahead(p)'
  BY <1>2 DEF IInv, Searched, Ahead, Held, Cutting
<1>10. QED
  BY <1>2, <1>3, <1>6, <1>7, <1>8, <1>9, RunStep

LEMMA PageStep ==
  ASSUME IInv, NEW p \in Syncs, FetchPage(p) \/ PageFails(p)
  PROVE  IInv'
<1>1. /\ sync[p].step = "page" /\ Held(p)
      /\ UNCHANGED <<plane, linear, live, made, mappings>>
  BY DEF FetchPage, PageFails, At, Held
<1>2. sync[p] \in Sync /\ TypeOK /\ Fits(p) /\ Pending(p)
  BY Fields DEF IInv
<1>3. ASSUME NextIssue(p), budget' \in [Faults -> Nat], Cutting, ~Uncut'
      PROVE  IInv'
  <2>1. Mono /\ Unmade' /\ Links' /\ Versions'
    BY <1>1, <1>2 DEF Mono, IInv, TypeOK, Unmade, Links, MadeFor, Versions
  <2>2. \A k \in sync[p].todo, i \in 1..made' :
          linear'[i].key = k => linear'[i].version <= sync[p].listed[k]
    BY <1>1, <1>2, Fields DEF Pending
  <2>3. linear' \in [Ids -> Issue] /\ live' \subseteq Ids /\ made' \in 0..MaxIssues
    BY <1>1, <1>2 DEF TypeOK
  <2>4. sync[p].step \in Steps \ {"idle", "waiting", "locked", "next"}
    BY <1>1 DEF Steps
  <2>5. QED
    BY <1>1, <1>3, <2>1, <2>2, <2>3, <2>4, GivenUp
<1>4. CASE PageFails(p)
  <2>1. Spend("cut") /\ NextIssue(p)
    BY <1>4 DEF PageFails
  <2>2. budget' \in [Faults -> Nat] /\ Cutting /\ ~Uncut'
    BY <2>1, SpendEffect DEF Faults
  <2>3. QED
    BY <1>3, <2>1, <2>2
<1>5. CASE live \subseteq sync[p].index /\ Goto(p, "find") /\ UNCHANGED budget
  <2>1. /\ sync' \in [Syncs -> Sync] /\ Others(p)
        /\ sync'[p].step = "find" /\ sync'[p].todo = sync[p].todo
        /\ sync'[p].key = sync[p].key /\ sync'[p].target = sync[p].target
        /\ sync'[p].listed = sync[p].listed /\ sync'[p].memory = sync[p].memory
        /\ sync'[p].fetched = sync[p].fetched /\ sync'[p].index = sync[p].index
    BY <1>2, <1>5, GotoEffect DEF Steps
  <2>2. TypeOK'
    BY <1>1, <1>5, <2>1 DEF IInv, TypeOK
  <2>3. Fits(p)' /\ Pending(p)'
    BY <1>1, <1>2, <2>1 DEF Fits, Pending, MadeFor, Steps
  <2>4. (Indexed(p) => Indexed(p)') /\ (Ahead(p) => Ahead(p)')
    BY <1>1, <1>5, <2>1 DEF Indexed, Ahead, Held
  <2>5. QED
    BY <1>1, <1>5, <2>1, <2>2, <2>3, <2>4, QuietStep, SameBudget DEF IInv, Searched, Cutting
<1>6. ASSUME NEW i \in live \ sync[p].index, UNCHANGED budget,
             NEW j \in sync[p].index, linear[j].key = linear[i].key,
             NextIssue(p)
      PROVE  IInv'
  <2>1. ~Uncut' /\ Cutting /\ budget' \in [Faults -> Nat]
    BY <1>6, SameBudget DEF IInv, Searched, Indexed, Cutting
  <2>2. QED
    BY <1>3, <1>6, <2>1
<1>7. ASSUME NEW i \in live \ sync[p].index, UNCHANGED budget,
             \A j \in sync[p].index : linear[j].key # linear[i].key,
             Become(p, [sync[p] EXCEPT !.index = @ \cup {i},
                          !.step = IF live \subseteq sync[p].index \cup {i}
                                   THEN "find" ELSE "page"])
      PROVE  IInv'
  <2> DEFINE more == sync[p].index \cup {i}
             value == [sync[p] EXCEPT !.index = @ \cup {i},
                         !.step = IF live \subseteq sync[p].index \cup {i}
                                  THEN "find" ELSE "page"]
  <2>1. i \in Ids /\ i \in 1..made
    BY <1>2 DEF TypeOK, IInv, Unmade
  <2>2. value \in Sync
    BY <1>2, <2>1 DEF Sync, Steps
  <2>3. /\ value.step = (IF live \subseteq more THEN "find" ELSE "page")
        /\ value.todo = sync[p].todo
        /\ value.key = sync[p].key /\ value.target = sync[p].target
        /\ value.listed = sync[p].listed /\ value.memory = sync[p].memory
        /\ value.fetched = sync[p].fetched /\ value.index = more
    BY <1>2 DEF Sync
  <2> HIDE DEF value
  <2>4. sync' \in [Syncs -> Sync] /\ sync'[p] = value /\ Others(p)
    BY <1>2, <1>7, <2>2, Changed DEF value
  <2>5. TypeOK'
    BY <1>1, <1>7, <2>4 DEF IInv, TypeOK
  <2>6. Fits(p)' /\ Pending(p)'
    BY <1>1, <1>2, <2>1, <2>3, <2>4 DEF Fits, Pending, MadeFor, Steps
  <2>7. OnePerKey /\ Indexed(p) => Indexed(p)'
    BY <1>1, <2>3, <2>4 DEF Indexed, OnePerKey
  <2>8. Ahead(p) => Ahead(p)'
    BY <1>1, <2>3, <2>4 DEF Ahead, Held
  <2>9. QED
    BY <1>1, <1>7, <2>4, <2>5, <2>6, <2>7, <2>8, QuietStep, SameBudget DEF IInv, Searched, Cutting
<1>8. QED
  BY <1>4, <1>5, <1>6, <1>7 DEF FetchPage

(***************************************************************************)
(* Steps that write to Linear.                                             *)
(***************************************************************************)
LEMMA UpdatedEffect ==
  ASSUME IInv, NEW p \in Syncs, sync[p].step \in {"update", "update_found"},
         Updated(p), UNCHANGED <<plane, live, made, mappings>>
  PROVE  /\ linear' \in [Ids -> Issue]
         /\ \A i \in Ids : /\ linear'[i].key = linear[i].key
                           /\ linear'[i].version >= linear[i].version
         /\ Mono /\ Unmade' /\ Links' /\ Versions'
         /\ OnePerKey => OnePerKey'
         /\ \A k \in Keys : k \in sync[p].todo \/ k = sync[p].key =>
              \A i \in 1..made : linear'[i].key = k
                                 => linear'[i].version <= sync[p].listed[k]
<1> DEFINE t == sync[p].target
           key == sync[p].key
           v == sync[p].listed[key]
<1>1. TypeOK /\ Fits(p) /\ Pending(p) /\ Unmade /\ Links /\ Versions
  BY DEF IInv
<1>2. /\ key # NoKey /\ key \in Keys /\ key \notin sync[p].todo
      /\ t \in 1..made /\ linear[t].key = key
  BY <1>1, Fields DEF Fits, MadeFor, Steps
<1>3. 1..made \subseteq Ids /\ linear \in [Ids -> Issue] /\ live \subseteq 1..made
  BY <1>1, Fields DEF TypeOK, Unmade
<1>4. v \in 0..MaxEdits /\ MaxEdits \in Nat
  BY <1>1, <1>2, Fields
<1>5. v <= plane[key] /\ linear[t].version <= v
  BY <1>1, <1>2 DEF Pending
<1>6. linear' = [linear EXCEPT ![t].version = v]
  BY DEF Updated, Version
<1>7. /\ linear'[t].key = key /\ linear'[t].version = v
      /\ linear'[t] \in Issue
      /\ \A i \in Ids \ {t} : linear'[i] = linear[i]
  <2> HIDE DEF v, t, key
  <2>1. t \in Ids /\ linear[t] \in Issue
    BY <1>2, <1>3
  <2>2. linear'[t] = [linear[t] EXCEPT !.version = v]
    BY <1>3, <1>6, <2>1
  <2>3. \A i \in Ids \ {t} : linear'[i] = linear[i]
    BY <1>3, <1>6
  <2>4. QED
    BY <1>2, <1>4, <2>1, <2>2, <2>3 DEF Issue
<1> HIDE DEF v, t, key
<1>8. linear' \in [Ids -> Issue]
  <2>1. linear' = [linear EXCEPT ![t] = linear'[t]]
    BY <1>3, <1>6
  <2>2. QED
    BY <1>3, <1>7, <2>1
<1>9. \A i \in Ids : linear[i].version \in Nat /\ linear'[i].version \in Nat
  BY <1>3, <1>4, <1>8 DEF Issue
<1>10. \A i \in Ids : /\ linear'[i].key = linear[i].key
                      /\ linear'[i].version >= linear[i].version
  <2>1. ASSUME NEW i \in Ids
        PROVE  linear'[i].key = linear[i].key /\ linear'[i].version >= linear[i].version
    <3>1. CASE i = t
      BY <3>1, <1>2, <1>4, <1>5, <1>7, <1>9
    <3>2. CASE i # t
      BY <3>2, <1>7, <1>9
    <3>3. QED
      BY <3>1, <3>2
  <2>2. QED
    BY <2>1
<1>11. Mono /\ Links' /\ (OnePerKey => OnePerKey')
  BY <1>1, <1>3, <1>10 DEF Mono, TypeOK, Links, MadeFor, OnePerKey
<1>12. Unmade'
  BY <1>1, <1>2, <1>3, <1>7 DEF Unmade, TypeOK
<1>13. Versions'
  BY <1>1, <1>2, <1>3, <1>5, <1>7 DEF Versions
<1>14. \A k \in Keys : k \in sync[p].todo \/ k = key =>
         \A i \in 1..made : linear'[i].key = k
                            => linear'[i].version <= sync[p].listed[k]
  <2>1. ASSUME NEW k \in Keys, k \in sync[p].todo \/ k = key,
               NEW i \in 1..made, linear'[i].key = k
        PROVE  linear'[i].version <= sync[p].listed[k]
    <3>1. CASE i = t
      BY <3>1, <2>1, <1>4, <1>7 DEF v
    <3>2. CASE i # t
      BY <3>2, <2>1, <1>1, <1>3, <1>7 DEF Pending, key
    <3>3. QED
      BY <3>1, <3>2
  <2>2. QED
    BY <2>1
<1>15. QED
  BY <1>8, <1>10, <1>11, <1>12, <1>13, <1>14 DEF key

LEMMA UpdateStep ==
  ASSUME IInv, NEW p \in Syncs, UpdateMapped(p) \/ UpdateFound(p)
  PROVE  IInv'
<1>1. /\ sync[p].step \in {"update", "update_found"} /\ Held(p)
      /\ UNCHANGED <<plane, live, made, mappings, budget>>
  BY DEF UpdateMapped, UpdateFound, At, Held
<1>2. sync[p] \in Sync /\ TypeOK /\ Fits(p) /\ Pending(p)
  BY Fields DEF IInv
<1>3. CASE sync[p].target \in live /\ Updated(p) /\ Goto(p, "save")
  <2>1. /\ linear' \in [Ids -> Issue]
        /\ \A i \in Ids : linear'[i].key = linear[i].key
        /\ Mono /\ Unmade' /\ Links' /\ Versions'
        /\ OnePerKey => OnePerKey'
        /\ \A k \in Keys : k \in sync[p].todo \/ k = sync[p].key =>
             \A i \in 1..made : linear'[i].key = k
                                => linear'[i].version <= sync[p].listed[k]
    BY <1>1, <1>3, UpdatedEffect
  <2>2. /\ sync' \in [Syncs -> Sync] /\ Others(p)
        /\ sync'[p].step = "save" /\ sync'[p].todo = sync[p].todo
        /\ sync'[p].key = sync[p].key /\ sync'[p].target = sync[p].target
        /\ sync'[p].listed = sync[p].listed /\ sync'[p].memory = sync[p].memory
        /\ sync'[p].fetched = sync[p].fetched /\ sync'[p].index = sync[p].index
    BY <1>2, <1>3, GotoEffect DEF Steps
  <2>3. TypeOK'
    BY <1>1, <2>1, <2>2 DEF IInv, TypeOK
  <2>4. 1..made \subseteq Ids /\ live \subseteq Ids
    BY <1>2, Fields DEF TypeOK
  <2>5. \A i, k : MadeFor(i, k) => MadeFor(i, k)'
    BY <1>1, <2>1, <2>4 DEF MadeFor
  <2>6. Fits(p)'
    BY <1>1, <1>2, <2>2, <2>5 DEF Fits, Steps
  <2>7. Pending(p)'
    BY <1>1, <1>2, <2>1, <2>2 DEF Pending
  <2>8. Indexed(p) => Indexed(p)'
    BY <1>1, <1>2, <2>1, <2>2, <2>4, Fields DEF Indexed
  <2>9. OnePerKey /\ Ahead(p) => Ahead(p)'
    <3> SUFFICES ASSUME OnePerKey, Ahead(p)
                 PROVE  Ahead(p)'
      OBVIOUS
    <3>1. /\ sync[p].key \in Keys
          /\ linear[sync[p].target].key = sync[p].key
          /\ sync[p].memory[sync[p].key] # 0 =>
                linear[sync[p].memory[sync[p].key]].key = sync[p].key
      BY <1>1, <1>2, Fields DEF Fits, MadeFor, Steps
    <3>2. sync[p].memory[sync[p].key] \notin {0, sync[p].target}
            => sync[p].memory[sync[p].key] \notin live
      BY <1>3, <3>1 DEF OnePerKey
    <3>3. QED
      BY <1>1, <2>2, <3>2 DEF Ahead, Held
  <2>10. QED
    BY <1>1, <2>1, <2>2, <2>3, <2>6, <2>7, <2>8, <2>9, RunStep, SameBudget DEF IInv, Searched, Cutting
<1>4. CASE sync[p].step = "update" /\ UNCHANGED linear /\ Goto(p, "find")
  <2>1. /\ sync' \in [Syncs -> Sync] /\ Others(p)
        /\ sync'[p].step = "find" /\ sync'[p].todo = sync[p].todo
        /\ sync'[p].key = sync[p].key /\ sync'[p].target = sync[p].target
        /\ sync'[p].listed = sync[p].listed /\ sync'[p].memory = sync[p].memory
        /\ sync'[p].fetched = sync[p].fetched /\ sync'[p].index = sync[p].index
    BY <1>2, <1>4, GotoEffect DEF Steps
  <2>2. TypeOK'
    BY <1>1, <1>4, <2>1 DEF IInv, TypeOK
  <2>3. Fits(p)' /\ Pending(p)'
    BY <1>1, <1>2, <1>4, <2>1 DEF Fits, Pending, MadeFor, Steps
  <2>4. (Indexed(p) => Indexed(p)') /\ (Ahead(p) => Ahead(p)')
    BY <1>1, <1>4, <2>1 DEF Indexed, Ahead, Held
  <2>5. QED
    BY <1>1, <1>4, <2>1, <2>2, <2>3, <2>4, QuietStep, SameBudget DEF IInv, Searched, Cutting
<1>5. CASE UNCHANGED linear /\ NextIssue(p)
  <2>1. Mono /\ Unmade' /\ Links' /\ Versions'
    BY <1>1, <1>2, <1>5 DEF Mono, IInv, TypeOK, Unmade, Links, MadeFor, Versions
  <2>2. \A k \in sync[p].todo, i \in 1..made' :
          linear'[i].key = k => linear'[i].version <= sync[p].listed[k]
    BY <1>1, <1>2, <1>5, Fields DEF Pending
  <2>3. /\ linear' \in [Ids -> Issue] /\ live' \subseteq Ids
        /\ made' \in 0..MaxIssues /\ budget' \in [Faults -> Nat] /\ Cutting
    BY <1>1, <1>2, <1>5, SameBudget DEF TypeOK
  <2>4. sync[p].step \in Steps \ {"idle", "waiting", "locked", "next"}
    BY <1>1 DEF Steps
  <2>5. Uncut' =>
          /\ OnePerKey'
          /\ \A i \in sync[p].index, j \in live' :
               linear'[i].key = linear'[j].key => i = j
          /\ sync[p].fetched =>
               \A i \in live' \ sync[p].index : linear'[i].key \notin sync[p].todo
    BY <1>1, <1>5, <2>3 DEF IInv, Searched, OnePerKey, Indexed, Cutting
  <2>6. QED
    BY <1>1, <1>5, <2>1, <2>2, <2>3, <2>4, <2>5, GivenUp
<1>6. QED
  BY <1>3, <1>4, <1>5 DEF UpdateMapped, UpdateFound, At

LEMMA CreatedEffect ==
  ASSUME IInv, NEW p \in Syncs, sync[p].step = "create", Created(p),
         UNCHANGED <<plane, mappings>>
  PROVE  /\ made + 1 \in Ids /\ made' = made + 1 /\ made + 1 \notin 1..made
         /\ live' = live \cup {made + 1} /\ live' \subseteq Ids
         /\ linear' \in [Ids -> Issue]
         /\ linear'[made + 1].key = sync[p].key
         /\ \A i \in Ids \ {made + 1} : linear'[i] = linear[i]
         /\ \A i \in Ids : linear'[i].version >= linear[i].version
         /\ Mono /\ Unmade' /\ Links' /\ Versions'
         /\ OnePerKey /\ Indexed(p) => OnePerKey'
         /\ \A k \in Keys : k \in sync[p].todo \/ k = sync[p].key =>
              \A i \in 1..made' : linear'[i].key = k
                                 => linear'[i].version <= sync[p].listed[k]
<1> DEFINE n == made + 1
           key == sync[p].key
           v == sync[p].listed[key]
<1>1. TypeOK /\ Fits(p) /\ Pending(p) /\ Unmade /\ Links /\ Versions
  BY DEF IInv
<1>2. key # NoKey /\ key \in Keys /\ key \notin sync[p].todo
  BY <1>1, Fields DEF Fits, Steps
<1>3. made \in Nat /\ MaxIssues \in Nat /\ made < MaxIssues /\ made' = n
  BY <1>1, Fields DEF Created
<1>4. /\ n \in Ids /\ n \notin 1..made /\ 1..made \subseteq Ids
      /\ 1..made' = (1..made) \cup {n}
      /\ linear \in [Ids -> Issue] /\ live \subseteq 1..made
  <2>1. n \in Ids /\ n \notin 1..made /\ 1..made \subseteq Ids
    BY <1>3 DEF Ids
  <2>2. \A i : i \in 1..made' <=> i \in (1..made) \cup {n}
    BY <1>3
  <2>3. QED
    BY <1>1, <2>1, <2>2 DEF TypeOK, Unmade
<1>5. v \in 0..MaxEdits /\ MaxEdits \in Nat /\ v <= plane[key]
  BY <1>1, <1>2, Fields DEF Pending
<1>6. /\ linear' = [linear EXCEPT ![n] = [key |-> key, version |-> v]]
      /\ live' = live \cup {n}
  BY DEF Created, Version
<1> HIDE DEF n, key, v
<1>7. [key |-> key, version |-> v] \in Issue
  BY <1>2, <1>5 DEF Issue
<1>8. /\ linear' \in [Ids -> Issue]
      /\ linear'[n].key = key /\ linear'[n].version = v
      /\ \A i \in Ids \ {n} : linear'[i] = linear[i]
  BY <1>4, <1>6, <1>7
<1>9. live' \subseteq Ids /\ live' \subseteq 1..made'
  BY <1>4, <1>6
<1>10. linear[n].version = 0
  BY <1>1, <1>3, <1>4 DEF Unmade, n
<1>11. \A i \in Ids : linear'[i].version >= linear[i].version
  <2>1. \A i \in Ids : linear[i].version \in Nat
    BY <1>4, <1>5 DEF Issue
  <2>2. ASSUME NEW i \in Ids
        PROVE  linear'[i].version >= linear[i].version
    <3>1. CASE i = n
      BY <3>1, <1>5, <1>8, <1>10
    <3>2. CASE i # n
      BY <3>2, <2>1, <1>8
    <3>3. QED
      BY <3>1, <3>2
  <2>3. QED
    BY <2>2
<1>12. Mono /\ Links'
  BY <1>1, <1>3, <1>4, <1>8 DEF Mono, Links, MadeFor, n
<1>13. Unmade'
  BY <1>1, <1>3, <1>4, <1>8, <1>9 DEF Unmade, n
<1>14. Versions'
  BY <1>1, <1>2, <1>4, <1>5, <1>8 DEF Versions
<1>15. OnePerKey /\ Indexed(p) => OnePerKey'
  <2> SUFFICES ASSUME OnePerKey, Indexed(p)
               PROVE  OnePerKey'
    OBVIOUS
  <2>1. \A i \in live : linear[i].key # key
    BY <1>1 DEF Indexed, Fits, key
  <2>2. \A i \in live : linear'[i] = linear[i] /\ i # n
    BY <1>4, <1>8
  <2>3. QED
    BY <1>6, <1>8, <2>1, <2>2 DEF OnePerKey
<1>16. \A k \in Keys : k \in sync[p].todo \/ k = key =>
         \A i \in 1..made' : linear'[i].key = k
                            => linear'[i].version <= sync[p].listed[k]
  <2>1. ASSUME NEW k \in Keys, k \in sync[p].todo \/ k = key,
               NEW i \in 1..made', linear'[i].key = k
        PROVE  linear'[i].version <= sync[p].listed[k]
    <3>1. CASE i = n
      BY <3>1, <2>1, <1>5, <1>8 DEF v
    <3>2. CASE i # n
      BY <3>2, <2>1, <1>1, <1>4, <1>8 DEF Pending, key
    <3>3. QED
      BY <3>1, <3>2
  <2>2. QED
    BY <2>1
<1>17. QED
  BY <1>3, <1>4, <1>6, <1>8, <1>9, <1>11, <1>12, <1>13, <1>14, <1>15, <1>16
  DEF n, key

LEMMA CreateStep ==
  ASSUME IInv, NEW p \in Syncs, CreateIssue(p)
  PROVE  IInv'
<1> DEFINE n == made + 1
           value == [sync[p] EXCEPT !.step = "save", !.target = n]
<1>1. /\ sync[p].step = "create" /\ Held(p) /\ Created(p) /\ Become(p, value)
      /\ UNCHANGED <<plane, mappings, budget>>
  BY DEF CreateIssue, At, Held
<1>2. sync[p] \in Sync /\ TypeOK /\ Fits(p) /\ Pending(p)
  BY Fields DEF IInv
<1>3. /\ n \in Ids /\ made' = n /\ n \notin 1..made
      /\ live' = live \cup {n} /\ live' \subseteq Ids
      /\ linear' \in [Ids -> Issue]
      /\ linear'[n].key = sync[p].key
      /\ \A i \in Ids \ {n} : linear'[i] = linear[i]
      /\ Mono /\ Unmade' /\ Links' /\ Versions'
      /\ OnePerKey /\ Indexed(p) => OnePerKey'
      /\ \A k \in Keys : k \in sync[p].todo \/ k = sync[p].key =>
           \A i \in 1..made' : linear'[i].key = k
                              => linear'[i].version <= sync[p].listed[k]
  BY <1>1, CreatedEffect
<1> HIDE DEF n
<1>4. /\ made \in Nat /\ 1..made \subseteq Ids /\ live \subseteq 1..made
      /\ n \in 1..MaxIssues /\ n \in 0..MaxIssues
      /\ 1..made \subseteq 1..made' /\ n \in 1..made' /\ made' \in 0..MaxIssues
      /\ n # 0
  BY <1>2, <1>3, Fields DEF IInv, Unmade, Ids, n
<1>5. value \in Sync
  BY <1>2, <1>4 DEF Sync, Steps
<1>6. /\ value.step = "save" /\ value.todo = sync[p].todo
      /\ value.key = sync[p].key /\ value.target = n
      /\ value.listed = sync[p].listed /\ value.memory = sync[p].memory
      /\ value.fetched = sync[p].fetched /\ value.index = sync[p].index
  BY <1>2 DEF Sync
<1> HIDE DEF value
<1>7. sync' \in [Syncs -> Sync] /\ sync'[p] = value /\ Others(p)
  BY <1>1, <1>2, <1>5, Changed
<1>8. TypeOK'
  BY <1>1, <1>3, <1>4, <1>7 DEF IInv, TypeOK
<1>9. \A i, k : MadeFor(i, k) => MadeFor(i, k)'
  BY <1>3, <1>4 DEF MadeFor
<1>10. Fits(p)'
  <2>1. MadeFor(sync[p].target, sync[p].key)'
    BY <1>3, <1>4, <1>6, <1>7 DEF MadeFor
  <2>2. QED
    <3>1. /\ sync'[p].step = "save"
          /\ sync'[p].key # NoKey /\ sync'[p].key \notin sync'[p].todo
          /\ sync'[p].fetched /\ sync'[p].index \subseteq 1..made'
          /\ \A k \in Keys : sync'[p].memory[k] # 0
                              => MadeFor(sync[p].memory[k], k)
      BY <1>1, <1>2, <1>4, <1>6, <1>7 DEF Fits, Steps
    <3>2. \A k \in Keys : sync'[p].memory[k] # 0 => MadeFor(sync[p].memory[k], k)'
      BY <1>6, <1>7, <1>9, <3>1 DEF MadeFor
    <3>3. QED
      BY <2>1, <3>1, <3>2 DEF Fits
<1>11. Pending(p)'
  BY <1>1, <1>2, <1>3, <1>6, <1>7 DEF Pending
<1>12. Indexed(p) => Indexed(p)'
  <2>1. sync[p].key \notin sync[p].todo /\ sync[p].index \subseteq 1..made
    BY <1>1, <1>2 DEF Fits, Steps
  <2>2. \A i \in 1..made : linear'[i] = linear[i]
    BY <1>3, <1>4
  <2>3. QED
    BY <1>1, <1>3, <1>4, <1>6, <1>7, <2>1, <2>2 DEF Indexed
<1>13. Indexed(p) /\ Ahead(p) => Ahead(p)'
  <2> SUFFICES ASSUME Indexed(p), Ahead(p)
               PROVE  Ahead(p)'
    OBVIOUS
  <2>1. \A k \in Keys : mappings[k] # 0 => mappings[k] # n
    BY <1>3 DEF IInv, Links, MadeFor
  <2>2. \A k \in Keys : mappings[k] # 0 =>
          /\ sync[p].memory[k] # 0
          /\ sync[p].memory[k] # mappings[k] => mappings[k] \notin live
    BY <1>1 DEF Ahead
  <2>3. sync[p].key \in Keys /\ sync[p].fetched
    BY <1>1, <1>2, Fields DEF Fits, Steps
  <2>4. sync[p].memory[sync[p].key] # 0
          => sync[p].memory[sync[p].key] \notin live
    BY <1>1, <1>2, <2>3 DEF Fits, MadeFor, Indexed
  <2>5. QED
    BY <1>1, <1>3, <1>6, <1>7, <2>1, <2>2, <2>4 DEF Ahead
<1>14. QED
  BY <1>1, <1>3, <1>7, <1>8, <1>10, <1>11, <1>12, <1>13, RunStep, SameBudget DEF IInv, Searched, Cutting

LEMMA FailStep ==
  ASSUME IInv, NEW p \in Syncs, RequestFails(p)
  PROVE  IInv'
<1>1. /\ sync[p].step \in {"update", "update_found", "create"} /\ Held(p)
      /\ Spend("failed") /\ NextIssue(p) /\ UNCHANGED <<plane, mappings>>
      /\ sync[p].step \in Steps \ {"idle", "waiting", "locked", "next"}
  BY DEF RequestFails, Held, Steps
<1>2. TypeOK /\ Fits(p) /\ Pending(p)
  BY DEF IInv
<1>3. budget' \in [Faults -> Nat] /\ Cutting
  BY <1>1, SpendEffect DEF Faults
<1>4. CASE UNCHANGED <<linear, live, made>>
  <2>1. Mono /\ Unmade' /\ Links' /\ Versions'
    BY <1>1, <1>2, <1>4 DEF Mono, IInv, TypeOK, Unmade, Links, MadeFor, Versions
  <2>2. \A k \in sync[p].todo, i \in 1..made' :
          linear'[i].key = k => linear'[i].version <= sync[p].listed[k]
    BY <1>1, <1>2, <1>4, Fields DEF Pending
  <2>3. linear' \in [Ids -> Issue] /\ live' \subseteq Ids /\ made' \in 0..MaxIssues
    BY <1>2, <1>4 DEF TypeOK
  <2>4. Uncut' =>
          /\ OnePerKey'
          /\ \A i \in sync[p].index, j \in live' :
               linear'[i].key = linear'[j].key => i = j
          /\ sync[p].fetched =>
               \A i \in live' \ sync[p].index : linear'[i].key \notin sync[p].todo
    BY <1>1, <1>3, <1>4 DEF IInv, Searched, OnePerKey, Indexed, Cutting
  <2>5. QED
    BY <1>1, <1>3, <1>4, <2>1, <2>2, <2>3, <2>4, GivenUp, SameBudget DEF IInv, Searched, Cutting
<1>5. CASE /\ sync[p].step # "create" /\ sync[p].target \in live
           /\ Updated(p) /\ UNCHANGED <<live, made>>
  <2>1. /\ linear' \in [Ids -> Issue]
        /\ \A i \in Ids : linear'[i].key = linear[i].key
        /\ Mono /\ Unmade' /\ Links' /\ Versions'
        /\ OnePerKey => OnePerKey'
        /\ \A k \in Keys : k \in sync[p].todo \/ k = sync[p].key =>
             \A i \in 1..made : linear'[i].key = k
                                => linear'[i].version <= sync[p].listed[k]
    BY <1>1, <1>5, UpdatedEffect
  <2>2. live' \subseteq Ids /\ made' \in 0..MaxIssues
    BY <1>2, <1>5 DEF TypeOK
  <2>3. \A k \in sync[p].todo, i \in 1..made' :
          linear'[i].key = k => linear'[i].version <= sync[p].listed[k]
    BY <1>2, <1>5, <2>1, Fields
  <2>4. Uncut' =>
          /\ OnePerKey'
          /\ \A i \in sync[p].index, j \in live' :
               linear'[i].key = linear'[j].key => i = j
          /\ sync[p].fetched =>
               \A i \in live' \ sync[p].index : linear'[i].key \notin sync[p].todo
    <3>1. sync[p].index \subseteq Ids /\ live \subseteq Ids
      BY <1>2, Fields DEF TypeOK
    <3>2. QED
      BY <1>1, <1>3, <1>5, <2>1, <3>1 DEF IInv, Searched, Indexed, Cutting
  <2>5. QED
    BY <1>1, <1>3, <1>5, <2>1, <2>2, <2>3, <2>4, GivenUp, SameBudget DEF IInv, Searched, Cutting
<1>6. CASE sync[p].step = "create" /\ Created(p)
  <2> DEFINE n == made + 1
  <2>1. /\ n \in Ids /\ made' = n /\ n \notin 1..made
        /\ live' = live \cup {n} /\ live' \subseteq Ids
        /\ linear' \in [Ids -> Issue]
        /\ linear'[n].key = sync[p].key
        /\ \A i \in Ids \ {n} : linear'[i] = linear[i]
        /\ Mono /\ Unmade' /\ Links' /\ Versions'
        /\ OnePerKey /\ Indexed(p) => OnePerKey'
        /\ \A k \in Keys : k \in sync[p].todo \/ k = sync[p].key =>
             \A i \in 1..made' : linear'[i].key = k
                                => linear'[i].version <= sync[p].listed[k]
    BY <1>1, <1>6, CreatedEffect
  <2> HIDE DEF n
  <2>2. /\ sync[p].key \notin sync[p].todo /\ sync[p].index \subseteq 1..made
        /\ 1..made \subseteq Ids /\ live \subseteq 1..made
        /\ sync[p].todo \subseteq Keys
    BY <1>2, <1>6, Fields DEF Fits, Steps, IInv, Unmade
  <2>3. made' \in 0..MaxIssues
    BY <1>2, <2>1, Fields DEF Ids
  <2>4. \A i \in 1..made : linear'[i] = linear[i]
    BY <2>1, <2>2
  <2>5. \A k \in sync[p].todo, i \in 1..made' :
          linear'[i].key = k => linear'[i].version <= sync[p].listed[k]
    BY <2>1, <2>2
  <2>6. Uncut' =>
          /\ OnePerKey'
          /\ \A i \in sync[p].index, j \in live' :
               linear'[i].key = linear'[j].key => i = j
          /\ sync[p].fetched =>
               \A i \in live' \ sync[p].index : linear'[i].key \notin sync[p].todo
    <3> SUFFICES ASSUME OnePerKey, Indexed(p)
                 PROVE  /\ \A i \in sync[p].index, j \in live' :
                             linear'[i].key = linear'[j].key => i = j
                        /\ sync[p].fetched =>
                             \A i \in live' \ sync[p].index :
                               linear'[i].key \notin sync[p].todo
      BY <1>3, <2>1 DEF IInv, Searched, Cutting
    <3>1. \A i \in sync[p].index : linear'[i] = linear[i] /\ linear[i].key # sync[p].key
      BY <1>6, <2>2, <2>4 DEF Indexed
    <3>2. \A i \in live : linear'[i] = linear[i]
      BY <2>2, <2>4
    <3>3. \A i \in sync[p].index, j \in live' :
            linear'[i].key = linear'[j].key => i = j
      BY <2>1, <3>1, <3>2 DEF Indexed
    <3>4. sync[p].fetched =>
            \A i \in live' \ sync[p].index : linear'[i].key \notin sync[p].todo
      BY <1>6, <2>1, <2>2, <3>2 DEF Indexed
    <3>5. QED
      BY <3>3, <3>4
  <2>7. \A k \in Keys : mappings[k] \in live' => mappings[k] \in live
    <3>1. \A k \in Keys : mappings[k] # n
      BY <2>1 DEF IInv, Links, MadeFor, Ids
    <3>2. QED
      BY <2>1, <3>1
  <2>8. QED
    BY <1>1, <1>3, <2>1, <2>3, <2>5, <2>6, <2>7, GivenUp, SameBudget DEF IInv, Searched, Cutting
<1>7. QED
  BY <1>4, <1>5, <1>6 DEF RequestFails, At

(***************************************************************************)
(* Saving, and the end of a run.                                           *)
(***************************************************************************)
LEMMA SaveEffect ==
  ASSUME IInv, NEW p \in Syncs, SaveMapping(p)
  PROVE  /\ sync' \in [Syncs -> Sync] /\ Others(p)
         /\ sync'[p].step = "next" /\ sync'[p].todo = sync[p].todo
         /\ sync'[p].key = NoKey /\ sync'[p].target = 0
         /\ sync'[p].listed = sync[p].listed
         /\ sync'[p].fetched = sync[p].fetched
         /\ sync'[p].index = sync[p].index
         /\ sync'[p].memory \in [Keys -> 0..MaxIssues]
         /\ sync'[p].memory[sync[p].key] = sync[p].target
         /\ \A k \in Keys \ {sync[p].key} : sync'[p].memory[k] = Known(p)[k]
         /\ \/ mappings' = sync'[p].memory /\ UNCHANGED budget
            \/ UNCHANGED mappings /\ Spend("failed")
<1> DEFINE key == sync[p].key
           memory == [Known(p) EXCEPT ![key] = sync[p].target]
           value == [sync[p] EXCEPT !.step = "next", !.key = NoKey,
                                    !.target = 0, !.memory = memory]
<1>1. /\ sync[p].step = "save" /\ Become(p, value)
      /\ \/ mappings' = memory /\ UNCHANGED budget
         \/ UNCHANGED mappings /\ Spend("failed")
  BY DEF SaveMapping, At
<1>2. /\ sync[p] \in Sync /\ TypeOK /\ Fits(p) /\ MaxIssues \in Nat
      /\ Known(p) \in [Keys -> 0..MaxIssues]
      /\ sync[p].target \in 0..MaxIssues /\ key \in Keys \cup {NoKey}
  BY <1>1, Fields, KnownMappings DEF IInv, Held
<1>3. key \in Keys
  BY <1>1, <1>2 DEF Fits, Steps
<1>4. /\ memory \in [Keys -> 0..MaxIssues] /\ memory[key] = sync[p].target
      /\ \A k \in Keys \ {key} : memory[k] = Known(p)[k]
  BY <1>2, <1>3
<1> HIDE DEF key, memory
<1>5. value \in Sync
  <2>1. "next" \in Steps /\ 0 \in 0..MaxIssues
    BY <1>2 DEF Steps
  <2>2. QED
    BY <1>2, <1>4, <2>1 DEF Sync
<1>6. /\ value.step = "next" /\ value.todo = sync[p].todo
      /\ value.key = NoKey /\ value.target = 0
      /\ value.listed = sync[p].listed /\ value.memory = memory
      /\ value.fetched = sync[p].fetched /\ value.index = sync[p].index
  BY <1>2 DEF Sync
<1> HIDE DEF value
<1>7. sync' \in [Syncs -> Sync] /\ sync'[p] = value /\ Others(p)
  BY <1>1, <1>2, <1>5, Changed
<1>8. QED
  BY <1>1, <1>4, <1>6, <1>7 DEF key

LEMMA SaveStep ==
  ASSUME IInv, NEW p \in Syncs, SaveMapping(p)
  PROVE  /\ IInv'
         /\ Uncut =>
              \A k \in Keys :
                mappings[k] # 0 /\ mappings'[k] # mappings[k] =>
                  /\ mappings[k] \notin live
                  /\ mappings'[k] # 0 /\ linear[mappings'[k]].key = k
<1>1. /\ sync[p].step = "save" /\ Held(p)
      /\ UNCHANGED <<plane, linear, live, made>>
  BY DEF SaveMapping, At, Held
<1>2. /\ TypeOK /\ Fits(p) /\ Pending(p) /\ Links /\ Unmade /\ Versions
      /\ sync[p].key \in Keys /\ NoKey \notin Keys
  BY <1>1, Fields, SyncAssumption DEF IInv, Fits, Steps
<1>3. /\ sync' \in [Syncs -> Sync] /\ Others(p)
      /\ sync'[p].step = "next" /\ sync'[p].todo = sync[p].todo
      /\ sync'[p].key = NoKey
      /\ sync'[p].listed = sync[p].listed
      /\ sync'[p].fetched = sync[p].fetched
      /\ sync'[p].index = sync[p].index
      /\ sync'[p].memory \in [Keys -> 0..MaxIssues]
      /\ sync'[p].memory[sync[p].key] = sync[p].target
      /\ \A k \in Keys \ {sync[p].key} : sync'[p].memory[k] = Known(p)[k]
      /\ \/ mappings' = sync'[p].memory /\ UNCHANGED budget
         \/ UNCHANGED mappings /\ Spend("failed")
  BY SaveEffect
<1>4. budget' \in [Faults -> Nat] /\ Cutting
  <2>1. CASE UNCHANGED budget
    BY <2>1, SameBudget
  <2>2. CASE Spend("failed")
    BY <2>2, SpendEffect DEF Faults
  <2>3. QED
    BY <2>1, <2>2, <1>3
<1>5. mappings' \in [Keys -> 0..MaxIssues]
  BY <1>2, <1>3 DEF TypeOK
<1>6. TypeOK'
  BY <1>1, <1>2, <1>3, <1>4, <1>5 DEF TypeOK
<1>7. Mono /\ Unmade' /\ Versions' /\ (OnePerKey => OnePerKey')
  BY <1>1, <1>2 DEF Mono, TypeOK, Unmade, Versions, OnePerKey
<1>8. MadeFor(sync[p].target, sync[p].key)
  BY <1>1, <1>2 DEF Fits
<1>9. \A k \in Keys : sync'[p].memory[k] # 0 => MadeFor(sync'[p].memory[k], k)
  BY <1>1, <1>3, <1>8, KnownMappings
<1>10. Links'
  <2>1. \A k \in Keys : mappings'[k] # 0 => MadeFor(mappings'[k], k)
    BY <1>2, <1>3, <1>9 DEF Links
  <2>2. QED
    BY <1>1, <2>1 DEF Links, MadeFor
<1>11. Fits(p)'
  BY <1>1, <1>2, <1>3, <1>9 DEF Fits, MadeFor, Steps
<1>12. Pending(p)'
  BY <1>1, <1>2, <1>3 DEF Pending
<1>13. Indexed(p) => Indexed(p)'
  <2>1. \A i \in live : linear[i].key # NoKey
    BY <1>2 DEF Unmade, Versions
  <2>2. QED
    BY <1>1, <1>3, <2>1 DEF Indexed
<1>14. ASSUME Uncut, NEW k \in Keys, mappings[k] # 0
       PROVE  /\ sync'[p].memory[k] # 0
              /\ sync'[p].memory[k] # mappings[k] => mappings[k] \notin live
  <2>1. /\ Known(p)[k] # 0
        /\ Known(p)[k] # mappings[k] => mappings[k] \notin live
    BY <1>1, <1>14, KnownMappings
  <2>2. CASE k = sync[p].key
    <3>1. sync[p].target # 0 /\ sync'[p].memory[k] = sync[p].target
      BY <1>2, <1>3, <1>8, <2>2 DEF MadeFor, TypeOK
    <3>2. Known(p)[k] # sync[p].target => Known(p)[k] \notin live
      BY <1>1, <1>14, <2>1, <2>2, KnownMappings
    <3>3. QED
      BY <2>1, <3>1, <3>2
  <2>3. CASE k # sync[p].key
    BY <1>3, <2>1, <2>3
  <2>4. QED
    BY <2>2, <2>3
<1>15. Uncut => Ahead(p)'
  <2> SUFFICES ASSUME Uncut
               PROVE  Ahead(p)'
    OBVIOUS
  <2>1. CASE mappings' = sync'[p].memory
    BY <1>3, <2>1 DEF Ahead
  <2>2. CASE UNCHANGED mappings
    BY <1>1, <1>3, <1>14, <2>2 DEF Ahead
  <2>3. QED
    BY <1>3, <2>1, <2>2
<1>16. IInv'
  BY <1>1, <1>3, <1>4, <1>6, <1>7, <1>10, <1>11, <1>12, <1>13, <1>15, RunStep
  DEF IInv, Searched, Cutting
<1>17. ASSUME Uncut, NEW k \in Keys, mappings[k] # 0, mappings'[k] # mappings[k]
       PROVE  /\ mappings[k] \notin live
              /\ mappings'[k] # 0 /\ linear[mappings'[k]].key = k
  <2>2. mappings' = sync'[p].memory
    BY <1>3, <1>17
  <2>3. QED
    BY <1>9, <1>14, <1>17, <2>2 DEF MadeFor
<1>18. QED
  BY <1>16, <1>17

(* A process that is killed before it has the lock.                        *)
LEMMA WaitingCrash ==
  ASSUME IInv, NEW p \in Syncs, ~Held(p), Become(p, Off),
         UNCHANGED <<plane, linear, live, made, mappings>>,
         budget' \in [Faults -> Nat], Cutting
  PROVE  IInv'
<1>1. /\ sync' \in [Syncs -> Sync] /\ sync'[p] = Off /\ NoKey \notin Keys
      /\ \A q \in Syncs \ {p} : sync'[q] = sync[q]
  BY OffEffect, SyncAssumption DEF IInv, Others
<1>2. TypeOK'
  BY <1>1 DEF IInv, TypeOK
<1>3. Unmade' /\ Links' /\ Versions' /\ (OnePerKey => OnePerKey')
  BY DEF IInv, Unmade, Links, MadeFor, Versions, OnePerKey
<1>4. OneRun'
  BY <1>1 DEF IInv, OneRun, Held, Off
<1>5. Fits(p)' /\ Pending(p)' /\ Indexed(p)' /\ Ahead(p)'
  BY <1>1 DEF Off, Unmapped, Fits, Pending, Indexed, Ahead, Held, Steps
<1>6. ASSUME NEW q \in Syncs \ {p}
      PROVE  /\ Fits(q)' /\ Pending(q)'
             /\ Indexed(q) => Indexed(q)'
             /\ Ahead(q) => Ahead(q)'
  <2>1. sync'[q] = sync[q] /\ Fits(q) /\ Pending(q)
    BY <1>1 DEF IInv
  <2>2. QED
    BY <2>1 DEF Fits, Pending, MadeFor, Indexed, Ahead, Held
<1>7. Uncut' => Searched'
  BY <1>3, <1>5, <1>6 DEF IInv, Searched, Cutting
<1>8. QED
  BY <1>2, <1>3, <1>4, <1>5, <1>6, <1>7 DEF IInv, Cutting

LEMMA EndStep ==
  ASSUME IInv, NEW p \in Syncs, Finish(p) \/ Crash(p)
  PROVE  IInv'
<1>1. /\ Become(p, Off) /\ UNCHANGED <<plane, linear, live, made, mappings>>
      /\ UNCHANGED budget \/ Spend("crashes")
  BY DEF Finish, Crash
<1>2. budget' \in [Faults -> Nat] /\ Cutting
  <2>1. CASE UNCHANGED budget
    BY <2>1, SameBudget
  <2>2. CASE Spend("crashes")
    BY <2>2, SpendEffect DEF Faults
  <2>3. QED
    BY <1>1, <2>1, <2>2
<1>3. CASE Held(p)
  BY <1>1, <1>2, <1>3, OffStep
<1>4. CASE ~Held(p)
  BY <1>1, <1>2, <1>4, WaitingCrash
<1>5. QED
  BY <1>3, <1>4

(***************************************************************************)
(* The invariant.                                                          *)
(***************************************************************************)
LEMMA InitInvariant == Init => IInv
<1> SUFFICES ASSUME Init
             PROVE  IInv
  OBVIOUS
<1>1. /\ MaxIssues \in Nat /\ MaxEdits \in Nat /\ NoKey \notin Keys
      /\ \A f \in Faults : Bound(f) \in Nat
      /\ Bound("cut") = MaxCut
  BY SyncAssumption DEF Faults, Bound
<1>2. TypeOK
  <2>1. sync \in [Syncs -> Sync]
    BY OffType DEF Init
  <2>2. budget \in [Faults -> Nat]
    BY <1>1 DEF Init
  <2>3. linear \in [Ids -> Issue]
    <3>1. [key |-> NoKey, version |-> 0] \in Issue
      BY <1>1 DEF Issue
    <3>2. QED
      BY <3>1 DEF Init
  <2>4. QED
    BY <1>1, <2>1, <2>2, <2>3 DEF Init, TypeOK, Unmapped
<1>3. \A p \in Syncs : sync[p] = Off
  BY DEF Init
<1>4. OneRun
  BY <1>3 DEF OneRun, Held, Off
<1>5. \A p \in Syncs : Fits(p) /\ Pending(p) /\ Indexed(p) /\ Ahead(p)
  <2>1. made = 0 /\ 1..made = {}
    BY DEF Init
  <2>2. QED
    BY <1>1, <1>3, <2>1 DEF Off, Unmapped, Fits, Pending, Indexed, Ahead, Held, Steps
<1>6. Unmade /\ Links /\ Versions /\ OnePerKey
  <2>1. made = 0 /\ 1..made = {} /\ live = {}
    BY DEF Init
  <2>2. \A i \in Ids : linear[i].version = 0
    BY DEF Init
  <2>3. \A k \in Keys : mappings[k] = 0
    BY DEF Init, Unmapped
  <2>4. QED
    BY <2>1, <2>2, <2>3 DEF Unmade, Links, Versions, OnePerKey
<1>7. Searched /\ budget["cut"] <= MaxCut
  <2>1. MaxCut \in Nat
    BY SyncAssumption
  <2>2. "cut" \in Faults
    BY DEF Faults
  <2>3. budget["cut"] = MaxCut
    BY <1>1, <2>2 DEF Init
  <2>4. QED
    BY <1>5, <1>6, <2>1, <2>3 DEF Searched
<1>8. QED
  BY <1>2, <1>4, <1>5, <1>6, <1>7 DEF IInv

LEMMA NextInvariant == IInv /\ [Next]_vars => IInv'
<1> SUFFICES ASSUME IInv, [Next]_vars
             PROVE  IInv'
  OBVIOUS
<1>1. CASE UNCHANGED vars
  BY <1>1 DEF vars, IInv, TypeOK, OneRun, Held, Fits, Pending, Unmade, Links,
              MadeFor, Versions, Uncut, Searched, OnePerKey, Indexed, Ahead
<1>2. ASSUME NEW k \in Keys, Edit(k)
      PROVE  IInv'
  BY <1>2, EditStep
<1>3. ASSUME NEW i \in Ids, Delete(i)
      PROVE  IInv'
  BY <1>3, DeleteStep
<1>4. ASSUME NEW p \in Syncs, Start(p) \/ AcquireLock(p)
      PROVE  IInv'
  BY <1>4, EntryStep
<1>5. ASSUME NEW p \in Syncs, List(p)
      PROVE  IInv'
  BY <1>5, ListStep
<1>6. ASSUME NEW p \in Syncs, NEW k \in Keys, Take(p, k)
      PROVE  IInv'
  BY <1>6, TakeStep
<1>7. ASSUME NEW p \in Syncs, UpdateMapped(p) \/ UpdateFound(p)
      PROVE  IInv'
  BY <1>7, UpdateStep
<1>8. ASSUME NEW p \in Syncs, Misjudged(p)
      PROVE  IInv'
  BY <1>8, MisjudgedStep
<1>9. ASSUME NEW p \in Syncs, Find(p)
      PROVE  IInv'
  BY <1>9, FindStep
<1>10. ASSUME NEW p \in Syncs, FetchPage(p) \/ PageFails(p)
       PROVE  IInv'
  BY <1>10, PageStep
<1>11. ASSUME NEW p \in Syncs, CreateIssue(p)
       PROVE  IInv'
  BY <1>11, CreateStep
<1>12. ASSUME NEW p \in Syncs, RequestFails(p)
       PROVE  IInv'
  BY <1>12, FailStep
<1>13. ASSUME NEW p \in Syncs, SaveMapping(p)
       PROVE  IInv'
  BY <1>13, SaveStep
<1>14. ASSUME NEW p \in Syncs, Finish(p) \/ Crash(p)
       PROVE  IInv'
  BY <1>14, EndStep
<1>15. QED
  BY <1>1, <1>2, <1>3, <1>4, <1>5, <1>6, <1>7, <1>8, <1>9, <1>10, <1>11, <1>12,
     <1>13, <1>14 DEF Next, RunSync

(* The inductive invariant of the synchronisation: one run at a time, what *)
(* a run holds in memory agrees with what Linear and the file hold, and no *)
(* version is from the future.                                             *)
THEOREM Invariance == Spec => []IInv
<1>1. Init => IInv
  BY InitInvariant
<1>2. IInv /\ [Next]_vars => IInv'
  BY NextInvariant
<1>3. QED
  BY <1>1, <1>2, PTL DEF Spec

(* The state of the synchronisation is always of its type.                 *)
THEOREM TypeCorrect == Spec => []TypeOK
<1>1. IInv => TypeOK
  BY DEF IInv
<1>2. QED
  BY <1>1, Invariance, PTL

(* Until a listing of Linear's issues is cut short, a Plane issue never    *)
(* has two Linear issues, whatever runs overlap, are killed or lose their  *)
(* answers and writes.                                                     *)
THEOREM NoDuplicates == Spec => []OnePerKeyUntilCut
<1>1. IInv => OnePerKeyUntilCut
  BY DEF IInv, Searched, OnePerKeyUntilCut
<1>2. QED
  BY <1>1, Invariance, PTL

(* Until then, the file of mappings leaves an issue only when it is gone,  *)
(* and for an issue of the same key.                                       *)
THEOREM MappingsStay == Spec => LinkStays
<1> DEFINE Stays ==
      \A k \in Keys :
        Uncut /\ mappings[k] # 0 /\ mappings'[k] # mappings[k] =>
          /\ mappings[k] \notin live
          /\ mappings'[k] # 0 /\ linear[mappings'[k]].key = k
<1>1. IInv /\ [Next]_vars => [Stays]_vars
  <2> SUFFICES ASSUME IInv, [Next]_vars
               PROVE  Stays
    OBVIOUS
  <2>1. ASSUME NEW p \in Syncs, SaveMapping(p)
        PROVE  Stays
    BY <2>1, SaveStep
  <2>2. CASE UNCHANGED mappings
    BY <2>2
  <2>3. (\E p \in Syncs : SaveMapping(p)) \/ UNCHANGED mappings
    BY DEF Next, RunSync, Edit, Delete, Start, AcquireLock, List, Take,
           UpdateMapped, Misjudged, Find, FetchPage, PageFails, UpdateFound,
           CreateIssue, RequestFails, Finish, Crash, vars
  <2>4. QED
    BY <2>1, <2>2, <2>3
<1>2. QED
  BY <1>1, Invariance, PTL DEF Spec, LinkStays

(* A Linear issue never goes back to an older version, with no condition   *)
(* on the listings.                                                        *)
THEOREM VersionsGrow == Spec => NoOlderVersion
<1> DEFINE Grow == \A i \in Ids : linear'[i].version >= linear[i].version
<1>1. IInv /\ [Next]_vars => [Grow]_vars
  <2> SUFFICES ASSUME IInv, [Next]_vars
               PROVE  Grow
    OBVIOUS
  <2>1. CASE UNCHANGED linear
    <3>1. \A i \in Ids : linear[i].version \in 0..MaxEdits /\ MaxEdits \in Nat
      BY Fields DEF IInv
    <3>2. QED
      BY <2>1, <3>1
  <2>2. ASSUME NEW p \in Syncs,
               sync[p].step \in {"update", "update_found"}, Updated(p),
               UNCHANGED <<plane, live, made, mappings>>
        PROVE  Grow
    BY <2>2, UpdatedEffect
  <2>3. ASSUME NEW p \in Syncs, sync[p].step = "create", Created(p),
               UNCHANGED <<plane, mappings>>
        PROVE  Grow
    BY <2>3, CreatedEffect
  <2>4. ASSUME NEW p \in Syncs, UpdateMapped(p) \/ UpdateFound(p)
        PROVE  Grow
    BY <2>1, <2>2, <2>4 DEF UpdateMapped, UpdateFound, At
  <2>5. ASSUME NEW p \in Syncs, CreateIssue(p)
        PROVE  Grow
    BY <2>3, <2>5 DEF CreateIssue, At
  <2>6. ASSUME NEW p \in Syncs, RequestFails(p)
        PROVE  Grow
    BY <2>1, <2>2, <2>3, <2>6 DEF RequestFails, At
  <2>7. \/ UNCHANGED linear
        \/ \E p \in Syncs : \/ UpdateMapped(p) \/ UpdateFound(p)
                            \/ CreateIssue(p) \/ RequestFails(p)
    BY DEF Next, RunSync, Edit, Delete, Start, AcquireLock, List, Take,
           Misjudged, Find, FetchPage, PageFails, SaveMapping, Finish, Crash, vars
  <2>8. QED
    BY <2>1, <2>4, <2>5, <2>6, <2>7
<1>2. QED
  BY <1>1, Invariance, PTL DEF Spec, NoOlderVersion
=============================================================================
