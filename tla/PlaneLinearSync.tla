--------------------------- MODULE PlaneLinearSync ---------------------------
(***************************************************************************)
(* The synchronisation of Plane issues to Linear: SyncEngine.run of        *)
(* ade/sync.py and its port RunSync of internal/ade/sync.go.  A run takes  *)
(* a lock, lists the assigned Plane issues and syncs each: it updates the  *)
(* Linear issue that is mapped, or else the one whose description carries  *)
(* the issue's marker, or else creates one, and saves the mapping.         *)
(*                                                                         *)
(* The Python runs read the file of mappings at every use; the Go runs     *)
(* read it once and keep it in memory, a write that failed included.  Both *)
(* may share one state directory.                                          *)
(*                                                                         *)
(* Linear and Plane are external, seen through the requests the code makes.*)
(* A request that fails may have been carried out with its answer lost; it *)
(* is carried out, if ever, before the code gives up on it.  A page of     *)
(* Linear's issues is one issue here (100 in the code), in any order.      *)
(***************************************************************************)
EXTENDS Integers

CONSTANTS
  Keys,       \* the assigned Plane issues, by their source key
  NoKey,
  Syncs,      \* the processes that may run a sync at a time
  Remembering, \* those that keep the mappings in memory
  MaxIssues,  \* bound: how many Linear issues are ever created
  MaxEdits,   \* bound: how often one Plane issue is edited
  MaxDeletes, \* bound: how many Linear issues people delete
  MaxCrashes, \* bound: how many syncs are killed
  MaxFailed,  \* bound: how many requests and writes fail
  MaxCut      \* bound: how many listings of Linear's issues fail

ASSUME SyncAssumption ==
  /\ NoKey \notin Keys
  /\ Remembering \subseteq Syncs
  /\ {MaxIssues, MaxEdits, MaxDeletes, MaxCrashes, MaxFailed, MaxCut} \subseteq Nat

VARIABLES
  plane,    \* the version of each Plane issue
  linear,   \* the Linear issues, in order of creation
  live,     \* those that were not deleted
  made,     \* how many Linear issues were created
  mappings, \* mappings.json: the Linear issue of each key; 0: none
  sync,     \* each sync process
  budget    \* what is left of the bounds on faults

vars == <<plane, linear, live, made, mappings, sync, budget>>

Faults == {"deletes", "crashes", "failed", "cut"}
Bound(f) == CASE f = "deletes" -> MaxDeletes [] f = "crashes" -> MaxCrashes
              [] f = "failed" -> MaxFailed [] f = "cut" -> MaxCut

Ids == 1..MaxIssues
Issue == [key : Keys \cup {NoKey}, version : 0..MaxEdits]

Steps == {"idle", "waiting", "locked", "next", "update", "find", "page",
          "update_found", "create", "save"}

Sync == [step   : Steps,
         todo   : SUBSET Keys,             \* what is left of the Plane listing
         key    : Keys \cup {NoKey},       \* the issue being synced
         target : 0..MaxIssues,            \* the Linear issue it goes to
         listed : [Keys -> 0..MaxEdits],   \* the versions that were listed
         memory : [Keys -> 0..MaxIssues],  \* the mappings in memory
         fetched : BOOLEAN,                \* sourceIndex is not nil
         index   : SUBSET Ids]             \* the issues in sourceIndex

TypeOK ==
  /\ plane \in [Keys -> 0..MaxEdits]
  /\ linear \in [Ids -> Issue]
  /\ live \subseteq Ids
  /\ made \in 0..MaxIssues
  /\ mappings \in [Keys -> 0..MaxIssues]
  /\ sync \in [Syncs -> Sync]
  /\ budget \in [Faults -> Nat]

Unmapped == [k \in Keys |-> 0]

Off == [step |-> "idle", todo |-> {}, key |-> NoKey, target |-> 0,
        listed |-> [k \in Keys |-> 0], memory |-> Unmapped,
        fetched |-> FALSE, index |-> {}]

Init ==
  /\ plane = [k \in Keys |-> 0]
  /\ linear = [i \in Ids |-> [key |-> NoKey, version |-> 0]]
  /\ live = {}
  /\ made = 0
  /\ mappings = Unmapped
  /\ sync = [p \in Syncs |-> Off]
  /\ budget = [f \in Faults |-> Bound(f)]

At(p, step) == sync[p].step = step
Become(p, value) == sync' = [sync EXCEPT ![p] = value]
Goto(p, step) == Become(p, [sync[p] EXCEPT !.step = step])

(* What the run takes for the mappings when it needs them.                 *)
Known(p) == IF p \in Remembering THEN sync[p].memory ELSE mappings

(* The end of one issue, synced or recorded as an error.                   *)
NextIssue(p) ==
  Become(p, [sync[p] EXCEPT !.step = "next", !.key = NoKey, !.target = 0])

Spend(kind) ==
  /\ budget[kind] > 0
  /\ budget' = [budget EXCEPT ![kind] = @ - 1]

(***************************************************************************)
(* People and schedules.                                                   *)
(***************************************************************************)
Edit(k) ==
  /\ plane[k] < MaxEdits
  /\ plane' = [plane EXCEPT ![k] = @ + 1]
  /\ UNCHANGED <<linear, live, made, mappings, sync, budget>>

Delete(i) ==
  /\ i \in live
  /\ Spend("deletes")
  /\ live' = live \ {i}
  /\ UNCHANGED <<plane, linear, made, mappings, sync>>

(* The timer, or somebody by hand.                                         *)
Start(p) ==
  /\ At(p, "idle")
  /\ Goto(p, "waiting")
  /\ UNCHANGED <<plane, linear, live, made, mappings, budget>>

(***************************************************************************)
(* RunSync.                                                                *)
(***************************************************************************)
(* Mutant: the run does not wait for the one before it.                    *)
AcquireLockNoWait(p) ==
  /\ At(p, "waiting")
  /\ Goto(p, "locked")
  /\ UNCHANGED <<plane, linear, live, made, mappings, budget>>

(* Lock(state.LockPath): flock, held until the run has ended.              *)
AcquireLock(p) ==
  /\ At(p, "waiting")
  /\ \A q \in Syncs : sync[q].step \in {"idle", "waiting"}
  /\ Goto(p, "locked")
  /\ UNCHANGED <<plane, linear, live, made, mappings, budget>>

(* The Plane issues and the mappings, or the end of the run.               *)
List(p) ==
  /\ At(p, "locked")
  /\ \/ /\ Become(p, [sync[p] EXCEPT !.step = "next", !.todo = Keys,
                                     !.listed = plane, !.memory = mappings])
        /\ UNCHANGED budget
     \/ Spend("failed") /\ Become(p, Off)
  /\ UNCHANGED <<plane, linear, live, made, mappings>>

(* inputForIssue may have to ask Linear too, and its failure ends the issue.*)
Take(p, k) ==
  /\ At(p, "next") /\ k \in sync[p].todo
  /\ LET rest == [sync[p] EXCEPT !.todo = @ \ {k}, !.memory = Known(p)]
         id   == Known(p)[k]
     IN \/ /\ Become(p, [rest EXCEPT !.key = k, !.target = id,
                           !.step = IF id # 0 THEN "update" ELSE "find"])
           /\ UNCHANGED budget
        \/ Spend("failed") /\ Become(p, rest)
  /\ UNCHANGED <<plane, linear, live, made, mappings>>

Version(p) == sync[p].listed[sync[p].key]

Updated(p) == linear' = [linear EXCEPT ![sync[p].target].version = Version(p)]

(* Mutant: a mapped issue that is gone is an error.                        *)
UpdateMappedGivesUp(p) ==
  /\ At(p, "update")
  /\ IF sync[p].target \in live
     THEN Updated(p) /\ Goto(p, "save")
     ELSE UNCHANGED linear /\ NextIssue(p)
  /\ UNCHANGED <<plane, live, made, mappings, budget>>

(* updateIssue of the mapped issue; "not found" leads to a search.         *)
UpdateMapped(p) ==
  /\ At(p, "update")
  /\ IF sync[p].target \in live
     THEN Updated(p) /\ Goto(p, "save")
     ELSE UNCHANGED linear /\ Goto(p, "find")
  /\ UNCHANGED <<plane, live, made, mappings, budget>>

(* An answer that is an error but reads like "not found".                  *)
Misjudged(p) ==
  /\ At(p, "update")
  /\ Spend("failed")
  /\ Goto(p, "find")
  /\ UNCHANGED <<plane, linear, live, made, mappings>>

(* Mutant: without a mapping the issue is created, and never looked for.   *)
FindNothing(p) ==
  /\ At(p, "find")
  /\ Goto(p, "create")
  /\ UNCHANGED <<plane, linear, live, made, mappings, budget>>

(* FindBySourceKey: the index is made once in a run, on first use.         *)
Find(p) ==
  /\ At(p, "find")
  /\ \/ /\ ~sync[p].fetched
        /\ Become(p, [sync[p] EXCEPT !.step = "page", !.fetched = TRUE])
     \/ /\ sync[p].fetched
        /\ \E i \in sync[p].index :
             /\ linear[i].key = sync[p].key
             /\ Become(p, [sync[p] EXCEPT !.step = "update_found", !.target = i])
     \/ /\ sync[p].fetched
        /\ \A i \in sync[p].index : linear[i].key # sync[p].key
        /\ Goto(p, "create")
  /\ UNCHANGED <<plane, linear, live, made, mappings, budget>>

(* One page; two issues with one marker are an error.                      *)
FetchPage(p) ==
  /\ At(p, "page")
  /\ LET index == sync[p].index
     IN \/ live \subseteq index /\ Goto(p, "find")
        \/ \E i \in live \ index :
             IF \E j \in index : linear[j].key = linear[i].key
             THEN NextIssue(p)
             ELSE Become(p, [sync[p] EXCEPT !.index = @ \cup {i},
                               !.step = IF live \subseteq index \cup {i}
                                        THEN "find" ELSE "page"])
  /\ UNCHANGED <<plane, linear, live, made, mappings, budget>>

(* A page cannot be had: the issue is an error, the index stays as it is.  *)
PageFails(p) ==
  /\ At(p, "page")
  /\ Spend("cut")
  /\ NextIssue(p)
  /\ UNCHANGED <<plane, linear, live, made, mappings>>

(* The issue that was found may have been deleted meanwhile: an error.     *)
UpdateFound(p) ==
  /\ At(p, "update_found")
  /\ IF sync[p].target \in live
     THEN Updated(p) /\ Goto(p, "save")
     ELSE UNCHANGED linear /\ NextIssue(p)
  /\ UNCHANGED <<plane, live, made, mappings, budget>>

Created(p) ==
  /\ made < MaxIssues
  /\ made' = made + 1
  /\ linear' = [linear EXCEPT ![made + 1] = [key |-> sync[p].key,
                                             version |-> Version(p)]]
  /\ live' = live \cup {made + 1}

CreateIssue(p) ==
  /\ At(p, "create")
  /\ Created(p)
  /\ Become(p, [sync[p] EXCEPT !.step = "save", !.target = made + 1])
  /\ UNCHANGED <<plane, mappings, budget>>

(* A request fails, before or after Linear carried it out.                 *)
RequestFails(p) ==
  /\ sync[p].step \in {"update", "update_found", "create"}
  /\ Spend("failed")
  /\ \/ UNCHANGED <<linear, live, made>>
     \/ /\ ~At(p, "create") /\ sync[p].target \in live
        /\ Updated(p) /\ UNCHANGED <<live, made>>
     \/ At(p, "create") /\ Created(p)
  /\ NextIssue(p)
  /\ UNCHANGED <<plane, mappings>>

(* save_mapping changes one of the mappings and then writes all of them;   *)
(* when the write fails, only a map in memory keeps the change.            *)
SaveMapping(p) ==
  /\ At(p, "save")
  /\ LET memory == [Known(p) EXCEPT ![sync[p].key] = sync[p].target]
     IN /\ Become(p, [sync[p] EXCEPT !.step = "next", !.key = NoKey,
                                     !.target = 0, !.memory = memory])
        /\ \/ mappings' = memory /\ UNCHANGED budget
           \/ UNCHANGED mappings /\ Spend("failed")
  /\ UNCHANGED <<plane, linear, live, made>>

Finish(p) ==
  /\ At(p, "next") /\ sync[p].todo = {}
  /\ Become(p, Off)
  /\ UNCHANGED <<plane, linear, live, made, mappings, budget>>

Crash(p) ==
  /\ ~At(p, "idle")
  /\ Spend("crashes")
  /\ Become(p, Off)
  /\ UNCHANGED <<plane, linear, live, made, mappings>>

(***************************************************************************)
(* The specification.                                                      *)
(***************************************************************************)
RunSync(p) ==
  \/ AcquireLock(p) \/ List(p)
  \/ \E k \in Keys : Take(p, k)
  \/ UpdateMapped(p) \/ Misjudged(p) \/ Find(p) \/ FetchPage(p) \/ PageFails(p)
  \/ UpdateFound(p) \/ CreateIssue(p) \/ RequestFails(p)
  \/ SaveMapping(p) \/ Finish(p)

Next ==
  \/ \E k \in Keys : Edit(k)
  \/ \E i \in Ids : Delete(i)
  \/ \E p \in Syncs : Start(p) \/ RunSync(p) \/ Crash(p)

Spec == Init /\ [][Next]_vars

(* The timer fires three times a day for ever; requests have a timeout, so *)
(* a run goes on, and some run gets the lock when it is free.              *)
Fairness ==
  /\ WF_vars(\E p \in Syncs : Start(p))
  /\ WF_vars(\E p \in Syncs : RunSync(p))

FairSpec == Spec /\ Fairness

(***************************************************************************)
(* Properties.                                                             *)
(***************************************************************************)
(* A Linear issue that carries the marker is found before another is made  *)
(* (docs/ade-plane-linear-sync.md): whatever answers and writes are lost,  *)
(* and whichever runs are killed or overlap, a Plane issue has at most one *)
(* Linear issue.                                                           *)
OnePerKey == \A i, j \in live : linear[i].key = linear[j].key => i = j

(* No listing of Linear's issues has been cut short so far.                *)
Uncut == budget["cut"] = MaxCut

OnePerKeyUntilCut == Uncut => OnePerKey

(* A mapping leads to an issue made for its key, and is moved to another   *)
(* one only when the issue it led to is gone, while listings are whole.    *)
LinkStays ==
  [][\A k \in Keys :
       Uncut /\ mappings[k] # 0 /\ mappings'[k] # mappings[k] =>
         /\ mappings[k] \notin live
         /\ mappings'[k] # 0 /\ linear[mappings'[k]].key = k]_vars

(* A Linear issue never goes back to an older version of its Plane issue,  *)
(* although a run writes what it listed before it synced other issues.     *)
NoOlderVersion ==
  [][\A i \in Ids : linear'[i].version >= linear[i].version]_vars

Synced(k) ==
  /\ mappings[k] \in live
  /\ linear[mappings[k]].key = k
  /\ linear[mappings[k]].version = plane[k]

(* When faults, deletions and edits come to an end, so do differences: an  *)
(* issue whose mapping leads to a live Linear issue gets its last version, *)
(* and so does every issue unless, after a listing that was cut short, two *)
(* live Linear issues carry one marker: every later listing fails on them, *)
(* and an issue that must be looked for may be an error for good.          *)
Converges ==
  <>[](\A k \in Keys : OnePerKey \/ mappings[k] \in live => Synced(k))

(***************************************************************************)
(* The inductive invariant behind the safety properties.                   *)
(***************************************************************************)
Held(p) == sync[p].step \notin {"idle", "waiting"}

OneRun == \A p, q \in Syncs : Held(p) /\ Held(q) => p = q

(* Every id in use was given out for the key it is used for.               *)
MadeFor(i, k) == i \in 1..made /\ linear[i].key = k

Fits(p) ==
  LET s == sync[p]
  IN /\ s.step \in {"idle", "waiting", "locked"}
          => s.todo = {} /\ s.key = NoKey /\ ~s.fetched
     /\ s.step = "next" => s.key = NoKey
     /\ s.step \in Steps \ {"idle", "waiting", "locked", "next"}
          => s.key # NoKey /\ s.key \notin s.todo
     /\ s.step \in {"page", "update_found", "create"} => s.fetched
     /\ s.step \in {"update", "update_found", "save"} => MadeFor(s.target, s.key)
     /\ s.step = "update" => s.target = s.memory[s.key]
     /\ ~s.fetched => s.index = {}
     /\ s.index \subseteq 1..made
     /\ \A k \in Keys : s.memory[k] # 0 => MadeFor(s.memory[k], k)

Links == \A k \in Keys : mappings[k] # 0 => MadeFor(mappings[k], k)

Unmade ==
  /\ live \subseteq 1..made
  /\ \A i \in Ids : i > made => linear[i].version = 0

(* No version is from the future.                                          *)
Versions ==
  \A i \in 1..made : linear[i].key \in Keys
                      /\ linear[i].version <= plane[linear[i].key]

(* What a run has still to write is no older than what Linear has.         *)
Pending(p) ==
  LET s == sync[p]
  IN \A k \in Keys : k \in s.todo \/ k = s.key =>
       /\ s.listed[k] <= plane[k]
       /\ \A i \in 1..made :
            linear[i].key = k => linear[i].version <= s.listed[k]

(* An index holds no stranger to a live issue, and once it was made whole, *)
(* it lacks only what the run itself has created since.                    *)
Indexed(p) ==
  LET s == sync[p]
  IN /\ \A i \in s.index, j \in live : linear[i].key = linear[j].key => i = j
     /\ s.fetched /\ s.step # "page" =>
          \A i \in live \ s.index :
            /\ linear[i].key \notin s.todo
            /\ s.step # "save" => linear[i].key # s.key
     /\ s.step = "create" => \A i \in s.index : linear[i].key # s.key

(* The mappings in memory are ahead of the file only by dead issues.       *)
Ahead(p) ==
  LET s == sync[p]
  IN /\ Held(p) /\ s.step # "locked" =>
          \A k \in Keys : mappings[k] # 0 =>
            /\ s.memory[k] # 0
            /\ s.memory[k] # mappings[k] => mappings[k] \notin live
     /\ s.step = "save" /\ s.memory[s.key] \notin {0, s.target}
          => s.memory[s.key] \notin live

(* What holds until a listing is cut short.                                *)
Searched ==
  /\ OnePerKey
  /\ \A p \in Syncs : Indexed(p) /\ Ahead(p)

IInv ==
  /\ TypeOK
  /\ OneRun
  /\ \A p \in Syncs : Fits(p) /\ Pending(p)
  /\ Unmade
  /\ Links
  /\ Versions
  /\ budget["cut"] <= MaxCut
  /\ Uncut => Searched
=============================================================================
