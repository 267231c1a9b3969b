----------------------------- MODULE LocalDeploy -----------------------------
(***************************************************************************)
(* Deployments of local commits (internal/ade/server.go and the scripts    *)
(* agent-environment-local-deploy ...): a monitor in the management server *)
(* sees that HEAD moved and calls the trigger, which records the commit    *)
(* and starts a worker in a unit of its own.  The worker builds the commit,*)
(* installs it path by path, restarts the very server that asked for it    *)
(* and puts everything back if that server is not healthy.                 *)
(*                                                                         *)
(* A restart ends what runs in the server's control group, its trigger     *)
(* included, and begins a new monitor.  Commits are numbered as HEAD meets *)
(* them, and HEAD does not go back; 0 is the version of the first install. *)
(* Tools may fail anywhere; faults are kills, crashes and lost writes.     *)
(***************************************************************************)
EXTENDS Integers

CONSTANTS
  MaxCommits,  \* bound: commits that HEAD moves to
  MaxPaths,    \* paths of the runtime; the last is the manifest
  MaxFaults    \* bound: kills, crashes, lost records, paths not restored

VARIABLES
  named,      \* whether the first install names its commit (source_root)
  head,       \* HEAD of the repository
  installed,  \* the version that is at each path
  service,    \* the server: whether it is up, and the paths it started from
  noted,      \* deployedSHA of its monitor
  trigger,    \* the trigger its monitor waits for
  record,     \* the status file of each commit
  worker,     \* the worker of each commit
  faults      \* how many faults there were

vars == <<named, head, installed, service, noted, trigger, record, worker,
          faults>>

Commits == 1..MaxCommits
Paths == 1..MaxPaths
None == -1  \* no commit, or nothing at a path
Versions == 0..MaxCommits \cup {None}

Idle == [step |-> "none", next |-> 1, backup |-> [p \in Paths |-> None],
         harmed |-> FALSE]

(* The steps at which a worker has the lock.                               *)
Holding == {"checking", "building", "copying", "probing", "restoring"}

NoTrigger == [step |-> "none", commit |-> None]

Final == {"succeeded", "skipped", "failed", "broken"}

Worker == [step   : {"none", "waiting"} \cup Holding,
           next   : 1..(MaxPaths + 1),
           backup : [Paths -> Versions],
           harmed : BOOLEAN]  \* rollback_failed

TypeOK ==
  /\ named \in BOOLEAN
  /\ head \in 0..MaxCommits
  /\ installed \in [Paths -> Versions]
  /\ service \in [up : BOOLEAN, files : [Paths -> Versions]]
  /\ noted \in Versions
  /\ trigger \in [step : {"none", "asked", "recorded"}, commit : Versions]
  /\ record \in [Commits -> {"none", "queued", "running"} \cup Final]
  /\ worker \in [Commits -> Worker]
  /\ faults \in 0..MaxFaults

Init ==
  /\ named \in BOOLEAN
  /\ head = 0
  /\ installed = [p \in Paths |-> 0]
  /\ service = [up |-> TRUE, files |-> installed]
  /\ noted = 0
  /\ trigger = NoTrigger
  /\ record = [c \in Commits |-> "none"]
  /\ worker = [c \in Commits |-> Idle]
  /\ faults = 0

(***************************************************************************)
(* The repository, the monitor and the trigger.                            *)
(***************************************************************************)
Commit ==
  /\ head < MaxCommits
  /\ head' = head + 1
  /\ UNCHANGED <<named, installed, service, noted, trigger, record, worker,
                 faults>>

(* A tick, or the look at HEAD before the first.  A monitor that does not  *)
(* know what is deployed takes HEAD for it.                                *)
See ==
  /\ service.up /\ trigger = NoTrigger
  /\ noted # head
  /\ noted' = head
  /\ trigger' = IF noted = None THEN NoTrigger
                ELSE [step |-> "asked", commit |-> head]
  /\ UNCHANGED <<named, head, installed, service, record, worker, faults>>

(* Mutant: what was recorded before is not looked at.                      *)
EnqueueAgain ==
  /\ trigger.step = "asked"
  /\ record' = [record EXCEPT ![trigger.commit] = "queued"]
  /\ trigger' = [trigger EXCEPT !.step = "recorded"]
  /\ UNCHANGED <<named, head, installed, service, noted, worker, faults>>

(* A commit is attempted once, whatever became of it.                      *)
Enqueue ==
  /\ trigger.step = "asked"
  /\ IF record[trigger.commit] = "none"
     THEN /\ record' = [record EXCEPT ![trigger.commit] = "queued"]
          /\ trigger' = [trigger EXCEPT !.step = "recorded"]
     ELSE trigger' = NoTrigger /\ UNCHANGED record
  /\ UNCHANGED <<named, head, installed, service, noted, worker, faults>>

(* The trigger does not get to its record.  HEAD stays noted.              *)
EnqueueFails ==
  /\ trigger.step = "asked" /\ faults < MaxFaults
  /\ faults' = faults + 1
  /\ trigger' = NoTrigger
  /\ UNCHANGED <<named, head, installed, service, noted, record, worker>>

(* systemd-run starts the unit of this commit, or does not.                *)
Launch ==
  /\ trigger.step = "recorded"
  /\ \/ /\ worker[trigger.commit] = Idle
        /\ worker' = [worker EXCEPT ![trigger.commit].step = "waiting"]
        /\ UNCHANGED record
     \/ /\ record' = [record EXCEPT ![trigger.commit] = "failed"]
        /\ UNCHANGED worker
  /\ trigger' = NoTrigger
  /\ UNCHANGED <<named, head, installed, service, noted, faults>>

(***************************************************************************)
(* The worker of commit c.                                                 *)
(***************************************************************************)
(* The server starts from what is installed, and its monitor takes the     *)
(* commit of the manifest for what is deployed.                            *)
Started ==
  /\ service' = [up |-> installed[MaxPaths] # None, files |-> installed]
  /\ noted' = IF installed[MaxPaths] = 0 /\ ~named THEN None
              ELSE installed[MaxPaths]
  /\ trigger' = NoTrigger

NotStarted ==
  /\ service' = [service EXCEPT !.up = FALSE]
  /\ trigger' = NoTrigger
  /\ UNCHANGED noted

(* finish: the last write of the record is only tried.                     *)
Finish(c, status) ==
  /\ worker' = [worker EXCEPT ![c] = Idle]
  /\ \/ record' = [record EXCEPT ![c] = status] /\ UNCHANGED faults
     \/ faults < MaxFaults /\ faults' = faults + 1 /\ UNCHANGED record

Lock(c) ==
  /\ worker[c].step = "waiting"
  /\ \A d \in Commits : worker[d].step \notin Holding
  /\ worker' = [worker EXCEPT ![c].step = "checking"]
  /\ record' = [record EXCEPT ![c] = "running"]
  /\ UNCHANGED <<named, head, installed, service, noted, trigger, faults>>

(* Mutant: a commit that is no longer HEAD is deployed all the same.       *)
CheckNothing(c) ==
  /\ worker[c].step = "checking"
  /\ worker' = [worker EXCEPT ![c].step = "building"]
  /\ UNCHANGED <<named, head, installed, service, noted, trigger, record,
                 faults>>

Check(c) ==
  /\ worker[c].step = "checking"
  /\ IF head = c
     THEN /\ worker' = [worker EXCEPT ![c].step = "building"]
          /\ UNCHANGED <<record, faults>>
     ELSE Finish(c, "skipped")
  /\ UNCHANGED <<named, head, installed, service, noted, trigger>>

(* The release is built next to the others, and all paths are saved.       *)
Build(c) ==
  /\ worker[c].step = "building"
  /\ worker' = [worker EXCEPT ![c].step = "copying", ![c].backup = installed]
  /\ UNCHANGED <<named, head, installed, service, noted, trigger, record,
                 faults>>

BuildFails(c) ==
  /\ worker[c].step \in {"checking", "building"}
  /\ Finish(c, "failed")
  /\ UNCHANGED <<named, head, installed, service, noted, trigger>>

Copy(c) ==
  /\ worker[c].step = "copying" /\ worker[c].next <= MaxPaths
  /\ installed' = [installed EXCEPT ![worker[c].next] = c]
  /\ worker' = [worker EXCEPT ![c].next = @ + 1]
  /\ UNCHANGED <<named, head, service, noted, trigger, record, faults>>

Restart(c) ==
  /\ worker[c].step = "copying" /\ worker[c].next > MaxPaths
  /\ Started
  /\ worker' = [worker EXCEPT ![c].step = "probing"]
  /\ UNCHANGED <<named, head, installed, record, faults>>

Healthy(c) ==
  /\ worker[c].step = "probing" /\ service.up
  /\ Finish(c, "succeeded")
  /\ UNCHANGED <<named, head, installed, service, noted, trigger>>

(* A path that cannot be written, a restart that fails or a server that    *)
(* does not answer.                                                        *)
SwitchFails(c) ==
  /\ worker[c].step \in {"copying", "probing"}
  /\ \/ UNCHANGED <<service, noted, trigger>>
     \/ /\ worker[c].step = "copying" /\ worker[c].next > MaxPaths
        /\ NotStarted
  /\ worker' = [worker EXCEPT ![c].step = "restoring", ![c].next = 1]
  /\ UNCHANGED <<named, head, installed, record, faults>>

(***************************************************************************)
(* restore_previous.                                                       *)
(***************************************************************************)
RestorePath(c) ==
  /\ worker[c].step = "restoring" /\ worker[c].next <= MaxPaths
  /\ LET p == worker[c].next
     IN installed' = [installed EXCEPT ![p] = worker[c].backup[p]]
  /\ worker' = [worker EXCEPT ![c].next = @ + 1]
  /\ UNCHANGED <<named, head, service, noted, trigger, record, faults>>

(* The path cannot be removed, or is removed and cannot be copied back.    *)
RestorePathFails(c) ==
  /\ worker[c].step = "restoring" /\ worker[c].next <= MaxPaths
  /\ faults < MaxFaults
  /\ faults' = faults + 1
  /\ \E left \in {installed[worker[c].next], None} :
       installed' = [installed EXCEPT ![worker[c].next] = left]
  /\ worker' = [worker EXCEPT ![c].next = @ + 1, ![c].harmed = TRUE]
  /\ UNCHANGED <<named, head, service, noted, trigger, record>>

(* The server is restarted with what was put back and asked again.         *)
RestoreEnds(c) ==
  /\ worker[c].step = "restoring" /\ worker[c].next > MaxPaths
  /\ \/ Started /\ \E healthy \in BOOLEAN :
          Finish(c, IF healthy /\ service'.up /\ ~worker[c].harmed
                    THEN "failed" ELSE "broken")
     \/ NotStarted /\ Finish(c, "broken")
  /\ UNCHANGED <<named, head, installed>>

(***************************************************************************)
(* Faults.                                                                 *)
(***************************************************************************)
Kill(c) ==
  /\ worker[c] # Idle /\ faults < MaxFaults
  /\ faults' = faults + 1
  /\ worker' = [worker EXCEPT ![c] = Idle]
  /\ UNCHANGED <<named, head, installed, service, noted, trigger, record>>

(* systemd starts the server again.                                        *)
ServiceCrash ==
  /\ service.up /\ faults < MaxFaults
  /\ faults' = faults + 1
  /\ Started
  /\ UNCHANGED <<named, head, installed, record, worker>>

Work(c) ==
  \/ Lock(c) \/ Check(c) \/ Build(c) \/ BuildFails(c)
  \/ Copy(c) \/ Restart(c) \/ Healthy(c) \/ SwitchFails(c)
  \/ RestorePath(c) \/ RestorePathFails(c) \/ RestoreEnds(c)

Next ==
  \/ Commit
  \/ See \/ Enqueue \/ EnqueueFails \/ Launch
  \/ \E c \in Commits : Work(c) \/ Kill(c)
  \/ ServiceCrash

Spec == Init /\ [][Next]_vars

(***************************************************************************)
(* Properties.                                                             *)
(***************************************************************************)
(* What the dashboard shows can be trusted: when no attempt is shown as    *)
(* running or as not restored, every path has the newest version that was  *)
(* deployed with success, and the server runs it.  Workers get the lock in *)
(* any order; an older commit must not replace a newer one.                *)
RecordsTellTheState ==
  (\A c \in Commits : record[c] \notin {"running", "broken"}) =>
    \E v \in {0} \cup {c \in Commits : record[c] = "succeeded"} :
      /\ \A c \in Commits : record[c] = "succeeded" => c <= v
      /\ installed = [p \in Paths |-> v]
      /\ service = [up |-> TRUE, files |-> installed]

(* "A failed SHA is not retried" (LOCAL-DEPLOYMENT.md), nor any other: no  *)
(* result is replaced, although every restarted server asks again for HEAD.*)
ResultIsFinal ==
  [][\A c \in Commits : record[c] \in Final => record'[c] = record[c]]_vars

(* "When a commit changes HEAD, the service queues one deployment attempt  *)
(* for that SHA" (LOCAL-DEPLOYMENT.md): what is recorded as queued has a   *)
(* trigger or a worker that will attempt it.                               *)
QueuedIsUnderWay ==
  \A c \in Commits :
    record[c] = "queued" =>
      \/ worker[c] # Idle
      \/ trigger = [step |-> "recorded", commit |-> c]

(***************************************************************************)
(* The inductive invariant behind these properties.                        *)
(***************************************************************************)
Latest(v) ==
  /\ v = 0 \/ (v \in Commits /\ record[v] = "succeeded")
  /\ \A c \in Commits : record[c] = "succeeded" => c <= v

Deployed(v) ==
  /\ installed = [p \in Paths |-> v]
  /\ service = [up |-> TRUE, files |-> installed]

Holds(c) == worker[c].step \in Holding

(* An attempt that ended without its result, or without the old version.   *)
Lost(c) == record[c] \in {"running", "broken"} /\ ~Holds(c)

(* HEAD was at everything that there is.                                   *)
HeadIsNewest ==
  /\ noted <= head
  /\ trigger.step # "none" => trigger.commit \in 1..head
  /\ \A p \in Paths : installed[p] <= head
  /\ \A c \in Commits :
       /\ record[c] # "none" => c <= head
       /\ \A p \in Paths : worker[c].backup[p] <= head

OneHolder == \A c, d \in Commits : Holds(c) /\ Holds(d) => c = d

(* Only one process at a time is about to write the record of a commit.    *)
Attempt(c) ==
  /\ record[c] = "none" => worker[c] = Idle
  /\ trigger.step = "recorded" /\ trigger.commit = c =>
       record[c] = "queued" /\ worker[c] = Idle
  /\ worker[c].step = "waiting" => record[c] = "queued"
  /\ Holds(c) => record[c] = "running"
  /\ worker[c].step \in {"waiting", "checking", "building"} =>
       worker[c].next = 1 /\ ~worker[c].harmed
  /\ worker[c].step \in {"copying", "probing"} => ~worker[c].harmed

(* How far commit c has replaced version v, or v is back.                  *)
Replacing(c, v) ==
  LET w == worker[c]
  IN /\ w.step \in {"checking", "building"} => Deployed(v)
     /\ w.step # "checking" => v <= c
     /\ w.step \in {"copying", "probing", "restoring"} =>
          w.backup = [p \in Paths |-> v]
     /\ w.step = "copying" =>
          \A p \in Paths : p < w.next => installed[p] = c
     /\ w.step = "probing" => Deployed(c)
     /\ w.step = "restoring" /\ ~w.harmed =>
          \A p \in Paths : p < w.next => installed[p] = v

KeepsLatest ==
  (\A c \in Commits : ~Lost(c)) =>
    \E v \in 0..MaxCommits :
      /\ Latest(v)
      /\ (\A c \in Commits : ~Holds(c)) => Deployed(v)
      /\ \A c \in Commits : Holds(c) => Replacing(c, v)

IInv ==
  /\ TypeOK
  /\ HeadIsNewest
  /\ OneHolder
  /\ \A c \in Commits : Attempt(c)
  /\ KeepsLatest
=============================================================================
