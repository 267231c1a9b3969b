----------------------------- MODULE Generations -----------------------------
(***************************************************************************)
(* The installation of the ADE runtime: plan, apply and rollback of        *)
(* ade/core.py.  A plan shows what an apply would install and is named by  *)
(* the digest of it.  An apply captures the Workflow Pack again, refuses a *)
(* plan that is stale, fills a stage directory, renames it to a release    *)
(* and points the symlink `current` to it.  A rollback points `current` to *)
(* the release that the current one has noted as its predecessor.  Both    *)
(* hold the flock update.lock; a plan holds nothing.                       *)
(*                                                                         *)
(* The port internal/ade/core.go is the same but for one thing: it reads   *)
(* the Workflow Pack once for the plan and once more for the stage.        *)
(*                                                                         *)
(* Versions stand for contents, the executable bits included.  Lockfile    *)
(* and configuration are one version, read when a command starts.  A       *)
(* release is numbered by its creation, where the code draws a random name.*)
(***************************************************************************)
EXTENDS Integers, FiniteSets, Sequences

CONSTANTS
  Files,       \* the files of the Workflow Pack
  Clis,        \* the processes that may run a command at a time
  Nobody,      \* not a process: the lock is free
  Recapturing, \* those of Clis that read the pack a second time
  MaxReleases, \* bound: how many releases are ever installed
  MaxEdits,    \* bound: how often files and settings are edited
  MaxFaults    \* bound: how many commands fail or are killed

ASSUME GenerationsAssumption ==
  /\ Nobody \notin Clis
  /\ Recapturing \subseteq Clis
  /\ {MaxReleases, MaxEdits, MaxFaults} \subseteq Nat

VARIABLES
  pack,      \* the version of each file in the repository
  settings,  \* the version of lockfile and configuration
  releases,  \* the directories under releases/
  installed, \* how many there are
  current,   \* the release that `current` points to; 0: there is none
  lock,      \* who holds update.lock
  cli,       \* each process
  budget     \* what is left of the bounds on edits and faults

vars ==
  <<pack, settings, releases, installed, current, lock, cli, budget>>

Versions == 0..MaxEdits
Packs == [Files -> Versions]
Ids == 1..MaxReleases

(* A release: its files, the digest noted for them in workflow-source.json,*)
(* its config.json with what was derived from it, and previous.json; and   *)
(* for the properties, whether it was made by one that reads the pack again*)
Release == [pack : Packs, digest : Packs, settings : Versions,
            previous : 0..MaxReleases, reread : BOOLEAN]

(* What plan_id is the digest of.                                          *)
Plan == [pack : Packs, settings : Versions, current : 0..MaxReleases]

Operations == {"none", "plan", "apply", "rollback"}
Steps == {"idle", "waiting", "bundle", "stage", "read", "switch"}

Cli == [op       : Operations,
        step     : Steps,
        todo     : SUBSET Files,     \* what is left to capture or to stage
        captured : Packs,            \* the bundle
        staged   : Packs,            \* what the stage directory holds
        settings : Versions,         \* as read when the command started
        current  : 0..MaxReleases,   \* the generation that was found active
        target   : 0..MaxReleases,   \* the release to switch to
        shown    : Plan,             \* the last plan that was shown
        planned  : BOOLEAN]          \* whether there is one

TypeOK ==
  /\ pack \in Packs
  /\ settings \in Versions
  /\ releases \in [Ids -> Release]
  /\ installed \in 0..MaxReleases
  /\ current \in 0..installed
  /\ lock \in Clis \cup {Nobody}
  /\ cli \in [Clis -> Cli]
  /\ budget \in [edits : Nat, faults : Nat]

Blank == [f \in Files |-> 0]

Off == [op |-> "none", step |-> "idle", todo |-> {}, captured |-> Blank,
        staged |-> Blank, settings |-> 0, current |-> 0, target |-> 0,
        shown |-> [pack |-> Blank, settings |-> 0, current |-> 0],
        planned |-> FALSE]

Init ==
  /\ pack = Blank
  /\ settings = 0
  /\ releases = [i \in Ids |-> [pack |-> Blank, digest |-> Blank,
                                settings |-> 0, previous |-> 0,
                                reread |-> FALSE]]
  /\ installed = 0
  /\ current = 0
  /\ lock = Nobody
  /\ cli = [p \in Clis |-> Off]
  /\ budget = [edits |-> MaxEdits, faults |-> MaxFaults]

At(p, step) == cli[p].step = step
Become(p, value) == cli' = [cli EXCEPT ![p] = value]

(* The command ends; the person still has the plan that was shown.         *)
Ended(p) == [Off EXCEPT !.shown = cli[p].shown, !.planned = cli[p].planned]

(* The flock is given back by whatever ends its holder.                    *)
GiveBack(p) == lock' = IF lock = p THEN Nobody ELSE lock

Quit(p) == Become(p, Ended(p)) /\ GiveBack(p)

Spend(kind) ==
  /\ budget[kind] > 0
  /\ budget' = [budget EXCEPT ![kind] = @ - 1]

(***************************************************************************)
(* People edit the repository and the settings at any time.                *)
(***************************************************************************)
EditFile(f) ==
  /\ pack[f] < MaxEdits /\ Spend("edits")
  /\ pack' = [pack EXCEPT ![f] = @ + 1]
  /\ UNCHANGED <<settings, releases, installed, current, lock, cli>>

EditSettings ==
  /\ settings < MaxEdits /\ Spend("edits")
  /\ settings' = settings + 1
  /\ UNCHANGED <<pack, releases, installed, current, lock, cli>>

(***************************************************************************)
(* Commands.                                                               *)
(***************************************************************************)
(* plan reads the pointer first, then the pack, and holds no lock.         *)
StartPlan(p) ==
  /\ At(p, "idle")
  /\ Become(p, [cli[p] EXCEPT !.op = "plan", !.step = "bundle", !.todo = Files,
                              !.settings = settings, !.current = current])
  /\ UNCHANGED <<pack, settings, releases, installed, current, lock, budget>>

(* apply --plan-id; MaxReleases bounds the applies that begin.             *)
StartApply(p) ==
  /\ At(p, "idle") /\ cli[p].planned
  /\ installed + Cardinality({q \in Clis : cli[q].op = "apply"}) < MaxReleases
  /\ Become(p, [cli[p] EXCEPT !.op = "apply", !.step = "waiting",
                              !.settings = settings])
  /\ UNCHANGED <<pack, settings, releases, installed, current, lock, budget>>

StartRollback(p) ==
  /\ At(p, "idle")
  /\ Become(p, [cli[p] EXCEPT !.op = "rollback", !.step = "waiting"])
  /\ UNCHANGED <<pack, settings, releases, installed, current, lock, budget>>

Entered(p) ==
  Become(p, IF cli[p].op = "apply"
            THEN [cli[p] EXCEPT !.step = "bundle", !.todo = Files]
            ELSE [cli[p] EXCEPT !.step = "read"])

AcquireLock(p) ==
  /\ At(p, "waiting")
  /\ lock = Nobody
  /\ lock' = p
  /\ Entered(p)
  /\ UNCHANGED <<pack, settings, releases, installed, current, budget>>

(* bundle: one file after the other, while people may be editing.          *)
Bundle(p, f) ==
  /\ At(p, "bundle") /\ f \in cli[p].todo
  /\ Become(p, [cli[p] EXCEPT !.todo = @ \ {f}, !.captured[f] = pack[f]])
  /\ UNCHANGED <<pack, settings, releases, installed, current, lock, budget>>

Bundled(p, op) == At(p, "bundle") /\ cli[p].op = op /\ cli[p].todo = {}

ShowPlan(p) ==
  /\ Bundled(p, "plan")
  /\ LET plan == [pack |-> cli[p].captured, settings |-> cli[p].settings,
                  current |-> cli[p].current]
     IN Become(p, [Off EXCEPT !.shown = plan, !.planned = TRUE])
  /\ UNCHANGED <<pack, settings, releases, installed, current, lock, budget>>

Staging(p) ==
  Become(p, [cli[p] EXCEPT !.step = "stage", !.todo = Files, !.current = current])

(* Mutant: the plan is not compared.                                       *)
CheckNothing(p) ==
  /\ Bundled(p, "apply")
  /\ Staging(p) /\ UNCHANGED lock
  /\ UNCHANGED <<pack, settings, releases, installed, current, budget>>

(* The plan made again under the lock must be the one that was shown.      *)
Check(p) ==
  /\ Bundled(p, "apply")
  /\ IF cli[p].shown = [pack |-> cli[p].captured, settings |-> cli[p].settings,
                        current |-> current]
     THEN Staging(p) /\ UNCHANGED lock
     ELSE Quit(p)
  /\ UNCHANGED <<pack, settings, releases, installed, current, budget>>

(* Mutant: every file is read again when it is staged.                     *)
StageFileAgain(p, f) ==
  /\ At(p, "stage") /\ f \in cli[p].todo
  /\ Become(p, [cli[p] EXCEPT !.todo = @ \ {f}, !.staged[f] = pack[f]])
  /\ UNCHANGED <<pack, settings, releases, installed, current, lock, budget>>

StageFile(p, f) ==
  /\ At(p, "stage") /\ f \in cli[p].todo
  /\ Become(p, [cli[p] EXCEPT !.todo = @ \ {f},
                  !.staged[f] = IF p \in Recapturing THEN pack[f]
                                ELSE cli[p].captured[f]])
  /\ UNCHANGED <<pack, settings, releases, installed, current, lock, budget>>

(* Providers, prompts, exports and previous.json are in the stage too when *)
(* it becomes a release.                                                   *)
Rename(p) ==
  /\ At(p, "stage") /\ cli[p].todo = {}
  /\ installed < MaxReleases
  /\ installed' = installed + 1
  /\ releases' = [releases EXCEPT ![installed + 1] =
                    [pack |-> cli[p].staged, digest |-> cli[p].captured,
                     settings |-> cli[p].settings, previous |-> cli[p].current,
                     reread |-> p \in Recapturing]]
  /\ Become(p, [cli[p] EXCEPT !.step = "switch", !.target = installed + 1])
  /\ UNCHANGED <<pack, settings, current, lock, budget>>

(* Mutant: the predecessor of the current release is the one before it.    *)
ReadPreviousInstalled(p) ==
  /\ At(p, "read")
  /\ IF current > 1
     THEN /\ Become(p, [cli[p] EXCEPT !.step = "switch", !.target = current - 1])
          /\ UNCHANGED lock
     ELSE Quit(p)
  /\ UNCHANGED <<pack, settings, releases, installed, current, budget>>

(* rollback: without a generation, or without a previous one, an error.    *)
ReadPrevious(p) ==
  /\ At(p, "read")
  /\ IF current # 0 /\ releases[current].previous # 0
     THEN /\ Become(p, [cli[p] EXCEPT !.step = "switch",
                                      !.target = releases[current].previous])
          /\ UNCHANGED lock
     ELSE Quit(p)
  /\ UNCHANGED <<pack, settings, releases, installed, current, budget>>

(* One rename of a new symlink over `current`, and the end of the command. *)
Switch(p) ==
  /\ At(p, "switch")
  /\ current' = cli[p].target
  /\ Quit(p)
  /\ UNCHANGED <<pack, settings, releases, installed, budget>>

(* Any error from the bundle to the switch: a file that is gone, a download*)
(* with a wrong checksum, a provider without grants or of another version, *)
(* a full disk.  The stage is removed; a release already renamed stays.    *)
Fail(p) ==
  /\ cli[p].step \in {"bundle", "stage", "switch"}
  /\ Spend("faults")
  /\ Quit(p)
  /\ UNCHANGED <<pack, settings, releases, installed, current>>

(* A kill also leaves the stage directory, which nothing ever reads.       *)
Crash(p) ==
  /\ ~At(p, "idle")
  /\ Spend("faults")
  /\ Quit(p)
  /\ UNCHANGED <<pack, settings, releases, installed, current>>

(***************************************************************************)
(* The specification.                                                      *)
(***************************************************************************)
Command(p) ==
  \/ AcquireLock(p) \/ ShowPlan(p) \/ Check(p)
  \/ \E f \in Files : Bundle(p, f) \/ StageFile(p, f)
  \/ Rename(p) \/ ReadPrevious(p) \/ Switch(p) \/ Fail(p)

Next ==
  \/ \E f \in Files : EditFile(f)
  \/ EditSettings
  \/ \E p \in Clis : \/ StartPlan(p) \/ StartApply(p) \/ StartRollback(p)
                     \/ Command(p) \/ Crash(p)

Spec == Init /\ [][Next]_vars

(***************************************************************************)
(* Properties.                                                             *)
(***************************************************************************)
(* "apply needs the id of this plan ... an old plan is refused"            *)
(* (docs/ade-runtime.md): the release that an apply makes current has the  *)
(* settings, the predecessor and the digest that were shown, and its files *)
(* too, although captured one by one and twice.  Where the pack is read a  *)
(* third time, for the stage, a file may differ, but only by an edit after *)
(* its last capture: nothing that was edited before escapes the check.     *)
AppliedAsShown ==
  [][\A p \in Clis :
       At(p, "switch") /\ cli[p].op = "apply" /\ current' # current =>
         LET r == releases[current'] shown == cli[p].shown
         IN /\ r.digest = shown.pack /\ r.settings = shown.settings
            /\ r.previous = shown.current /\ shown.current = current
            /\ \A f \in Files : r.pack[f] # shown.pack[f] =>
                 p \in Recapturing /\ shown.pack[f] < pack[f]]_vars

(* "A generation keeps the actual contents and their digest"               *)
(* (docs/ade-runtime.md): the digest of a release is that of its files.    *)
DigestIsTrue ==
  \A i \in 1..installed : releases[i].digest = releases[i].pack

(* What is left of it when some read the pack again: the digest is that of *)
(* the files wherever the pack is read once, and is never newer than them. *)
DigestIsOlderAtWorst ==
  \A i \in 1..installed, f \in Files :
    LET r == releases[i]
    IN r.digest[f] # r.pack[f] => r.reread /\ r.digest[f] < r.pack[f]

(* The generations in use, first to last.                                  *)
Chain[i \in 0..MaxReleases] ==
  IF i = 0 THEN <<>>
  ELSE Append(Chain[releases[i].previous],
              [pack |-> releases[i].pack, settings |-> releases[i].settings])

Stack == INSTANCE GenerationStack WITH
  Contents <- [pack : Packs, settings : Versions],
  stack    <- Chain[current]

(* Applies and rollbacks of several processes, killed or failing anywhere, *)
(* behave as one stack of generations.                                     *)
ImplementsStack == Stack!Spec

(***************************************************************************)
(* The inductive invariant behind the safety properties.                   *)
(***************************************************************************)
(* The steps taken with the lock.                                          *)
Inside(p) ==
  \/ cli[p].step \in {"stage", "read", "switch"}
  \/ cli[p].step = "bundle" /\ cli[p].op = "apply"

Exclusive == \A p \in Clis : Inside(p) <=> lock = p

(* A release is older than those that follow it.                           *)
Ordered == \A i \in Ids : releases[i].previous < i

Faithful(r, plan) ==
  /\ r.digest = plan.pack /\ r.settings = plan.settings
  /\ r.previous = plan.current

(* A version that p has read of what it first read as the other.           *)
Reread(p, version, first) ==
  \/ version = first
  \/ p \in Recapturing /\ first < version

Fits(p) ==
  LET c == cli[p]
  IN /\ c.step = "idle" => c.op = "none"
     /\ c.step \in {"waiting", "switch"} => c.op \in {"apply", "rollback"}
     /\ c.step = "bundle" =>
          /\ c.op \in {"plan", "apply"}
          /\ \A f \in Files \ c.todo : c.captured[f] <= pack[f]
     /\ c.step = "read" => c.op = "rollback"
     /\ c.current <= installed
     /\ c.step = "stage" =>
          /\ c.op = "apply"
          /\ c.current = current
          /\ c.shown = [pack |-> c.captured, settings |-> c.settings,
                        current |-> current]
          /\ \A f \in Files : c.captured[f] <= pack[f]
          /\ \A f \in Files \ c.todo :
               /\ Reread(p, c.staged[f], c.captured[f])
               /\ c.staged[f] <= pack[f]
     /\ c.step = "switch" => c.target \in 1..installed
     /\ c.step = "switch" /\ c.op = "apply" =>
          /\ c.shown.current = current
          /\ Faithful(releases[c.target], c.shown)
          /\ \A f \in Files :
               /\ Reread(p, releases[c.target].pack[f], c.shown.pack[f])
               /\ releases[c.target].pack[f] <= pack[f]
     /\ c.step = "switch" /\ c.op = "rollback" =>
          current # 0 /\ c.target = releases[current].previous

IInv ==
  /\ TypeOK
  /\ Exclusive
  /\ Ordered
  /\ \A p \in Clis : Fits(p)
  /\ DigestIsOlderAtWorst
=============================================================================
