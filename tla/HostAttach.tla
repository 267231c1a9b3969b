------------------------------ MODULE HostAttach ------------------------------
(***************************************************************************)
(* attach --apply of ade/hosts.py: it merges the MCP entry that the        *)
(* current release exports into the host's config of one workspace, and    *)
(* links the skills of the current release.  It holds update.lock, so no   *)
(* apply or rollback comes between (Generations has their steps; here each *)
(* is one, taken when the lock is free).  But people edit the config and   *)
(* the skills directory meanwhile, and may have entries and skills of the  *)
(* same name.                                                              *)
(*                                                                         *)
(* The config is what people wrote in it, as a version, and the ADE entry, *)
(* which stands for the settings that the exporting release was installed  *)
(* with.  Link targets go through `current`, so they are the same for      *)
(* every release.                                                          *)
(***************************************************************************)
EXTENDS Integers

CONSTANTS
  Attachers,    \* the attach processes that may run at a time
  Nobody,       \* not a process: the lock is free
  Skills,       \* the skills of the pack
  Settings,     \* the settings a release may be installed with
  MaxHostEdits, \* bound: how often people edit the workspace
  NoEntry,      \* the config has no ADE entry
  Foreign,      \* it has an entry of that name, with other contents
  MaxFaults     \* bound: how many attaches fail or are killed

ASSUME AttachAssumption ==
  /\ Nobody \notin Attachers
  /\ MaxHostEdits \in Nat /\ MaxFaults \in Nat
  /\ {NoEntry, Foreign} \cap Settings = {} /\ NoEntry # Foreign

VARIABLES
  exported, \* what the current release exports; NoEntry: there is no release
  lock,     \* who holds update.lock
  host,     \* the host's config in the workspace
  skills,   \* what is in the workspace under the name of each skill
  backup,   \* the file under attachments/
  attach,   \* each attach process
  attached, \* history variable: an attach has replaced the config
  faults,   \* what is left of MaxFaults
  crashed   \* history variable: a process was killed

vars ==
  <<exported, lock, host, skills, backup, attach, attached, faults, crashed>>

Entries == Settings \cup {NoEntry, Foreign}
Host == [own : 0..MaxHostEdits, entry : Entries]

Backup == [state : {"none", "torn", "whole"}, text : Host]

AttachSteps == {"idle", "waiting", "read", "backup", "writing", "link",
                "compared"}

Attach == [step : AttachSteps,
           read : Host,            \* the config as it was read
           entry : Entries,        \* the entry to merge into it
           todo : SUBSET Skills,   \* the links to make
           made : SUBSET Skills,   \* the links this attach made
           late : BOOLEAN]         \* history: an edit came after Compare

TypeOK ==
  /\ exported \in Settings \cup {NoEntry}
  /\ lock \in Attachers \cup {Nobody}
  /\ host \in Host
  /\ skills \in [Skills -> {"none", "ade", "own"}]
  /\ backup \in Backup
  /\ attach \in [Attachers -> Attach]
  /\ attached \in BOOLEAN
  /\ faults \in Nat
  /\ crashed \in BOOLEAN

NoText == [own |-> 0, entry |-> NoEntry]

Detached == [step |-> "idle", read |-> NoText, entry |-> NoEntry,
             todo |-> {}, made |-> {}, late |-> FALSE]

Init ==
  /\ exported = NoEntry
  /\ lock = Nobody
  /\ host \in {NoText, [own |-> 0, entry |-> Foreign]}
  /\ skills = [s \in Skills |-> "none"]
  /\ backup = [state |-> "none", text |-> NoText]
  /\ attach = [a \in Attachers |-> Detached]
  /\ attached = FALSE
  /\ faults = MaxFaults
  /\ crashed = FALSE

Is(a, step) == attach[a].step = step
Proceed(a, value) == attach' = [attach EXCEPT ![a] = value]
ToStep(a, step) == Proceed(a, [attach[a] EXCEPT !.step = step])
Leave(a) ==
  /\ Proceed(a, Detached)
  /\ lock' = IF lock = a THEN Nobody ELSE lock

Fault == faults > 0 /\ faults' = faults - 1

(* A whole apply or rollback (Generations).                                *)
SwitchRelease ==
  /\ lock = Nobody
  /\ exported' \in Settings
  /\ UNCHANGED <<lock, host, skills, backup, attach, attached, faults, crashed>>

(***************************************************************************)
(* People edit the workspace.                                              *)
(***************************************************************************)
EditHost ==
  /\ host.own < MaxHostEdits
  /\ \E e \in {host.entry, NoEntry} :
       host' = [own |-> host.own + 1, entry |-> e]
  /\ attach' = [a \in Attachers |->
                  [attach[a] EXCEPT !.late = @ \/ Is(a, "compared")]]
  /\ UNCHANGED <<exported, lock, skills, backup, attached, faults, crashed>>

OwnSkill(s) ==
  /\ skills[s] = "none"
  /\ skills' = [skills EXCEPT ![s] = "own"]
  /\ UNCHANGED <<exported, lock, host, backup, attach, attached, faults, crashed>>

(***************************************************************************)
(* attach.                                                                 *)
(***************************************************************************)
StartAttach(a) ==
  /\ Is(a, "idle")
  /\ ToStep(a, "waiting")
  /\ UNCHANGED <<exported, lock, host, skills, backup, attached, faults, crashed>>

(* Mutant: attach takes no lock.                                           *)
AttachNoWait(a) ==
  /\ Is(a, "waiting")
  /\ ToStep(a, "read")
  /\ UNCHANGED <<exported, lock, host, skills, backup, attached, faults, crashed>>

AttachLock(a) ==
  /\ Is(a, "waiting")
  /\ lock = Nobody
  /\ lock' = a
  /\ ToStep(a, "read")
  /\ UNCHANGED <<exported, host, skills, backup, attached, faults, crashed>>

(* Without a release, with another entry of the same name or with a skill  *)
(* of the same name, nothing is attached.                                  *)
Conflict ==
  \/ exported = NoEntry
  \/ host.entry \notin {NoEntry, exported}
  \/ \E s \in Skills : skills[s] = "own"

(* Mutant: every attach makes a backup.                                    *)
ReadHostBackup(a) ==
  /\ Is(a, "read")
  /\ IF Conflict THEN Leave(a)
     ELSE /\ Proceed(a, [attach[a] EXCEPT !.step = "backup",
                           !.read = host, !.entry = exported,
                           !.todo = {s \in Skills : skills[s] = "none"}])
          /\ UNCHANGED lock
  /\ UNCHANGED <<exported, host, skills, backup, attached, faults, crashed>>

(* The backup is made once.                                                *)
ReadHost(a) ==
  /\ Is(a, "read")
  /\ IF Conflict THEN Leave(a)
     ELSE /\ Proceed(a, [attach[a] EXCEPT
                           !.step = IF backup.state = "none" THEN "backup"
                                                             ELSE "link",
                           !.read = host, !.entry = exported,
                           !.todo = {s \in Skills : skills[s] = "none"}])
          /\ UNCHANGED lock
  /\ UNCHANGED <<exported, host, skills, backup, attached, faults, crashed>>

(* core.write opens the file, which truncates it, and then writes.         *)
OpenBackup(a) ==
  /\ Is(a, "backup")
  /\ backup' = [backup EXCEPT !.state = "torn"]
  /\ ToStep(a, "writing")
  /\ UNCHANGED <<exported, lock, host, skills, attached, faults, crashed>>

WriteBackup(a) ==
  /\ Is(a, "writing")
  /\ backup' = [state |-> "whole", text |-> attach[a].read]
  /\ ToStep(a, "link")
  /\ UNCHANGED <<exported, lock, host, skills, attached, faults, crashed>>

(* Mutant: an error leaves the links that were made.                       *)
UndoNothing(a) == UNCHANGED skills

Undo(a) ==
  skills' = [s \in Skills |-> IF s \in attach[a].made THEN "none" ELSE skills[s]]

(* symlink_to fails on a name that has come to exist.                      *)
LinkSkill(a, s) ==
  /\ Is(a, "link") /\ s \in attach[a].todo
  /\ IF skills[s] = "none"
     THEN /\ skills' = [skills EXCEPT ![s] = "ade"]
          /\ Proceed(a, [attach[a] EXCEPT !.todo = @ \ {s}, !.made = @ \cup {s}])
          /\ UNCHANGED lock
     ELSE Undo(a) /\ Leave(a)
  /\ UNCHANGED <<exported, host, backup, attached, faults, crashed>>

(* Mutant: an edit since the config was read goes unnoticed.               *)
CompareNothing(a) ==
  /\ Is(a, "link") /\ attach[a].todo = {}
  /\ ToStep(a, "compared")
  /\ UNCHANGED <<exported, lock, host, skills, backup, attached, faults, crashed>>

(* The config is compared with what was read ...                           *)
Compare(a) ==
  /\ Is(a, "link") /\ attach[a].todo = {}
  /\ IF host = attach[a].read
     THEN ToStep(a, "compared") /\ UNCHANGED <<lock, skills>>
     ELSE Undo(a) /\ Leave(a)
  /\ UNCHANGED <<exported, host, backup, attached, faults, crashed>>

(* ... and then replaced by the merged text.                               *)
ReplaceHost(a) ==
  /\ Is(a, "compared")
  /\ host' = [attach[a].read EXCEPT !.entry = attach[a].entry]
  /\ attached' = TRUE
  /\ Leave(a)
  /\ UNCHANGED <<exported, skills, backup, faults, crashed>>

(* An error in a write, a link or the rename.                              *)
AttachFails(a) ==
  /\ attach[a].step \in {"backup", "writing", "link", "compared"}
  /\ Fault
  /\ Undo(a) /\ Leave(a)
  /\ UNCHANGED <<exported, host, backup, attached, crashed>>

AttachCrash(a) ==
  /\ ~Is(a, "idle")
  /\ Fault
  /\ Leave(a)
  /\ crashed' = TRUE
  /\ UNCHANGED <<exported, host, skills, backup, attached>>

(***************************************************************************)
(* The specification.                                                      *)
(***************************************************************************)
RunAttach(a) ==
  \/ AttachLock(a) \/ ReadHost(a) \/ OpenBackup(a) \/ WriteBackup(a)
  \/ \E s \in Skills : LinkSkill(a, s)
  \/ Compare(a) \/ ReplaceHost(a) \/ AttachFails(a)

Next ==
  \/ SwitchRelease
  \/ EditHost
  \/ \E s \in Skills : OwnSkill(s)
  \/ \E a \in Attachers : StartAttach(a) \/ RunAttach(a) \/ AttachCrash(a)

Spec == Init /\ [][Next]_vars

(***************************************************************************)
(* Properties.                                                             *)
(***************************************************************************)
(* The entry that a workspace gets is the one of the release in use at     *)
(* that moment, not of one that was replaced while attach was at work.     *)
EntryOfCurrent ==
  [][host'.entry \notin {NoEntry, host.entry} => host'.entry = exported]_vars

(* "The original config is backed up" (docs/ade-runtime.md): a config is   *)
(* replaced only with a backup, which has the text of the person, from     *)
(* before any attach.  One that was cut off stays, and passes for a backup *)
(* from then on: it can be read for certain only where nothing failed.     *)
BackupIsOriginal ==
  /\ attached => backup.state # "none"
  /\ attached /\ faults = MaxFaults => backup.state = "whole"
  /\ backup.state = "whole" => backup.text.entry = NoEntry

(* "Detect an edit made outside ADE" (hosts.py): a person's edit is never  *)
(* overwritten, but one that comes between the last look and the rename.   *)
EditsSurvive ==
  [][host'.own < host.own => \E a \in Attachers : attach[a].late]_vars

(* "Conflicts abort the whole attach": until a process is killed, there    *)
(* are links only with an entry, whatever errors and edits came between.   *)
AllOrNothing ==
  ~crashed /\ lock \notin Attachers =>
    ((\E s \in Skills : skills[s] = "ade") => attached)

(***************************************************************************)
(* The inductive invariant behind these properties.                        *)
(***************************************************************************)
Inside(a) == attach[a].step \notin {"idle", "waiting"}

Exclusive == \A a \in Attachers : Inside(a) <=> lock = a

(* What an attach knows by its step: nobody else changes the release, the  *)
(* entry or the backup while it has the lock.                              *)
Fits(a) ==
  LET me == attach[a]
  IN /\ me.step \notin {"link", "compared"} => me.made = {}
     /\ me.step \in {"backup", "writing", "link", "compared"} =>
          me.entry = exported /\ exported \in Settings
     /\ me.step \in {"backup", "writing"} =>
          ~attached /\ me.read.entry = NoEntry
     /\ me.step = "writing" => backup.state = "torn"
     /\ me.step \in {"link", "compared"} => backup.state # "none"
     /\ me.step = "compared" => me.late \/ host = me.read

(* A cut off backup is being written, or something has failed.             *)
TornByFault ==
  backup.state = "torn" =>
    faults < MaxFaults \/ \E a \in Attachers : Is(a, "writing")

(* A link belongs to an attach that has replaced the config or can still   *)
(* undo it.                                                                *)
LinksAccounted ==
  ~crashed => \A s \in Skills :
    skills[s] = "ade" => attached \/ \E a \in Attachers : s \in attach[a].made

IInv ==
  /\ TypeOK /\ faults <= MaxFaults
  /\ Exclusive
  /\ \A a \in Attachers : Fits(a)
  /\ host.entry \in Settings => attached
  /\ attached => backup.state # "none"
  /\ backup.state = "whole" => backup.text.entry = NoEntry
  /\ TornByFault
  /\ LinksAccounted
=============================================================================
