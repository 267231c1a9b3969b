--------------------------- MODULE ArtifactPublish ---------------------------
(***************************************************************************)
(* The web artifacts of ade/publish.py, uploaded by the dashboard through  *)
(* ade/environment_artifacts.py or published by the CLI: one name, under   *)
(* which an HTTP server serves a directory at all times, without a lock.   *)
(*                                                                         *)
(* publish copies its source to a stage directory, moves the directory it  *)
(* replaces away to a hidden backup, the stage to the name, and removes    *)
(* the backup.  It and delete hold the flock exclusively, a listing shares *)
(* it.  Every step may fail, and every process may be killed.              *)
(*                                                                         *)
(* Each publish has contents of its own, numbered by its start; sources    *)
(* are not edited while they are copied.                                   *)
(***************************************************************************)
EXTENDS Integers

CONSTANTS
  Clients,     \* the processes and requests that may be at work at a time
  Files,       \* the files of every source
  MaxVersions, \* bound: how many publishes are begun
  MaxFaults    \* bound: how many steps fail and processes are killed

VARIABLES
  public,   \* the directory served under the name
  hidden,   \* the backups that nobody will remove any more
  writers,  \* who holds the lock exclusively
  readers,  \* who shares it
  client,   \* each process
  started,  \* how many publishes were begun
  faults,   \* how many there were
  last,     \* history variable: the contents last moved in, not deleted since
  cut       \* history variable: a kill or a restore that failed left no name

vars == <<public, hidden, writers, readers, client, started, faults, last, cut>>

Contents == Nat

(* 0 files of content 0: there is no directory.  `doomed`: its deletion    *)
(* has begun.                                                              *)
Directory == [content : Contents, files : SUBSET Files, doomed : BOOLEAN]
NoDirectory == [content |-> 0, files |-> {}, doomed |-> FALSE]
Whole(c) == [content |-> c, files |-> Files, doomed |-> FALSE]

Client == [step : {"idle", "waiting", "copy", "moved", "served",
                   "removing", "listing"},
           op : {"none", "publish", "delete", "list"},
           overwrite : BOOLEAN,            \* the dashboard asks before
           stage : Directory, backup : Directory,
           todo : SUBSET Files,            \* left to copy, remove or list
           seen : SUBSET (Contents \X Files)] \* what the listing has

TypeOK ==
  /\ public \in Directory /\ hidden \subseteq Directory
  /\ writers \subseteq Clients /\ readers \subseteq Clients
  /\ client \in [Clients -> Client]
  /\ started \in Contents /\ last \in Contents
  /\ faults \in Nat
  /\ cut \in BOOLEAN

Off == [step |-> "idle", op |-> "none", overwrite |-> FALSE,
        stage |-> NoDirectory, backup |-> NoDirectory, todo |-> {}, seen |-> {}]

Init ==
  /\ public = NoDirectory /\ hidden = {}
  /\ writers = {} /\ readers = {}
  /\ client = [c \in Clients |-> Off]
  /\ started = 0 /\ last = 0
  /\ faults = 0
  /\ cut = FALSE

Is(c, op, step) == client[c].op = op /\ client[c].step = step
Become(c, value) == client' = [client EXCEPT ![c] = value]
Fault == faults < MaxFaults /\ faults' = faults + 1

(* An end of any kind closes the lock file.                                *)
Leave(c) ==
  /\ Become(c, Off)
  /\ writers' = writers \ {c}
  /\ readers' = readers \ {c}

(***************************************************************************)
(* publish.                                                                *)
(***************************************************************************)
StartPublish(c) ==
  /\ Is(c, "none", "idle") /\ started < MaxVersions
  /\ started' = started + 1
  /\ \E overwrite \in BOOLEAN :
       Become(c, [Off EXCEPT !.step = "waiting", !.op = "publish",
                    !.overwrite = overwrite, !.todo = Files,
                    !.stage = [NoDirectory EXCEPT !.content = started + 1]])
  /\ UNCHANGED <<public, hidden, writers, readers, faults, last, cut>>

(* Without consent an artifact is not replaced.                            *)
Admit(c) ==
  IF client[c].overwrite \/ public = NoDirectory
  THEN writers' = writers \cup {c} /\ Become(c, [client[c] EXCEPT !.step = "copy"])
  ELSE Become(c, Off) /\ UNCHANGED writers

(* Mutant: publish takes no lock.                                          *)
PublishNoWait(c) ==
  /\ Is(c, "publish", "waiting")
  /\ Admit(c)
  /\ UNCHANGED <<public, hidden, readers, started, faults, last, cut>>

PublishLock(c) ==
  /\ Is(c, "publish", "waiting")
  /\ writers = {} /\ readers = {}
  /\ Admit(c)
  /\ UNCHANGED <<public, hidden, readers, started, faults, last, cut>>

CopyFile(c, f) ==
  /\ Is(c, "publish", "copy") /\ f \in client[c].todo
  /\ Become(c, [client[c] EXCEPT !.todo = @ \ {f}, !.stage.files = @ \cup {f}])
  /\ UNCHANGED <<public, hidden, writers, readers, started, faults, last, cut>>

(* Mutant: the directory to be replaced is removed.                        *)
MoveAwayRemoves(c) ==
  /\ Is(c, "publish", "copy") /\ client[c].todo = {}
  /\ Become(c, [client[c] EXCEPT !.step = "moved"])
  /\ public' = NoDirectory
  /\ UNCHANGED <<hidden, writers, readers, started, faults, last, cut>>

MoveAway(c) ==
  /\ Is(c, "publish", "copy") /\ client[c].todo = {}
  /\ Become(c, [client[c] EXCEPT !.step = "moved", !.backup = public])
  /\ public' = NoDirectory
  /\ UNCHANGED <<hidden, writers, readers, started, faults, last, cut>>

MoveIn(c) ==
  /\ Is(c, "publish", "moved")
  /\ public' = client[c].stage /\ last' = client[c].stage.content
  /\ IF client[c].backup = NoDirectory
     THEN Leave(c)
     ELSE Become(c, [client[c] EXCEPT !.step = "served"])
          /\ UNCHANGED <<writers, readers>>
  /\ UNCHANGED <<hidden, started, faults, cut>>

(* Mutant: nothing is restored.                                            *)
RestoreNothing(c) ==
  /\ Is(c, "publish", "moved")
  /\ Fault
  /\ hidden' = hidden \cup ({client[c].backup} \ {NoDirectory})
  /\ Leave(c)
  /\ UNCHANGED <<public, started, last, cut>>

(* The stage cannot be moved in: what was moved away is moved back, unless *)
(* that fails too.                                                         *)
Restore(c) ==
  /\ Is(c, "publish", "moved")
  /\ \/ /\ Fault
        /\ public' = client[c].backup
        /\ UNCHANGED <<hidden, cut>>
     \/ /\ faults + 1 < MaxFaults /\ faults' = faults + 2
        /\ client[c].backup # NoDirectory
        /\ hidden' = hidden \cup {client[c].backup}
        /\ cut' = TRUE
        /\ UNCHANGED public
  /\ Leave(c)
  /\ UNCHANGED <<started, last>>

(* The backup, or what could be removed of it, is no longer needed; an     *)
(* error is reported although the new contents are served.                 *)
RemoveBackup(c) ==
  /\ Is(c, "publish", "served")
  /\ \/ UNCHANGED <<hidden, faults>>
     \/ Fault /\ \E left \in SUBSET client[c].backup.files :
          hidden' = hidden \cup
            {[client[c].backup EXCEPT !.files = left, !.doomed = TRUE]}
  /\ Leave(c)
  /\ UNCHANGED <<public, started, last, cut>>

(* A source that is not acceptable, a full disk: the stage is removed.     *)
PublishFails(c) ==
  /\ Is(c, "publish", "copy")
  /\ Fault
  /\ Leave(c)
  /\ UNCHANGED <<public, hidden, started, last, cut>>

(***************************************************************************)
(* delete: a rmtree of what is served.                                     *)
(***************************************************************************)
StartDelete(c) ==
  /\ Is(c, "none", "idle")
  /\ Become(c, [Off EXCEPT !.step = "waiting", !.op = "delete"])
  /\ UNCHANGED <<public, hidden, writers, readers, started, faults, last, cut>>

DeleteLock(c) ==
  /\ Is(c, "delete", "waiting")
  /\ writers = {} /\ readers = {}
  /\ IF public = NoDirectory
     THEN Become(c, Off) /\ UNCHANGED <<public, writers, last>>
     ELSE /\ Become(c, [client[c] EXCEPT !.step = "removing"])
          /\ public' = [public EXCEPT !.doomed = TRUE]
          /\ writers' = writers \cup {c}
          /\ last' = 0
  /\ UNCHANGED <<hidden, readers, started, faults, cut>>

RemoveFile(c, f) ==
  /\ Is(c, "delete", "removing") /\ f \in public.files
  /\ public' = [public EXCEPT !.files = @ \ {f}]
  /\ UNCHANGED <<hidden, writers, readers, client, started, faults, last, cut>>

RemoveDirectory(c) ==
  /\ Is(c, "delete", "removing") /\ public.files = {}
  /\ public' = NoDirectory
  /\ Leave(c)
  /\ UNCHANGED <<hidden, started, faults, last, cut>>

DeleteFails(c) ==
  /\ Is(c, "delete", "removing")
  /\ Fault
  /\ Leave(c)
  /\ UNCHANGED <<public, hidden, started, last, cut>>

(***************************************************************************)
(* inventory.                                                              *)
(***************************************************************************)
StartList(c) ==
  /\ Is(c, "none", "idle")
  /\ Become(c, [Off EXCEPT !.step = "waiting", !.op = "list"])
  /\ UNCHANGED <<public, hidden, writers, readers, started, faults, last, cut>>

Reading(c) ==
  Become(c, [client[c] EXCEPT !.step = "listing", !.todo = public.files])

(* Mutant: a listing takes no lock.                                        *)
ListNoWait(c) ==
  /\ Is(c, "list", "waiting")
  /\ Reading(c)
  /\ UNCHANGED <<public, hidden, writers, readers, started, faults, last, cut>>

ListLock(c) ==
  /\ Is(c, "list", "waiting")
  /\ writers = {}
  /\ readers' = readers \cup {c}
  /\ Reading(c)
  /\ UNCHANGED <<public, hidden, writers, started, faults, last, cut>>

ListFile(c, f) ==
  /\ Is(c, "list", "listing") /\ f \in client[c].todo
  /\ Become(c, [client[c] EXCEPT !.todo = @ \ {f},
                                 !.seen = @ \cup {<<public.content, f>>}])
  /\ UNCHANGED <<public, hidden, writers, readers, started, faults, last, cut>>

EndList(c) ==
  /\ Is(c, "list", "listing") /\ client[c].todo = {}
  /\ Leave(c)
  /\ UNCHANGED <<public, hidden, started, faults, last, cut>>

(***************************************************************************)
(* A kill, or an interrupt between the renames, which `except Exception`   *)
(* does not catch.                                                         *)
(***************************************************************************)
ClientKilled(c) ==
  /\ client[c].step # "idle"
  /\ Fault
  /\ hidden' = hidden \cup ({client[c].backup} \ {NoDirectory})
  /\ cut' = (cut \/ client[c].step = "moved")
  /\ Leave(c)
  /\ UNCHANGED <<public, started, last>>

(***************************************************************************)
(* The specification.                                                      *)
(***************************************************************************)
Publish(c) ==
  \/ StartPublish(c) \/ PublishLock(c)
  \/ \E f \in Files : CopyFile(c, f)
  \/ MoveAway(c) \/ MoveIn(c) \/ Restore(c) \/ RemoveBackup(c)
  \/ PublishFails(c)

Remove(c) ==
  \/ StartDelete(c) \/ DeleteLock(c)
  \/ \E f \in Files : RemoveFile(c, f)
  \/ RemoveDirectory(c) \/ DeleteFails(c)

List(c) ==
  StartList(c) \/ ListLock(c) \/ (\E f \in Files : ListFile(c, f)) \/ EndList(c)

Next == \E c \in Clients : Publish(c) \/ Remove(c) \/ List(c) \/ ClientKilled(c)

Spec == Init /\ [][Next]_vars

(***************************************************************************)
(* Properties.                                                             *)
(***************************************************************************)
(* "artifact already exists; confirm replacement" (publish.py): an upload  *)
(* without consent never moves away what another one has published.        *)
ConsentToReplace ==
  [][\A c \in Clients :
       Is(c, "publish", "copy") /\ client'[c] # client[c]
         /\ public # NoDirectory /\ public' = NoDirectory
       => client[c].overwrite]_vars

(* The contents last served are on the disk at every moment, under the     *)
(* name or under a hidden one, whatever failed or was killed.              *)
LastIsKept ==
  last # 0 => Whole(last) \in {public} \cup hidden
                                \cup {client[c].backup : c \in Clients}

(* What is served is the whole of what was moved in last, whatever failed  *)
(* or was killed, until a deletion of it begins; and a publish that ends,  *)
(* well or with an error, leaves it under the name: the old contents if    *)
(* the new ones could not be moved in.                                     *)
OldOrNew ==
  /\ public # NoDirectory => public.doomed \/ public = Whole(last)
  /\ last # 0 /\ ~cut /\ writers = {} => public = Whole(last)

(* What a listing has seen so far is what is served: it never mixes the    *)
(* files of two publishes.                                                 *)
ListingAgrees ==
  \A c \in Clients :
    Is(c, "list", "listing") =>
      client[c].seen = {public.content} \X (public.files \ client[c].todo)

(***************************************************************************)
(* The inductive invariant behind these properties.                        *)
(***************************************************************************)
Exclusive ==
  /\ \A c, d \in writers : c = d
  /\ writers # {} => readers = {}

(* The lock is held from the question to the end, and only its holder      *)
(* changes what is served.                                                 *)
Fits(c) ==
  LET me == client[c]
  IN /\ me.step \in {"copy", "moved", "served", "removing"} <=> c \in writers
     /\ me.step = "listing" <=> c \in readers
     /\ me.step \in {"copy", "moved", "served"} => me.op = "publish"
     /\ me.op = "publish" => /\ me.stage.content # 0 /\ ~me.stage.doomed
                             /\ me.stage.files \cup me.todo = Files
     /\ me.op = "list" /\ me.step = "waiting" => me.seen = {}
     /\ me.step \notin {"moved", "served"} => me.backup = NoDirectory
     /\ me.step = "copy" => me.overwrite \/ public = NoDirectory
     /\ me.step = "moved" =>
          /\ public = NoDirectory /\ me.todo = {}
          /\ me.backup.doomed => last = 0
          /\ me.backup \in {NoDirectory, Whole(last)} \/ me.backup.doomed
          /\ last # 0 /\ ~cut => me.backup = Whole(last)
     /\ me.step = "served" => last # 0 /\ public = Whole(last)
     /\ me.step = "removing" => public.doomed
     /\ me.step = "listing" =>
          /\ me.todo \subseteq public.files
          /\ me.seen = {public.content} \X (public.files \ me.todo)

Served ==
  /\ public # NoDirectory => public.doomed \/ public = Whole(last)
  /\ public.doomed => last = 0
  /\ last # 0 /\ ~cut /\ (\A c \in Clients : client[c].step # "moved")
       => public = Whole(last)

IInv ==
  /\ TypeOK
  /\ Exclusive
  /\ \A c \in Clients : Fits(c)
  /\ Served
  /\ LastIsKept
=============================================================================
