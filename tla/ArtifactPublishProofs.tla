------------------------ MODULE ArtifactPublishProofs ------------------------
(***************************************************************************)
(* Proofs about ArtifactPublish for every number of processes, publishes   *)
(* and faults and every set of files.  What is served changes only by the  *)
(* one holder of the lock, so a step keeps what Fits says of every process *)
(* but its own (Others); one lemma per action does the rest.               *)
(***************************************************************************)
EXTENDS ArtifactPublish, TLAPS

LEMMA InitInvariant == Init => IInv
<1> SUFFICES ASSUME Init PROVE IInv
  OBVIOUS
<1>1. Off \in Client /\ NoDirectory \in Directory
  BY DEF Off, Client, NoDirectory, Directory, Contents
<1>2. TypeOK
  BY <1>1 DEF Init, TypeOK, Contents
<1>3. \A c \in Clients : Fits(c)
  BY DEF Init, Fits, Off
<1>4. QED
  BY <1>2, <1>3 DEF Init, IInv, Exclusive, Served, LastIsKept, NoDirectory

(* What a step that keeps the lock's rules does to a process other than    *)
(* its own.                                                                *)
LEMMA Others ==
  ASSUME IInv, NEW c \in Clients, NEW d \in Clients, c # d,
         client'[d] = client[d],
         d \in writers' <=> d \in writers, d \in readers' <=> d \in readers,
         \/ UNCHANGED <<public, last, cut>>
         \/ writers \cup readers \subseteq {c}
  PROVE  Fits(d)'
<1>1. Fits(d)
  BY DEF IInv
<1>2. CASE UNCHANGED <<public, last, cut>>
  BY <1>1, <1>2 DEF Fits
<1>3. CASE writers \cup readers \subseteq {c}
  BY <1>1, <1>3 DEF Fits
<1>4. QED
  BY <1>2, <1>3

(* What the holder of the lock may rely on.                                *)
LEMMA Alone ==
  ASSUME IInv, NEW c \in writers
  PROVE  writers = {c} /\ readers = {}
BY DEF IInv, Exclusive

(* An end gives the lock back and leaves the process blank.                *)
LEMMA LeaveFits ==
  ASSUME IInv, NEW c \in Clients, Leave(c),
         \/ UNCHANGED <<public, last, cut>>
         \/ c \in writers
  PROVE  /\ client' \in [Clients -> Client] /\ writers' \subseteq Clients
         /\ readers' \subseteq Clients
         /\ Exclusive'
         /\ \A d \in Clients : Fits(d)'
<1>1. Off \in Client
  BY DEF Off, Client, NoDirectory, Directory, Contents
<1>2. /\ client' = [client EXCEPT ![c] = Off]
      /\ writers' = writers \ {c} /\ readers' = readers \ {c}
  BY DEF Leave, Become
<1>3. client'[c] = Off
  BY <1>2 DEF IInv, TypeOK
<1>4. Fits(c)'
  BY <1>2, <1>3 DEF Fits, Off
<1>5. ASSUME NEW d \in Clients, d # c PROVE Fits(d)'
  <2>1. client'[d] = client[d]
    BY <1>2, <1>5 DEF IInv, TypeOK
  <2>2. UNCHANGED <<public, last, cut>> \/ writers \cup readers \subseteq {c}
    BY Alone
  <2>3. QED
    BY <1>2, <1>5, <2>1, <2>2, Others
<1>6. QED
  BY <1>1, <1>2, <1>4, <1>5 DEF IInv, TypeOK, Exclusive

(* A process that moves on without the lock changing hands.                *)
LEMMA StepFits ==
  ASSUME IInv, NEW c \in Clients, NEW v \in Client, Become(c, v),
         UNCHANGED <<writers, readers>>,
         \/ UNCHANGED <<public, last, cut>>
         \/ c \in writers
  PROVE  /\ client' \in [Clients -> Client] /\ client'[c] = v
         /\ Exclusive'
         /\ \A d \in Clients : d # c => Fits(d)'
<1>1. client' = [client EXCEPT ![c] = v]
  BY DEF Become
<1>2. client'[c] = v
  BY <1>1 DEF IInv, TypeOK
<1>3. ASSUME NEW d \in Clients, d # c PROVE Fits(d)'
  <2>1. client'[d] = client[d]
    BY <1>1, <1>3 DEF IInv, TypeOK
  <2>2. UNCHANGED <<public, last, cut>> \/ writers \cup readers \subseteq {c}
    BY Alone
  <2>3. QED
    BY <1>3, <2>1, <2>2, Others
<1>4. QED
  BY <1>1, <1>2, <1>3 DEF IInv, TypeOK, Exclusive

(* Where no directory is moved, what is kept and served stays so.          *)
LEMMA Quiet ==
  ASSUME IInv, NEW c \in Clients, NEW v \in Client, Become(c, v),
         UNCHANGED <<public, hidden, last>>, cut => cut',
         v.backup = client[c].backup,
         v.step = "moved" <=> client[c].step = "moved"
  PROVE  Served' /\ LastIsKept'
<1>1. /\ client'[c] = v
      /\ \A d \in Clients : d # c => client'[d] = client[d]
  BY DEF Become, IInv, TypeOK
<1>2. \A d \in Clients :
        /\ client'[d].backup = client[d].backup
        /\ client'[d].step = "moved" <=> client[d].step = "moved"
  BY <1>1
<1>3. LastIsKept'
  BY <1>2 DEF IInv, LastIsKept, Whole
<1>4. Served'
  BY <1>2 DEF IInv, Served, Whole
<1>5. QED
  BY <1>3, <1>4

(***************************************************************************)
(* publish.                                                                *)
(***************************************************************************)
LEMMA StartPublishStep ==
  ASSUME IInv, NEW c \in Clients, StartPublish(c)
  PROVE  IInv'
<1>1. PICK overwrite \in BOOLEAN :
        Become(c, [Off EXCEPT !.step = "waiting", !.op = "publish",
                    !.overwrite = overwrite, !.todo = Files,
                    !.stage = [NoDirectory EXCEPT !.content = started + 1]])
  BY DEF StartPublish
<1> DEFINE s == [NoDirectory EXCEPT !.content = started + 1]
           v == [Off EXCEPT !.step = "waiting", !.op = "publish",
                    !.overwrite = overwrite, !.todo = Files, !.stage = s]
<1>2. started + 1 \in Nat \ {0}
  BY DEF IInv, TypeOK, Contents
<1>3. s \in Directory /\ s.content # 0 /\ ~s.doomed /\ s.files = {}
  BY <1>2 DEF Directory, Contents, NoDirectory
<1>4. /\ v \in Client
      /\ v.step = "waiting" /\ v.op = "publish" /\ v.backup = NoDirectory
      /\ v.stage = s /\ v.todo = Files
  <2>1. Off \in Client /\ Off.backup = NoDirectory
    BY DEF Off, Client, NoDirectory, Directory, Contents
  <2> HIDE DEF s
  <2>2. QED
    BY <1>3, <2>1 DEF Client
<1>5. Become(c, v)
  BY <1>1
<1> HIDE DEF v
<1>6. /\ client' \in [Clients -> Client] /\ client'[c] = v
      /\ Exclusive'
      /\ \A d \in Clients : d # c => Fits(d)'
  BY <1>4, <1>5, StepFits DEF StartPublish
<1>7. Fits(c) /\ client[c].step = "idle"
  BY DEF IInv, StartPublish, Is
<1>8. Fits(c)'
  BY <1>3, <1>4, <1>6, <1>7 DEF Fits, StartPublish
<1>9. TypeOK'
  BY <1>2, <1>6 DEF IInv, TypeOK, StartPublish, Contents
<1>10. Served' /\ LastIsKept'
  <2>1. client[c].backup = NoDirectory
    BY <1>7 DEF Fits
  <2>2. QED
    BY <1>4, <1>5, <1>7, <2>1, Quiet DEF StartPublish
<1>11. QED
  BY <1>6, <1>8, <1>9, <1>10 DEF IInv

LEMMA PublishLockStep ==
  ASSUME IInv, NEW c \in Clients, PublishLock(c)
  PROVE  IInv'
<1>1. /\ client[c].op = "publish" /\ client[c].step = "waiting"
      /\ writers = {} /\ readers = {}
      /\ Fits(c) /\ client[c] \in Client
  BY DEF IInv, TypeOK, PublishLock, Is
<1>2. CASE client[c].overwrite \/ public = NoDirectory
  <2> DEFINE v == [client[c] EXCEPT !.step = "copy"]
  <2>1. Become(c, v) /\ writers' = {c} /\ readers' = {}
    BY <1>1, <1>2 DEF PublishLock, Admit
  <2>2. v \in Client /\ client' = [client EXCEPT ![c] = v]
    BY <1>1, <2>1 DEF Client, Become
  <2>3. client'[c] = v /\ \A d \in Clients : d # c => client'[d] = client[d]
    BY <2>2 DEF IInv, TypeOK
  <2>4. Fits(c)'
    BY <1>1, <1>2, <2>1, <2>3 DEF Fits, PublishLock
  <2>5. ASSUME NEW d \in Clients, d # c PROVE Fits(d)'
    BY <1>1, <2>1, <2>3, <2>5, Others DEF PublishLock
  <2>6. Served' /\ LastIsKept'
    <3>1. v.backup = client[c].backup /\ v.step = "copy"
      BY <1>1 DEF Client
    <3>2. QED
      BY <1>1, <2>1, <2>2, <3>1, Quiet DEF PublishLock
  <2>7. TypeOK'
    BY <2>1, <2>2 DEF IInv, TypeOK, PublishLock
  <2>8. Exclusive'
    BY <2>1 DEF Exclusive
  <2>9. QED
    BY <2>4, <2>5, <2>6, <2>7, <2>8 DEF IInv
<1>3. CASE ~(client[c].overwrite \/ public = NoDirectory)
  <2>1. Become(c, Off) /\ UNCHANGED <<writers, readers>>
    BY <1>3 DEF PublishLock, Admit
  <2>2. Leave(c)
    BY <1>1, <2>1 DEF Leave
  <2>3. /\ client' \in [Clients -> Client]
        /\ Exclusive'
        /\ \A d \in Clients : Fits(d)'
    BY <2>2, LeaveFits DEF PublishLock
  <2>4. Off \in Client /\ client[c].backup = NoDirectory
    BY <1>1 DEF Off, Client, NoDirectory, Directory, Contents, Fits
  <2>5. Served' /\ LastIsKept'
    BY <1>1, <2>1, <2>4, Quiet DEF PublishLock, Off
  <2>6. QED
    BY <2>1, <2>3, <2>5 DEF IInv, TypeOK, PublishLock
<1>4. QED
  BY <1>2, <1>3

LEMMA CopyFileStep ==
  ASSUME IInv, NEW c \in Clients, NEW f \in Files, CopyFile(c, f)
  PROVE  IInv'
<1> DEFINE v == [client[c] EXCEPT !.todo = @ \ {f}, !.stage.files = @ \cup {f}]
<1>1. /\ client[c].op = "publish" /\ client[c].step = "copy"
      /\ f \in client[c].todo /\ Fits(c) /\ client[c] \in Client
      /\ Become(c, v)
  BY DEF IInv, TypeOK, CopyFile, Is
<1>2. /\ v \in Client /\ v.step = "copy" /\ v.op = "publish"
      /\ v.backup = client[c].backup /\ v.overwrite = client[c].overwrite
      /\ v.todo = client[c].todo \ {f}
      /\ v.stage.files = client[c].stage.files \cup {f}
      /\ v.stage.content = client[c].stage.content
      /\ v.stage.doomed = client[c].stage.doomed
  BY <1>1 DEF Client, Directory
<1> HIDE DEF v
<1>3. /\ client' \in [Clients -> Client] /\ client'[c] = v
      /\ Exclusive'
      /\ \A d \in Clients : d # c => Fits(d)'
  BY <1>1, <1>2, StepFits DEF CopyFile
<1>4. Fits(c)'
  BY <1>1, <1>2, <1>3 DEF Fits, CopyFile
<1>5. Served' /\ LastIsKept'
  BY <1>1, <1>2, Quiet DEF CopyFile
<1>6. QED
  BY <1>3, <1>4, <1>5 DEF IInv, TypeOK, CopyFile

LEMMA MoveAwayStep ==
  ASSUME IInv, NEW c \in Clients, MoveAway(c)
  PROVE  IInv'
<1> DEFINE v == [client[c] EXCEPT !.step = "moved", !.backup = public]
<1>1. /\ client[c].op = "publish" /\ client[c].step = "copy"
      /\ client[c].todo = {} /\ Fits(c) /\ client[c] \in Client
      /\ Become(c, v) /\ public' = NoDirectory
      /\ c \in writers /\ public \in Directory
  BY DEF IInv, TypeOK, MoveAway, Is, Fits
<1>2. /\ v \in Client /\ v.step = "moved" /\ v.op = "publish"
      /\ v.backup = public /\ v.todo = {} /\ v.stage = client[c].stage
  BY <1>1 DEF Client
<1> HIDE DEF v
<1>3. /\ client' \in [Clients -> Client] /\ client'[c] = v
      /\ Exclusive'
      /\ \A d \in Clients : d # c => Fits(d)'
  BY <1>1, <1>2, StepFits DEF MoveAway
<1>4. \A d \in Clients : client[d].step # "moved"
  BY <1>1, Alone DEF IInv, Fits
<1>5. Fits(c)'
  BY <1>1, <1>2, <1>3, <1>4 DEF Fits, MoveAway, IInv, Served, Whole
<1>6. Served'
  BY <1>1, <1>2, <1>3 DEF Served, MoveAway, NoDirectory
<1>7. LastIsKept'
  <2>1. \A d \in Clients : d # c => client'[d] = client[d]
    BY <1>1 DEF Become, IInv, TypeOK
  <2>2. client[c].backup = NoDirectory
    BY <1>1 DEF Fits
  <2>3. last # 0 => Whole(last) # NoDirectory
    BY DEF Whole, NoDirectory
  <2>4. QED
    BY <1>2, <1>3, <2>1, <2>2, <2>3 DEF IInv, LastIsKept, MoveAway, Whole
<1>8. NoDirectory \in Directory
  BY DEF NoDirectory, Directory, Contents
<1>9. QED
  BY <1>1, <1>3, <1>5, <1>6, <1>7, <1>8 DEF IInv, TypeOK, MoveAway

LEMMA MoveInStep ==
  ASSUME IInv, NEW c \in Clients, MoveIn(c)
  PROVE  IInv'
<1>1. /\ client[c].op = "publish" /\ client[c].step = "moved"
      /\ Fits(c) /\ client[c] \in Client /\ c \in writers
      /\ public' = client[c].stage /\ last' = client[c].stage.content
      /\ UNCHANGED <<hidden, started, faults, cut>>
  BY DEF IInv, TypeOK, MoveIn, Is, Fits
<1>2. public' = Whole(last') /\ last' # 0 /\ last' \in Contents
      /\ public' \in Directory
  BY <1>1 DEF Fits, Client, Directory, Whole
<1>3. Served' /\ LastIsKept'
  BY <1>2 DEF Served, LastIsKept, Whole
<1>4. CASE client[c].backup = NoDirectory
  BY <1>1, <1>2, <1>3, <1>4, LeaveFits DEF MoveIn, IInv, TypeOK
<1>5. CASE client[c].backup # NoDirectory
  <2> DEFINE v == [client[c] EXCEPT !.step = "served"]
  <2>1. /\ v \in Client /\ v.step = "served" /\ v.op = "publish"
        /\ v.backup = client[c].backup /\ v.todo = {}
        /\ v.stage = client[c].stage
    BY <1>1 DEF Client, Fits
  <2>2. Become(c, v) /\ UNCHANGED <<writers, readers>>
    BY <1>5 DEF MoveIn
  <2> HIDE DEF v
  <2>3. /\ client' \in [Clients -> Client] /\ client'[c] = v
        /\ Exclusive'
        /\ \A d \in Clients : d # c => Fits(d)'
    BY <1>1, <2>1, <2>2, StepFits
  <2>4. Fits(c)'
    BY <1>1, <1>2, <2>1, <2>2, <2>3 DEF Fits, Whole
  <2>5. QED
    BY <1>1, <1>2, <1>3, <2>2, <2>3, <2>4 DEF IInv, TypeOK
<1>6. QED
  BY <1>4, <1>5

(* The end of a process that is not between the renames.                   *)
LEMMA QuietEnd ==
  ASSUME IInv, NEW c \in Clients, Leave(c),
         UNCHANGED <<public, last>>, cut => cut',
         cut' \in BOOLEAN, faults' \in Nat,
         hidden \subseteq hidden', hidden' \subseteq Directory,
         client[c].step # "moved", UNCHANGED started,
         UNCHANGED cut \/ c \in writers
  PROVE  IInv'
<1>1. /\ client' \in [Clients -> Client] /\ writers' \subseteq Clients
      /\ readers' \subseteq Clients
      /\ Exclusive'
      /\ \A d \in Clients : Fits(d)'
  BY LeaveFits
<1>2. /\ client'[c] = Off
      /\ \A d \in Clients : d # c => client'[d] = client[d]
  BY DEF Leave, Become, IInv, TypeOK
<1>3. Served'
  BY <1>2 DEF IInv, Served, Off, Whole
<1>4. LastIsKept'
  <2>1. last # 0 => Whole(last) # NoDirectory
    BY DEF Whole, NoDirectory
  <2>2. CASE client[c].step = "served"
    BY <2>2 DEF IInv, Fits, LastIsKept, Whole
  <2>3. CASE client[c].step # "served"
    <3>1. client[c].backup = NoDirectory
      BY <2>3 DEF IInv, Fits
    <3>2. QED
      BY <1>2, <2>1, <3>1 DEF IInv, LastIsKept, Whole
  <2>4. QED
    BY <2>2, <2>3
<1>5. QED
  BY <1>1, <1>3, <1>4 DEF IInv, TypeOK

(* The end of one that is: it leaves the backup hidden, or in its place.   *)
LEMMA MovedEnd ==
  ASSUME IInv, NEW c \in Clients, Leave(c), client[c].step = "moved",
         faults' \in Nat, cut' \in BOOLEAN,
         UNCHANGED <<started, last>>, cut => cut',
         \/ public' = client[c].backup /\ UNCHANGED hidden
         \/ /\ UNCHANGED public /\ cut'
            /\ hidden' = hidden \cup ({client[c].backup} \ {NoDirectory})
  PROVE  IInv'
<1>1. /\ Fits(c) /\ client[c] \in Client /\ c \in writers
      /\ public = NoDirectory /\ client[c].backup \in Directory
  BY DEF IInv, TypeOK, Fits, Client
<1>2. /\ client' \in [Clients -> Client] /\ writers' \subseteq Clients
      /\ readers' \subseteq Clients
      /\ Exclusive'
      /\ \A d \in Clients : Fits(d)'
  BY <1>1, LeaveFits
<1>3. /\ client'[c] = Off
      /\ \A d \in Clients : d # c => client'[d] = client[d]
  BY DEF Leave, Become, IInv, TypeOK
<1>4. NoDirectory.doomed = FALSE
  BY DEF NoDirectory
<1>5. Served'
  BY <1>1, <1>4 DEF Served, Fits, Whole
<1>6. LastIsKept'
  <2>1. last # 0 => Whole(last) # NoDirectory
    BY DEF Whole, NoDirectory
  <2>2. QED
    BY <1>1, <1>3, <2>1 DEF IInv, LastIsKept, Whole
<1>7. QED
  BY <1>1, <1>2, <1>5, <1>6 DEF IInv, TypeOK

LEMMA RestoreStep ==
  ASSUME IInv, NEW c \in Clients, Restore(c)
  PROVE  IInv'
<1>1. client[c].step = "moved" /\ Leave(c) /\ UNCHANGED <<started, last>>
  BY DEF Restore, Is
<1>2. faults' \in Nat /\ cut' \in BOOLEAN /\ (cut => cut')
  <2>1. faults' \in Nat
    BY DEF Restore, Fault, IInv, TypeOK
  <2>2. cut' = cut \/ cut' = TRUE
    BY DEF Restore
  <2>3. QED
    BY <2>1, <2>2 DEF IInv, TypeOK
<1>3. \/ public' = client[c].backup /\ UNCHANGED hidden
      \/ /\ UNCHANGED public /\ cut'
         /\ hidden' = hidden \cup ({client[c].backup} \ {NoDirectory})
  BY DEF Restore
<1>4. QED
  BY <1>1, <1>2, <1>3, MovedEnd

LEMMA RemoveBackupStep ==
  ASSUME IInv, NEW c \in Clients, RemoveBackup(c)
  PROVE  IInv'
<1>1. /\ client[c].step = "served" /\ Leave(c)
      /\ UNCHANGED <<public, started, last, cut>>
  BY DEF RemoveBackup, Is
<1>2. faults' \in Nat /\ cut \in BOOLEAN
  <2>1. UNCHANGED faults \/ Fault
    BY DEF RemoveBackup
  <2>2. QED
    BY <2>1 DEF Fault, IInv, TypeOK
<1>3. hidden \subseteq hidden' /\ hidden' \subseteq Directory
  <2>1. client[c].backup \in Directory /\ hidden \subseteq Directory
    BY DEF IInv, TypeOK, Client
  <2>2. ASSUME NEW left \in SUBSET client[c].backup.files
        PROVE  [client[c].backup EXCEPT !.files = left, !.doomed = TRUE]
                 \in Directory
    BY <2>1 DEF Directory
  <2>3. QED
    BY <2>1, <2>2 DEF RemoveBackup
<1>4. QED
  BY <1>1, <1>2, <1>3, QuietEnd

LEMMA PublishFailsStep ==
  ASSUME IInv, NEW c \in Clients, PublishFails(c)
  PROVE  IInv'
BY QuietEnd DEF PublishFails, Is, Fault, IInv, TypeOK

LEMMA ClientKilledStep ==
  ASSUME IInv, NEW c \in Clients, ClientKilled(c)
  PROVE  IInv'
<1>1. /\ Leave(c) /\ UNCHANGED <<public, started, last>>
      /\ hidden' = hidden \cup ({client[c].backup} \ {NoDirectory})
      /\ faults' \in Nat /\ cut' \in BOOLEAN /\ (cut => cut')
  BY DEF ClientKilled, Fault, IInv, TypeOK
<1>2. hidden \subseteq hidden' /\ hidden' \subseteq Directory
  BY <1>1 DEF IInv, TypeOK, Client
<1>3. CASE client[c].step = "moved"
  BY <1>1, <1>3, MovedEnd DEF ClientKilled
<1>4. CASE client[c].step # "moved"
  BY <1>1, <1>2, <1>4, QuietEnd DEF ClientKilled, IInv, TypeOK
<1>5. QED
  BY <1>3, <1>4

(***************************************************************************)
(* delete.                                                                 *)
(***************************************************************************)
LEMMA StartStep ==
  ASSUME IInv, NEW c \in Clients, NEW op \in {"delete", "list"},
         client[c].step = "idle",
         Become(c, [Off EXCEPT !.step = "waiting", !.op = op]),
         UNCHANGED <<public, hidden, writers, readers, started, faults, last, cut>>
  PROVE  IInv'
<1> DEFINE v == [Off EXCEPT !.step = "waiting", !.op = op]
<1>1. Off \in Client /\ Off.backup = NoDirectory /\ Off.seen = {}
  BY DEF Off, Client, NoDirectory, Directory, Contents
<1>2. /\ v \in Client /\ v.step = "waiting" /\ v.op = op
      /\ v.backup = NoDirectory /\ v.seen = {} /\ Become(c, v)
  BY <1>1 DEF Client
<1> HIDE DEF v
<1>3. /\ client' \in [Clients -> Client] /\ client'[c] = v
      /\ Exclusive'
      /\ \A d \in Clients : d # c => Fits(d)'
  BY <1>2, StepFits
<1>4. Fits(c)
  BY DEF IInv
<1>5. Fits(c)'
  BY <1>2, <1>3, <1>4 DEF Fits
<1>6. Served' /\ LastIsKept'
  <2>1. client[c].backup = NoDirectory
    BY <1>4 DEF Fits
  <2>2. QED
    BY <1>2, <2>1, Quiet
<1>7. QED
  BY <1>3, <1>5, <1>6 DEF IInv, TypeOK

LEMMA DeleteLockStep ==
  ASSUME IInv, NEW c \in Clients, DeleteLock(c)
  PROVE  IInv'
<1>1. /\ client[c].op = "delete" /\ client[c].step = "waiting"
      /\ writers = {} /\ readers = {}
      /\ Fits(c) /\ client[c] \in Client /\ public \in Directory
  BY DEF IInv, TypeOK, DeleteLock, Is
<1>2. CASE public = NoDirectory
  BY <1>1, <1>2, QuietEnd DEF DeleteLock, Leave, IInv, TypeOK
<1>3. CASE public # NoDirectory
  <2> DEFINE v == [client[c] EXCEPT !.step = "removing"]
  <2>1. /\ Become(c, v) /\ writers' = {c} /\ readers' = {} /\ last' = 0
        /\ public' = [public EXCEPT !.doomed = TRUE]
        /\ UNCHANGED <<hidden, started, faults, cut>>
    BY <1>1, <1>3 DEF DeleteLock
  <2>2. /\ v \in Client /\ v.step = "removing" /\ v.op = "delete"
        /\ v.backup = client[c].backup
    BY <1>1 DEF Client
  <2>3. client' = [client EXCEPT ![c] = v]
    BY <2>1 DEF Become
  <2> HIDE DEF v
  <2>4. client'[c] = v /\ \A d \in Clients : d # c => client'[d] = client[d]
    BY <2>3 DEF IInv, TypeOK
  <2>5. public' \in Directory /\ public'.doomed
    BY <1>1, <2>1 DEF Directory
  <2>6. Fits(c)'
    BY <1>1, <2>1, <2>2, <2>4, <2>5 DEF Fits
  <2>7. ASSUME NEW d \in Clients, d # c PROVE Fits(d)'
    BY <1>1, <2>1, <2>4, <2>7, Others
  <2>8. Served' /\ LastIsKept'
    BY <2>1, <2>5 DEF Served, LastIsKept
  <2>9. TypeOK'
    BY <2>1, <2>2, <2>3, <2>5 DEF IInv, TypeOK, Contents
  <2>10. QED
    BY <2>1, <2>6, <2>7, <2>8, <2>9 DEF IInv, Exclusive
<1>4. QED
  BY <1>2, <1>3

LEMMA RemoveFileStep ==
  ASSUME IInv, NEW c \in Clients, NEW f \in Files, RemoveFile(c, f)
  PROVE  IInv'
<1>1. /\ client[c].step = "removing" /\ Fits(c) /\ public \in Directory
      /\ public' = [public EXCEPT !.files = @ \ {f}]
      /\ UNCHANGED <<hidden, writers, readers, client, started, faults, last, cut>>
  BY DEF RemoveFile, Is, IInv, TypeOK
<1>2. /\ public' \in Directory /\ public'.doomed
      /\ public.doomed /\ last = 0 /\ c \in writers
  BY <1>1 DEF Directory, Fits, IInv, Served
<1>3. Fits(c)'
  BY <1>1, <1>2 DEF Fits
<1>4. ASSUME NEW d \in Clients, d # c PROVE Fits(d)'
  BY <1>1, <1>2, <1>4, Alone, Others
<1>5. QED
  BY <1>1, <1>2, <1>3, <1>4 DEF IInv, TypeOK, Exclusive, Served, LastIsKept

LEMMA RemoveDirectoryStep ==
  ASSUME IInv, NEW c \in Clients, RemoveDirectory(c)
  PROVE  IInv'
<1>1. /\ client[c].step = "removing" /\ Fits(c) /\ Leave(c)
      /\ public' = NoDirectory
      /\ UNCHANGED <<hidden, started, faults, last, cut>>
  BY DEF RemoveDirectory, Is, IInv
<1>2. c \in writers /\ last = 0
  BY <1>1 DEF Fits, IInv, Served
<1>3. /\ client' \in [Clients -> Client] /\ writers' \subseteq Clients
      /\ readers' \subseteq Clients
      /\ Exclusive'
      /\ \A d \in Clients : Fits(d)'
  BY <1>1, <1>2, LeaveFits
<1>4. NoDirectory \in Directory /\ ~NoDirectory.doomed
  BY DEF NoDirectory, Directory, Contents
<1>5. QED
  BY <1>1, <1>2, <1>3, <1>4 DEF IInv, TypeOK, Served, LastIsKept

LEMMA DeleteFailsStep ==
  ASSUME IInv, NEW c \in Clients, DeleteFails(c)
  PROVE  IInv'
BY QuietEnd DEF DeleteFails, Is, Fault, IInv, TypeOK

(***************************************************************************)
(* inventory.                                                              *)
(***************************************************************************)
LEMMA ListLockStep ==
  ASSUME IInv, NEW c \in Clients, ListLock(c)
  PROVE  IInv'
<1> DEFINE v == [client[c] EXCEPT !.step = "listing", !.todo = public.files]
<1>1. /\ client[c].op = "list" /\ client[c].step = "waiting" /\ writers = {}
      /\ Fits(c) /\ client[c] \in Client /\ public \in Directory
      /\ Become(c, v) /\ readers' = readers \cup {c}
      /\ UNCHANGED <<public, hidden, writers, started, faults, last, cut>>
  BY DEF IInv, TypeOK, ListLock, Is, Reading
<1>2. /\ v \in Client /\ v.step = "listing" /\ v.op = "list"
      /\ v.backup = client[c].backup /\ v.todo = public.files
      /\ v.seen = {}
  BY <1>1 DEF Client, Directory, Fits
<1>3. client' = [client EXCEPT ![c] = v]
  BY <1>1 DEF Become
<1> HIDE DEF v
<1>4. client'[c] = v /\ \A d \in Clients : d # c => client'[d] = client[d]
  BY <1>3 DEF IInv, TypeOK
<1>5. Fits(c)'
  BY <1>1, <1>2, <1>4 DEF Fits
<1>6. ASSUME NEW d \in Clients, d # c PROVE Fits(d)'
  BY <1>1, <1>4, <1>6, Others
<1>7. Served' /\ LastIsKept'
  BY <1>1, <1>2, Quiet
<1>8. TypeOK'
  BY <1>1, <1>2, <1>3 DEF IInv, TypeOK
<1>9. QED
  BY <1>1, <1>5, <1>6, <1>7, <1>8 DEF IInv, Exclusive

LEMMA ListFileStep ==
  ASSUME IInv, NEW c \in Clients, NEW f \in Files, ListFile(c, f)
  PROVE  IInv'
<1> DEFINE v == [client[c] EXCEPT !.todo = @ \ {f},
                                  !.seen = @ \cup {<<public.content, f>>}]
<1>1. /\ client[c].op = "list" /\ client[c].step = "listing"
      /\ f \in client[c].todo
      /\ Fits(c) /\ client[c] \in Client /\ public \in Directory
      /\ Become(c, v)
      /\ UNCHANGED <<public, hidden, writers, readers, started, faults, last, cut>>
  BY DEF IInv, TypeOK, ListFile, Is
<1>2. /\ v \in Client /\ v.step = "listing" /\ v.op = "list"
      /\ v.backup = client[c].backup /\ v.todo = client[c].todo \ {f}
      /\ v.seen = client[c].seen \cup {<<public.content, f>>}
  <2>1. <<public.content, f>> \in Contents \X Files
    BY <1>1 DEF Directory
  <2>2. v.todo \subseteq Files
    BY <1>1 DEF Client
  <2>3. QED
    BY <1>1, <2>1, <2>2 DEF Client
<1> HIDE DEF v
<1>3. /\ client' \in [Clients -> Client] /\ client'[c] = v
      /\ Exclusive'
      /\ \A d \in Clients : d # c => Fits(d)'
  BY <1>1, <1>2, StepFits
<1>4. Fits(c)'
  BY <1>1, <1>2, <1>3 DEF Fits
<1>5. Served' /\ LastIsKept'
  BY <1>1, <1>2, Quiet
<1>6. QED
  BY <1>1, <1>3, <1>4, <1>5 DEF IInv, TypeOK

LEMMA EndListStep ==
  ASSUME IInv, NEW c \in Clients, EndList(c)
  PROVE  IInv'
BY QuietEnd DEF EndList, Is, IInv, TypeOK

(***************************************************************************)
(* The theorems.                                                           *)
(***************************************************************************)
LEMMA NextInvariant == IInv /\ [Next]_vars => IInv'
<1> SUFFICES ASSUME IInv, [Next]_vars PROVE IInv'
  OBVIOUS
<1>1. CASE UNCHANGED vars
  BY <1>1 DEF vars, IInv, TypeOK, Exclusive, Fits, Served, LastIsKept, Whole
<1>2. ASSUME NEW c \in Clients,
             Publish(c) \/ Remove(c) \/ List(c) \/ ClientKilled(c)
      PROVE  IInv'
  <2>1. CASE Publish(c)
    BY <2>1, StartPublishStep, PublishLockStep, CopyFileStep, MoveAwayStep,
       MoveInStep, RestoreStep, RemoveBackupStep, PublishFailsStep DEF Publish
  <2>2. CASE Remove(c)
    <3>1. CASE StartDelete(c)
      BY <3>1, StartStep DEF StartDelete, Is
    <3>2. QED
      BY <2>2, <3>1, DeleteLockStep, RemoveFileStep, RemoveDirectoryStep,
         DeleteFailsStep DEF Remove
  <2>3. CASE List(c)
    <3>1. CASE StartList(c)
      BY <3>1, StartStep DEF StartList, Is
    <3>2. QED
      BY <2>3, <3>1, ListLockStep, ListFileStep, EndListStep DEF List
  <2>4. QED
    BY <1>2, <2>1, <2>2, <2>3, ClientKilledStep
<1>3. QED
  BY <1>1, <1>2 DEF Next

(* The inductive invariant of the published name holds throughout.         *)
THEOREM Invariance == Spec => []IInv
BY InitInvariant, NextInvariant, PTL DEF Spec

(* The contents last served are never lost (publish_artifact).             *)
THEOREM ContentsAreKept == Spec => []LastIsKept
<1>1. IInv => LastIsKept
  BY DEF IInv
<1>2. QED
  BY <1>1, Invariance, PTL

(* What is served is whole, and a publish that ends leaves the old         *)
(* contents or the new (publish_artifact).                                 *)
THEOREM PublishIsOldOrNew == Spec => []OldOrNew
<1>1. IInv => OldOrNew
  BY DEF IInv, Served, Fits, OldOrNew
<1>2. QED
  BY <1>1, Invariance, PTL

(* A listing sees one publish only (inventory).                            *)
THEOREM ListingsAgree == Spec => []ListingAgrees
<1>1. IInv => ListingAgrees
  BY DEF IInv, Fits, ListingAgrees, Is
<1>2. QED
  BY <1>1, Invariance, PTL

(* Nothing is replaced that was not there, or allowed to be, when the lock *)
(* was taken (publish_artifact).                                           *)
THEOREM ReplacedWithConsent == Spec => ConsentToReplace
<1> DEFINE A == \A c \in Clients :
                 Is(c, "publish", "copy") /\ client'[c] # client[c]
                   /\ public # NoDirectory /\ public' = NoDirectory
                 => client[c].overwrite
<1>1. IInv => A
  BY DEF IInv, Fits, Is
<1>2. IInv /\ [Next]_vars => [A]_vars
  BY <1>1
<1> HIDE DEF A
<1>3. Spec => [][A]_vars
  BY <1>2, Invariance, PTL DEF Spec
<1>4. QED
  BY <1>3 DEF A, ConsentToReplace
=============================================================================
