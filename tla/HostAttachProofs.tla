--------------------------- MODULE HostAttachProofs ---------------------------
(***************************************************************************)
(* Proofs about HostAttach for every number of processes, skills, edits    *)
(* and faults.  Only the process with the lock knows anything that the     *)
(* others could disturb, so one lemma per action is mostly about its own   *)
(* process; the edits of people are the exception.                         *)
(***************************************************************************)
EXTENDS HostAttach, TLAPS

LEMMA DetachedType == Detached \in Attach /\ NoText \in Host
BY AttachAssumption DEF Detached, Attach, AttachSteps, NoText, Host, Entries

LEMMA InitInvariant == Init => IInv
<1> SUFFICES ASSUME Init PROVE IInv
  OBVIOUS
<1>1. [own |-> 0, entry |-> Foreign] \in Host
  BY AttachAssumption DEF Host, Entries
<1>2. host \in {NoText, [own |-> 0, entry |-> Foreign]} /\ host \in Host
  BY <1>1, DetachedType DEF Init
<1>3. host.entry \notin Settings
  BY <1>2, AttachAssumption DEF NoText
<1>4. backup \in Backup
  BY DetachedType DEF Init, Backup
<1>5. TypeOK /\ faults <= MaxFaults
  <2>1. attach \in [Attachers -> Attach] /\ skills \in [Skills -> {"none", "ade", "own"}]
    BY DetachedType DEF Init
  <2>2. faults \in Nat /\ faults <= MaxFaults
    BY AttachAssumption DEF Init
  <2>3. attached \in BOOLEAN /\ crashed \in BOOLEAN
    BY DEF Init
  <2>4. exported \in Settings \cup {NoEntry} /\ lock \in Attachers \cup {Nobody}
    BY DEF Init
  <2>5. QED
    BY <1>2, <1>4, <2>1, <2>2, <2>3, <2>4 DEF TypeOK
<1>6. Exclusive /\ \A a \in Attachers : Fits(a)
  BY AttachAssumption DEF Init, Exclusive, Inside, Fits, Detached
<1>7. TornByFault /\ LinksAccounted
  BY DEF Init, TornByFault, LinksAccounted
<1>8. QED
  BY <1>3, <1>5, <1>6, <1>7 DEF Init, IInv

(* Processes outside the lock know nothing.                                *)
LEMMA Others ==
  ASSUME IInv, NEW a \in Attachers, Inside(a),
         NEW d \in Attachers, d # a, attach'[d] = attach[d]
  PROVE  Fits(d)' /\ ~Inside(d) /\ ~Inside(d)' /\ lock # d
<1>1. lock = a /\ ~Inside(d)
  BY DEF IInv, Exclusive
<1>2. attach[d].step \in {"idle", "waiting"} /\ attach[d].made = {}
  BY <1>1 DEF Inside, IInv, Fits
<1>3. QED
  BY <1>1, <1>2 DEF Inside, Fits

(* An end, with or without the lock.                                       *)
LEMMA LeaveFits ==
  ASSUME IInv, NEW a \in Attachers, Leave(a),
         \/ Inside(a)
         \/ UNCHANGED <<exported, host, backup, attached>>
  PROVE  /\ attach' \in [Attachers -> Attach] /\ attach'[a] = Detached
         /\ \A d \in Attachers : d # a => attach'[d] = attach[d]
         /\ lock' \in Attachers \cup {Nobody}
         /\ Exclusive'
         /\ \A d \in Attachers : Fits(d)'
<1>1. attach' = [attach EXCEPT ![a] = Detached]
  BY DEF Leave, Proceed
<1>2. /\ attach' \in [Attachers -> Attach] /\ attach'[a] = Detached
      /\ \A d \in Attachers : d # a => attach'[d] = attach[d]
  BY <1>1, DetachedType DEF IInv, TypeOK
<1>3. lock' = (IF lock = a THEN Nobody ELSE lock) /\ Nobody \notin Attachers
  BY AttachAssumption DEF Leave
<1>4. Fits(a)' /\ ~Inside(a)'
  BY <1>2 DEF Fits, Inside, Detached
<1>5. ASSUME NEW d \in Attachers, d # a
      PROVE  Fits(d)' /\ (Inside(d)' <=> Inside(d))
  <2>1. attach'[d] = attach[d]
    BY <1>2, <1>5
  <2>2. CASE Inside(a)
    BY <1>5, <2>1, <2>2, Others
  <2>3. CASE UNCHANGED <<exported, host, backup, attached>>
    BY <2>1, <2>3 DEF IInv, Fits, Inside
  <2>4. QED
    BY <2>2, <2>3
<1>6. Exclusive'
  BY <1>3, <1>4, <1>5 DEF IInv, Exclusive
<1>7. lock' \in Attachers \cup {Nobody}
  BY <1>3 DEF IInv, TypeOK
<1>8. QED
  BY <1>2, <1>4, <1>5, <1>6, <1>7

(* A step under the lock.                                                  *)
LEMMA StepFits ==
  ASSUME IInv, NEW a \in Attachers, NEW v \in Attach, Proceed(a, v),
         Inside(a), v.step \notin {"idle", "waiting"}, UNCHANGED lock
  PROVE  /\ attach' \in [Attachers -> Attach] /\ attach'[a] = v
         /\ \A d \in Attachers : d # a => attach'[d] = attach[d]
         /\ Exclusive'
         /\ \A d \in Attachers : d # a => Fits(d)'
<1>1. attach' = [attach EXCEPT ![a] = v]
  BY DEF Proceed
<1>2. /\ attach' \in [Attachers -> Attach] /\ attach'[a] = v
      /\ \A d \in Attachers : d # a => attach'[d] = attach[d]
  BY <1>1 DEF IInv, TypeOK
<1>3. Inside(a)'
  BY <1>2 DEF Inside
<1>4. ASSUME NEW d \in Attachers, d # a
      PROVE  Fits(d)' /\ ~Inside(d)' /\ ~Inside(d)
  BY <1>2, <1>4, Others
<1>5. Exclusive'
  BY <1>3, <1>4 DEF IInv, Exclusive
<1>6. QED
  BY <1>2, <1>4, <1>5

(***************************************************************************)
(* Releases and people.                                                    *)
(***************************************************************************)
LEMMA SwitchReleaseStep ==
  ASSUME IInv, SwitchRelease PROVE IInv'
<1>1. /\ exported' \in Settings /\ lock = Nobody
      /\ UNCHANGED <<lock, host, skills, backup, attach, attached, faults, crashed>>
  BY DEF SwitchRelease
<1>2. ASSUME NEW a \in Attachers PROVE Fits(a)'
  <2>1. ~Inside(a)
    BY <1>1, AttachAssumption DEF IInv, Exclusive
  <2>2. QED
    BY <1>1, <2>1 DEF IInv, Fits, Inside
<1>3. QED
  BY <1>1, <1>2 DEF IInv, TypeOK, Exclusive, Inside, TornByFault, Is,
                    LinksAccounted

LEMMA EditHostStep ==
  ASSUME IInv, EditHost PROVE IInv'
<1>1. PICK e \in {host.entry, NoEntry} : host' = [own |-> host.own + 1, entry |-> e]
  BY DEF EditHost
<1>2. host \in Host /\ host.own < MaxHostEdits
  BY DEF EditHost, IInv, TypeOK
<1>3. host' \in Host /\ (host'.entry \in Settings => host.entry \in Settings)
  BY <1>1, <1>2, AttachAssumption DEF Host, Entries
<1>4. /\ attach' = [a \in Attachers |->
                     [attach[a] EXCEPT !.late = @ \/ Is(a, "compared")]]
      /\ UNCHANGED <<exported, lock, skills, backup, attached, faults, crashed>>
  BY DEF EditHost
<1>5. ASSUME NEW a \in Attachers
      PROVE  /\ attach'[a] \in Attach
             /\ attach'[a].step = attach[a].step
             /\ attach'[a].read = attach[a].read
             /\ attach'[a].entry = attach[a].entry
             /\ attach'[a].made = attach[a].made
             /\ attach[a].step = "compared" => attach'[a].late
  <2>1. attach'[a] = [attach[a] EXCEPT !.late = @ \/ Is(a, "compared")]
    BY <1>4
  <2>2. attach[a] \in Attach
    BY DEF IInv, TypeOK
  <2>3. (attach[a].late \/ Is(a, "compared")) \in BOOLEAN
    BY <2>2 DEF Attach, Is
  <2>4. QED
    BY <2>1, <2>2, <2>3 DEF Attach, Is
<1>6. attach' \in [Attachers -> Attach]
  BY <1>4, <1>5
<1>7. ASSUME NEW a \in Attachers PROVE Fits(a)'
  BY <1>4, <1>5 DEF IInv, Fits
<1>8. Exclusive'
  BY <1>4, <1>5 DEF IInv, Exclusive, Inside
<1>9. TornByFault' /\ LinksAccounted'
  <2>1. UNCHANGED <<skills, backup, attached, faults, crashed>>
    BY <1>4
  <2>2. \A a \in Attachers : /\ attach'[a].made = attach[a].made
                             /\ attach'[a].step = attach[a].step
    BY <1>5
  <2>3. TornByFault'
    BY <2>1, <2>2 DEF IInv, TornByFault, Is
  <2>4. LinksAccounted'
    BY <2>1, <2>2 DEF IInv, LinksAccounted
  <2>5. QED
    BY <2>3, <2>4
<1>10. QED
  BY <1>3, <1>4, <1>6, <1>7, <1>8, <1>9 DEF IInv, TypeOK

LEMMA OwnSkillStep ==
  ASSUME IInv, NEW s \in Skills, OwnSkill(s) PROVE IInv'
<1>1. /\ skills' = [skills EXCEPT ![s] = "own"]
      /\ UNCHANGED <<exported, lock, host, backup, attach, attached, faults, crashed>>
  BY DEF OwnSkill
<1>2. skills' \in [Skills -> {"none", "ade", "own"}]
      /\ \A x \in Skills : skills'[x] = "ade" => skills[x] = "ade"
  BY <1>1 DEF IInv, TypeOK
<1>3. \A a \in Attachers : Fits(a)'
  BY <1>1 DEF IInv, Fits
<1>4. LinksAccounted'
  BY <1>1, <1>2 DEF IInv, LinksAccounted
<1>5. QED
  BY <1>1, <1>2, <1>3, <1>4 DEF IInv, TypeOK, Exclusive, Inside, TornByFault, Is

(***************************************************************************)
(* attach.                                                                 *)
(***************************************************************************)
LEMMA StartAttachStep ==
  ASSUME IInv, NEW a \in Attachers, StartAttach(a) PROVE IInv'
<1> DEFINE v == [attach[a] EXCEPT !.step = "waiting"]
<1>1. /\ attach[a].step = "idle" /\ attach[a] \in Attach /\ Fits(a)
      /\ attach' = [attach EXCEPT ![a] = v]
      /\ UNCHANGED <<exported, lock, host, skills, backup, attached, faults, crashed>>
  BY DEF IInv, TypeOK, StartAttach, ToStep, Proceed, Is
<1>2. v \in Attach /\ v.step = "waiting" /\ v.made = attach[a].made
  BY <1>1 DEF Attach, AttachSteps
<1> HIDE DEF v
<1>3. /\ attach' \in [Attachers -> Attach] /\ attach'[a] = v
      /\ \A d \in Attachers : d # a => attach'[d] = attach[d]
  BY <1>1, <1>2 DEF IInv, TypeOK
<1>4. \A d \in Attachers : Fits(d)' /\ (Inside(d)' <=> Inside(d))
  <2>1. Fits(a)' /\ (Inside(a)' <=> Inside(a))
    BY <1>1, <1>2, <1>3 DEF Fits, Inside
  <2>2. ASSUME NEW d \in Attachers, d # a
        PROVE  Fits(d)' /\ (Inside(d)' <=> Inside(d))
    BY <1>1, <1>3, <2>2 DEF IInv, Fits, Inside
  <2>3. QED
    BY <2>1, <2>2
<1>5. TornByFault' /\ LinksAccounted'
  <2>1. \A d \in Attachers : /\ attach'[d].made = attach[d].made
                             /\ attach[d].step = "writing"
                                  => attach'[d].step = "writing"
    BY <1>1, <1>2, <1>3
  <2>2. TornByFault'
    BY <1>1, <2>1 DEF IInv, TornByFault, Is
  <2>3. LinksAccounted'
    BY <1>1, <2>1 DEF IInv, LinksAccounted
  <2>4. QED
    BY <2>2, <2>3
<1>6. QED
  BY <1>1, <1>3, <1>4, <1>5 DEF IInv, TypeOK, Exclusive

LEMMA AttachLockStep ==
  ASSUME IInv, NEW a \in Attachers, AttachLock(a) PROVE IInv'
<1> DEFINE v == [attach[a] EXCEPT !.step = "read"]
<1>1. /\ attach[a].step = "waiting" /\ attach[a] \in Attach /\ Fits(a)
      /\ attach' = [attach EXCEPT ![a] = v]
      /\ lock = Nobody /\ lock' = a
      /\ UNCHANGED <<exported, host, skills, backup, attached, faults, crashed>>
  BY DEF IInv, TypeOK, AttachLock, ToStep, Proceed, Is
<1>2. v \in Attach /\ v.step = "read" /\ v.made = attach[a].made
  BY <1>1 DEF Attach, AttachSteps
<1> HIDE DEF v
<1>3. /\ attach' \in [Attachers -> Attach] /\ attach'[a] = v
      /\ \A d \in Attachers : d # a => attach'[d] = attach[d]
  BY <1>1, <1>2 DEF IInv, TypeOK
<1>4. \A d \in Attachers : Fits(d)'
  BY <1>1, <1>2, <1>3 DEF IInv, Fits
<1>5. Exclusive'
  BY <1>1, <1>2, <1>3, AttachAssumption DEF IInv, Exclusive, Inside
<1>6. TornByFault' /\ LinksAccounted'
  <2>1. \A d \in Attachers : /\ attach'[d].made = attach[d].made
                             /\ attach[d].step = "writing"
                                  => attach'[d].step = "writing"
    BY <1>1, <1>2, <1>3
  <2>2. TornByFault'
    BY <1>1, <2>1 DEF IInv, TornByFault, Is
  <2>3. LinksAccounted'
    BY <1>1, <2>1 DEF IInv, LinksAccounted
  <2>4. QED
    BY <2>2, <2>3
<1>7. QED
  BY <1>1, <1>3, <1>4, <1>5, <1>6 DEF IInv, TypeOK

(* An end with nothing left behind.                                        *)
LEMMA QuietEnd ==
  ASSUME IInv, NEW a \in Attachers, Leave(a),
         UNCHANGED <<exported, host, backup, attached>>,
         faults' \in Nat, faults' <= faults,
         attach[a].step = "writing" => faults' < faults,
         crashed' \in BOOLEAN, crashed => crashed',
         \/ crashed' /\ UNCHANGED skills
         \/ skills' = [s \in Skills |-> IF s \in attach[a].made THEN "none"
                                        ELSE skills[s]]
  PROVE  IInv'
<1>1. /\ attach' \in [Attachers -> Attach] /\ attach'[a] = Detached
      /\ \A d \in Attachers : d # a => attach'[d] = attach[d]
      /\ lock' \in Attachers \cup {Nobody}
      /\ Exclusive'
      /\ \A d \in Attachers : Fits(d)'
  BY LeaveFits
<1>2. skills' \in [Skills -> {"none", "ade", "own"}]
  BY DEF IInv, TypeOK
<1>3. faults \in Nat /\ faults <= MaxFaults /\ MaxFaults \in Nat
  BY AttachAssumption DEF IInv, TypeOK
<1>4. TornByFault'
  <2>1. CASE attach[a].step = "writing"
    BY <1>3, <2>1 DEF TornByFault
  <2>2. CASE attach[a].step # "writing"
    BY <1>1, <1>3, <2>2 DEF IInv, TornByFault, Is
  <2>3. QED
    BY <2>1, <2>2
<1>5. LinksAccounted'
  <2> SUFFICES ASSUME ~crashed', NEW s \in Skills, skills'[s] = "ade"
               PROVE  attached \/ \E d \in Attachers : s \in attach'[d].made
    BY DEF LinksAccounted
  <2>1. s \notin attach[a].made /\ skills[s] = "ade"
    OBVIOUS
  <2>2. attached \/ \E d \in Attachers : s \in attach[d].made
    BY <2>1 DEF IInv, LinksAccounted
  <2>3. QED
    BY <1>1, <2>1, <2>2
<1>6. QED
  BY <1>1, <1>2, <1>3, <1>4, <1>5 DEF IInv, TypeOK

LEMMA ReadHostStep ==
  ASSUME IInv, NEW a \in Attachers, ReadHost(a) PROVE IInv'
<1>1. /\ attach[a].step = "read" /\ attach[a] \in Attach /\ Fits(a)
      /\ Inside(a) /\ attach[a].made = {}
      /\ UNCHANGED <<exported, host, skills, backup, attached, faults, crashed>>
      /\ skills \in [Skills -> {"none", "ade", "own"}] /\ faults \in Nat
      /\ host \in Host /\ backup \in Backup
  BY DEF IInv, TypeOK, ReadHost, Is, Inside, Fits
<1>2. CASE Conflict
  <2>1. Leave(a)
    BY <1>2 DEF ReadHost
  <2>2. skills' = [s \in Skills |-> IF s \in attach[a].made THEN "none"
                                   ELSE skills[s]]
    BY <1>1
  <2>3. crashed \in BOOLEAN
    BY DEF IInv, TypeOK
  <2>4. QED
    BY <1>1, <2>1, <2>2, <2>3, QuietEnd
<1>3. CASE ~Conflict
  <2> DEFINE step == IF backup.state = "none" THEN "backup" ELSE "link"
             v == [attach[a] EXCEPT !.step = step,
                     !.read = host, !.entry = exported,
                     !.todo = {s \in Skills : skills[s] = "none"}]
  <2>1. Proceed(a, v) /\ UNCHANGED lock
    BY <1>3 DEF ReadHost
  <2>2. exported \in Settings /\ host.entry \in {NoEntry, exported}
    BY <1>3 DEF Conflict, IInv, TypeOK
  <2>3. step \in {"backup", "link"} /\ step \in AttachSteps
    BY DEF AttachSteps
  <2>4. step = "backup" => backup.state = "none"
    OBVIOUS
  <2>5. step = "link" => backup.state # "none"
    OBVIOUS
  <2> HIDE DEF step
  <2>6. /\ v \in Attach /\ v.step = step /\ v.read = host
        /\ v.entry = exported /\ v.made = {}
    BY <1>1, <2>2, <2>3 DEF Attach, Entries
  <2> HIDE DEF v
  <2>7. /\ attach' \in [Attachers -> Attach] /\ attach'[a] = v
        /\ \A d \in Attachers : d # a => attach'[d] = attach[d]
        /\ Exclusive'
        /\ \A d \in Attachers : d # a => Fits(d)'
    BY <1>1, <2>1, <2>3, <2>6, StepFits
  <2>8. step = "backup" => ~attached /\ host.entry = NoEntry
    BY <2>2, <2>4 DEF IInv
  <2>9. Fits(a)'
    BY <1>1, <2>2, <2>3, <2>4, <2>5, <2>6, <2>7, <2>8 DEF Fits
  <2>10. \A d \in Attachers : /\ attach'[d].made = attach[d].made
                              /\ attach[d].step = "writing"
                                   => attach'[d].step = "writing"
    BY <1>1, <2>6, <2>7
  <2>11. TornByFault'
    BY <1>1, <2>10 DEF IInv, TornByFault, Is
  <2>12. LinksAccounted'
    BY <1>1, <2>10 DEF IInv, LinksAccounted
  <2>13. QED
    BY <1>1, <2>1, <2>7, <2>9, <2>11, <2>12 DEF IInv, TypeOK
<1>4. QED
  BY <1>2, <1>3

LEMMA OpenBackupStep ==
  ASSUME IInv, NEW a \in Attachers, OpenBackup(a) PROVE IInv'
<1> DEFINE v == [attach[a] EXCEPT !.step = "writing"]
<1>1. /\ attach[a].step = "backup" /\ attach[a] \in Attach /\ Fits(a)
      /\ Inside(a) /\ Proceed(a, v) /\ backup \in Backup
      /\ backup' = [backup EXCEPT !.state = "torn"]
      /\ UNCHANGED <<exported, lock, host, skills, attached, faults, crashed>>
  BY DEF IInv, TypeOK, OpenBackup, ToStep, Is, Inside
<1>2. /\ v \in Attach /\ v.step = "writing" /\ v.made = attach[a].made
      /\ v.read = attach[a].read /\ v.entry = attach[a].entry
  BY <1>1 DEF Attach, AttachSteps
<1>3. backup' \in Backup /\ backup'.state = "torn"
  BY <1>1 DEF Backup
<1> HIDE DEF v
<1>4. /\ attach' \in [Attachers -> Attach] /\ attach'[a] = v
      /\ \A d \in Attachers : d # a => attach'[d] = attach[d]
      /\ Exclusive'
      /\ \A d \in Attachers : d # a => Fits(d)'
  BY <1>1, <1>2, StepFits
<1>5. Fits(a)'
  BY <1>1, <1>2, <1>3, <1>4 DEF Fits
<1>6. TornByFault'
  BY <1>2, <1>4 DEF TornByFault, Is
<1>7. LinksAccounted'
  <2>1. \A d \in Attachers : attach'[d].made = attach[d].made
    BY <1>2, <1>4
  <2>2. QED
    BY <1>1, <2>1 DEF IInv, LinksAccounted
<1>8. QED
  BY <1>1, <1>3, <1>4, <1>5, <1>6, <1>7 DEF IInv, TypeOK

LEMMA WriteBackupStep ==
  ASSUME IInv, NEW a \in Attachers, WriteBackup(a) PROVE IInv'
<1> DEFINE v == [attach[a] EXCEPT !.step = "link"]
<1>1. /\ attach[a].step = "writing" /\ attach[a] \in Attach /\ Fits(a)
      /\ Inside(a) /\ Proceed(a, v) /\ backup \in Backup
      /\ backup' = [state |-> "whole", text |-> attach[a].read]
      /\ UNCHANGED <<exported, lock, host, skills, attached, faults, crashed>>
  BY DEF IInv, TypeOK, WriteBackup, ToStep, Is, Inside
<1>2. /\ v \in Attach /\ v.step = "link" /\ v.made = attach[a].made
      /\ v.entry = attach[a].entry
  BY <1>1 DEF Attach, AttachSteps
<1>3. /\ backup' \in Backup /\ backup'.state = "whole"
      /\ backup'.text.entry = NoEntry
  BY <1>1 DEF Backup, Attach, Fits
<1> HIDE DEF v
<1>4. /\ attach' \in [Attachers -> Attach] /\ attach'[a] = v
      /\ \A d \in Attachers : d # a => attach'[d] = attach[d]
      /\ Exclusive'
      /\ \A d \in Attachers : d # a => Fits(d)'
  BY <1>1, <1>2, StepFits
<1>5. Fits(a)'
  BY <1>1, <1>2, <1>3, <1>4 DEF Fits
<1>6. TornByFault'
  BY <1>3 DEF TornByFault
<1>7. LinksAccounted'
  <2>1. \A d \in Attachers : attach'[d].made = attach[d].made
    BY <1>2, <1>4
  <2>2. QED
    BY <1>1, <2>1 DEF IInv, LinksAccounted
<1>8. QED
  BY <1>1, <1>3, <1>4, <1>5, <1>6, <1>7 DEF IInv, TypeOK

LEMMA LinkSkillStep ==
  ASSUME IInv, NEW a \in Attachers, NEW s \in Skills, LinkSkill(a, s)
  PROVE  IInv'
<1>1. /\ attach[a].step = "link" /\ attach[a] \in Attach /\ Fits(a)
      /\ Inside(a) /\ skills \in [Skills -> {"none", "ade", "own"}]
      /\ UNCHANGED <<exported, host, backup, attached, faults, crashed>>
      /\ faults \in Nat /\ crashed \in BOOLEAN
  BY DEF IInv, TypeOK, LinkSkill, Is, Inside
<1>2. CASE skills[s] # "none"
  BY <1>1, <1>2, QuietEnd DEF LinkSkill, Undo
<1>3. CASE skills[s] = "none"
  <2> DEFINE v == [attach[a] EXCEPT !.todo = @ \ {s}, !.made = @ \cup {s}]
  <2>1. /\ Proceed(a, v) /\ UNCHANGED lock
        /\ skills' = [skills EXCEPT ![s] = "ade"]
    BY <1>3 DEF LinkSkill
  <2>2. /\ v \in Attach /\ v.step = "link" /\ v.entry = attach[a].entry
        /\ v.made = attach[a].made \cup {s}
    BY <1>1 DEF Attach
  <2> HIDE DEF v
  <2>3. /\ attach' \in [Attachers -> Attach] /\ attach'[a] = v
        /\ \A d \in Attachers : d # a => attach'[d] = attach[d]
        /\ Exclusive'
        /\ \A d \in Attachers : d # a => Fits(d)'
    BY <1>1, <2>1, <2>2, StepFits
  <2>4. Fits(a)'
    BY <1>1, <2>2, <2>3 DEF Fits
  <2>5. TornByFault'
    <3>1. \A d \in Attachers : attach[d].step = "writing"
                                => attach'[d].step = "writing"
      BY <1>1, <2>3
    <3>2. QED
      BY <1>1, <3>1 DEF IInv, TornByFault, Is
  <2>6. LinksAccounted'
    <3> SUFFICES ASSUME ~crashed', NEW x \in Skills, skills'[x] = "ade"
                 PROVE  attached \/ \E d \in Attachers : x \in attach'[d].made
      BY <1>1 DEF LinksAccounted
    <3>1. \A d \in Attachers : attach[d].made \subseteq attach'[d].made
      BY <2>2, <2>3
    <3>2. CASE x = s
      BY <2>2, <2>3, <3>2
    <3>3. CASE x # s
      BY <1>1, <2>1, <3>1, <3>3 DEF IInv, LinksAccounted
    <3>4. QED
      BY <3>2, <3>3
  <2>7. QED
    BY <1>1, <2>1, <2>3, <2>4, <2>5, <2>6 DEF IInv, TypeOK
<1>4. QED
  BY <1>2, <1>3

LEMMA CompareStep ==
  ASSUME IInv, NEW a \in Attachers, Compare(a) PROVE IInv'
<1>1. /\ attach[a].step = "link" /\ attach[a] \in Attach /\ Fits(a)
      /\ Inside(a)
      /\ UNCHANGED <<exported, host, backup, attached, faults, crashed>>
      /\ faults \in Nat /\ crashed \in BOOLEAN
  BY DEF IInv, TypeOK, Compare, Is, Inside
<1>2. CASE host # attach[a].read
  BY <1>1, <1>2, QuietEnd DEF Compare, Undo
<1>3. CASE host = attach[a].read
  <2> DEFINE v == [attach[a] EXCEPT !.step = "compared"]
  <2>1. Proceed(a, v) /\ UNCHANGED <<lock, skills>>
    BY <1>3 DEF Compare, ToStep
  <2>2. /\ v \in Attach /\ v.step = "compared" /\ v.made = attach[a].made
        /\ v.entry = attach[a].entry /\ v.read = attach[a].read
    BY <1>1 DEF Attach, AttachSteps
  <2> HIDE DEF v
  <2>3. /\ attach' \in [Attachers -> Attach] /\ attach'[a] = v
        /\ \A d \in Attachers : d # a => attach'[d] = attach[d]
        /\ Exclusive'
        /\ \A d \in Attachers : d # a => Fits(d)'
    BY <1>1, <2>1, <2>2, StepFits
  <2>4. Fits(a)'
    BY <1>1, <1>3, <2>2, <2>3 DEF Fits
  <2>5. \A d \in Attachers : /\ attach'[d].made = attach[d].made
                             /\ attach[d].step = "writing"
                                  => attach'[d].step = "writing"
    BY <1>1, <2>2, <2>3
  <2>6. TornByFault'
    BY <1>1, <2>5 DEF IInv, TornByFault, Is
  <2>7. LinksAccounted'
    BY <1>1, <2>1, <2>5 DEF IInv, LinksAccounted
  <2>8. QED
    BY <1>1, <2>1, <2>3, <2>4, <2>6, <2>7 DEF IInv, TypeOK
<1>4. QED
  BY <1>2, <1>3

LEMMA ReplaceHostStep ==
  ASSUME IInv, NEW a \in Attachers, ReplaceHost(a) PROVE IInv'
<1>1. /\ attach[a].step = "compared" /\ attach[a] \in Attach /\ Fits(a)
      /\ Inside(a) /\ Leave(a) /\ attached' = TRUE
      /\ host' = [attach[a].read EXCEPT !.entry = attach[a].entry]
      /\ UNCHANGED <<exported, skills, backup, faults, crashed>>
  BY DEF IInv, TypeOK, ReplaceHost, Is, Inside
<1>2. host' \in Host
  BY <1>1 DEF Attach, Host
<1>3. /\ attach' \in [Attachers -> Attach] /\ attach'[a] = Detached
      /\ \A d \in Attachers : d # a => attach'[d] = attach[d]
      /\ lock' \in Attachers \cup {Nobody}
      /\ Exclusive'
      /\ \A d \in Attachers : Fits(d)'
  BY <1>1, LeaveFits
<1>4. TornByFault'
  <2>1. \A d \in Attachers : attach[d].step = "writing"
                              => attach'[d].step = "writing"
    BY <1>1, <1>3
  <2>2. QED
    BY <1>1, <2>1 DEF IInv, TornByFault, Is
<1>5. LinksAccounted'
  BY <1>1 DEF LinksAccounted
<1>6. backup.state # "none"
  BY <1>1 DEF Fits
<1>7. QED
  BY <1>1, <1>2, <1>3, <1>4, <1>5, <1>6 DEF IInv, TypeOK

LEMMA AttachFailsStep ==
  ASSUME IInv, NEW a \in Attachers, AttachFails(a) PROVE IInv'
<1>1. faults' \in Nat /\ faults' < faults
  BY DEF AttachFails, Fault, IInv, TypeOK
<1>2. faults' <= faults
  BY <1>1 DEF IInv, TypeOK
<1>3. crashed \in BOOLEAN
  BY DEF IInv, TypeOK
<1>4. QED
  BY <1>1, <1>2, <1>3, QuietEnd DEF AttachFails, Undo

LEMMA AttachCrashStep ==
  ASSUME IInv, NEW a \in Attachers, AttachCrash(a) PROVE IInv'
<1>1. faults' \in Nat /\ faults' < faults
  BY DEF AttachCrash, Fault, IInv, TypeOK
<1>2. faults' <= faults
  BY <1>1 DEF IInv, TypeOK
<1>3. QED
  BY <1>1, <1>2, QuietEnd DEF AttachCrash

(***************************************************************************)
(* The theorems.                                                           *)
(***************************************************************************)
LEMMA NextInvariant == IInv /\ [Next]_vars => IInv'
<1> SUFFICES ASSUME IInv, [Next]_vars PROVE IInv'
  OBVIOUS
<1>1. CASE UNCHANGED vars
  BY <1>1 DEF vars, IInv, TypeOK, Exclusive, Inside, Fits, TornByFault, Is,
              LinksAccounted
<1>2. ASSUME NEW a \in Attachers,
             StartAttach(a) \/ RunAttach(a) \/ AttachCrash(a)
      PROVE  IInv'
  BY <1>2, StartAttachStep, AttachLockStep, ReadHostStep, OpenBackupStep,
     WriteBackupStep, LinkSkillStep, CompareStep, ReplaceHostStep,
     AttachFailsStep, AttachCrashStep DEF RunAttach
<1>3. QED
  BY <1>1, <1>2, SwitchReleaseStep, EditHostStep, OwnSkillStep DEF Next

(* The inductive invariant of attach holds throughout.                     *)
THEOREM Invariance == Spec => []IInv
BY InitInvariant, NextInvariant, PTL DEF Spec

(* A config is replaced only with a backup of the person's text (attach,   *)
(* hosts.py), a torn one only after a fault.                               *)
THEOREM OriginalBackedUp == Spec => []BackupIsOriginal
<1>1. IInv => BackupIsOriginal
  <2> SUFFICES ASSUME IInv PROVE BackupIsOriginal
    OBVIOUS
  <2>1. backup.state \in {"none", "torn", "whole"}
    BY DEF IInv, TypeOK, Backup
  <2>2. ASSUME attached, faults = MaxFaults PROVE backup.state # "torn"
    <3>1. \A a \in Attachers : ~Is(a, "writing")
      BY <2>2 DEF IInv, Fits, Is
    <3>2. ~(faults < MaxFaults)
      BY <2>2, AttachAssumption
    <3>3. QED
      BY <3>1, <3>2 DEF IInv, TornByFault
  <2>3. QED
    BY <2>1, <2>2 DEF IInv, BackupIsOriginal
<1>2. QED
  BY <1>1, Invariance, PTL

(* Links only with an entry, unless a process was killed (the except       *)
(* clause of attach, hosts.py).                                            *)
THEOREM ConflictsAbortWhole == Spec => []AllOrNothing
<1>1. IInv => AllOrNothing
  <2> SUFFICES ASSUME IInv, ~crashed, lock \notin Attachers,
                      NEW s \in Skills, skills[s] = "ade"
               PROVE  attached
    BY DEF AllOrNothing
  <2>1. ASSUME NEW a \in Attachers PROVE attach[a].made = {}
    <3>1. ~Inside(a)
      BY DEF IInv, Exclusive
    <3>2. QED
      BY <3>1 DEF IInv, Fits, Inside
  <2>2. QED
    BY <2>1 DEF IInv, LinksAccounted
<1>2. QED
  BY <1>1, Invariance, PTL

(* The entry of a config is that of the release in use (attach, hosts.py). *)
THEOREM EntryIsCurrent == Spec => EntryOfCurrent
<1> DEFINE A == host'.entry \notin {NoEntry, host.entry} => host'.entry = exported
<1>1. IInv /\ [Next]_vars => [A]_vars
  <2> SUFFICES ASSUME IInv, Next, ~UNCHANGED host PROVE A
    BY DEF vars
  <2>1. CASE EditHost
    BY <2>1 DEF EditHost
  <2>2. ASSUME NEW a \in Attachers, ReplaceHost(a) PROVE A
    <3>1. attach[a] \in Attach /\ Fits(a) /\ attach[a].step = "compared"
      BY <2>2 DEF IInv, TypeOK, ReplaceHost, Is
    <3>2. host'.entry = attach[a].entry
      BY <2>2, <3>1 DEF ReplaceHost, Attach, Host
    <3>3. QED
      BY <3>1, <3>2 DEF Fits
  <2>3. QED
    BY <2>1, <2>2 DEF Next, SwitchRelease, OwnSkill, StartAttach, RunAttach,
       AttachCrash, AttachLock, ReadHost, OpenBackup, WriteBackup, LinkSkill,
       Compare, AttachFails
<1> HIDE DEF A
<1>2. Spec => [][A]_vars
  BY <1>1, Invariance, PTL DEF Spec
<1>3. QED
  BY <1>2 DEF A, EntryOfCurrent

(* An edit is lost only if it came after the last look (attach, hosts.py). *)
THEOREM EditsAreKept == Spec => EditsSurvive
<1> DEFINE A == host'.own < host.own => \E a \in Attachers : attach[a].late
<1>1. IInv /\ [Next]_vars => [A]_vars
  <2> SUFFICES ASSUME IInv, Next PROVE A
    OBVIOUS
  <2>1. host \in Host /\ ~(host.own < host.own)
    BY AttachAssumption DEF IInv, TypeOK, Host
  <2>2. CASE EditHost
    BY <2>1, <2>2, AttachAssumption DEF EditHost, Host
  <2>3. ASSUME NEW a \in Attachers, ReplaceHost(a) PROVE A
    <3>1. attach[a] \in Attach /\ Fits(a) /\ attach[a].step = "compared"
      BY <2>3 DEF IInv, TypeOK, ReplaceHost, Is
    <3>2. host'.own = attach[a].read.own
      BY <2>3, <3>1 DEF ReplaceHost, Attach, Host
    <3>3. attach[a].late \/ host.own = attach[a].read.own
      BY <3>1 DEF Fits
    <3>4. QED
      BY <2>1, <3>2, <3>3
  <2>4. CASE UNCHANGED host
    BY <2>1, <2>4
  <2>5. QED
    BY <2>2, <2>3, <2>4 DEF Next, SwitchRelease, OwnSkill, StartAttach, RunAttach,
       AttachCrash, AttachLock, ReadHost, OpenBackup, WriteBackup, LinkSkill,
       Compare, AttachFails
<1> HIDE DEF A
<1>2. Spec => [][A]_vars
  BY <1>1, Invariance, PTL DEF Spec
<1>3. QED
  BY <1>2 DEF A, EditsSurvive
=============================================================================
