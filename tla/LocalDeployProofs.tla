--------------------------- MODULE LocalDeployProofs ---------------------------
(***************************************************************************)
(* Proofs about LocalDeploy: IInv is inductive; from it follow that the    *)
(* records of the attempts tell what is installed and what runs, and that  *)
(* no result is replaced, for any number of commits, paths and faults.     *)
(***************************************************************************)
EXTENDS LocalDeploy, TLAPS

(* What the bounds are: there is a manifest at least.                      *)
Bounds == MaxCommits \in Nat /\ MaxPaths \in Nat \ {0} /\ MaxFaults \in Nat

LEMMA InitInvariant == ASSUME Bounds PROVE Init => IInv
<1> SUFFICES ASSUME Init PROVE IInv
  OBVIOUS
<1> USE DEF Bounds, Commits, Paths, Versions, None
<1>1. Idle \in Worker
  BY DEF Idle, Worker
<1>2. TypeOK
  <2>1. [p \in Paths |-> 0] \in [Paths -> Versions]
    OBVIOUS
  <2>2. worker \in [Commits -> Worker]
    BY <1>1 DEF Init
  <2> QED
    BY <2>1, <2>2 DEF Init, TypeOK, NoTrigger
<1>3. HeadIsNewest
  BY DEF Init, HeadIsNewest, NoTrigger, Idle
<1>4. \A c \in Commits : worker[c].step = "none" /\ worker[c].next = 1
  BY DEF Init, Idle
<1>5. OneHolder /\ \A c \in Commits : Attempt(c)
  BY <1>4 DEF Init, OneHolder, Attempt, Holds, Holding, NoTrigger
<1>6. KeepsLatest
  <2>1. Latest(0) /\ Deployed(0)
    BY DEF Init, Latest, Deployed
  <2> QED
    BY <1>4, <2>1 DEF KeepsLatest, Holds, Holding
<1> QED
  BY <1>2, <1>3, <1>5, <1>6 DEF IInv

(***************************************************************************)
(* Steps of the holder of the lock, by what they change.                   *)
(***************************************************************************)
LEMMA HolderAlone ==
  ASSUME IInv, NEW c \in Commits, Holds(c), NEW w,
         worker' = [worker EXCEPT ![c] = w],
         \A d \in Commits \ {c} : record'[d] = record[d],
         trigger' \in {trigger, NoTrigger},
         w.step \in Holding \cup {"none"},
         w.step \in Holding => record'[c] = "running", record'[c] # "none",
         w.step \in {"checking", "building"} => w.next = 1,
         w.step \in {"checking", "building", "copying", "probing"} => ~w.harmed
  PROVE  OneHolder' /\ \A d \in Commits : Attempt(d)'
<1>1. worker'[c] = w /\ \A d \in Commits \ {c} : worker'[d] = worker[d]
  BY DEF IInv, TypeOK
<1>2. OneHolder'
  BY <1>1 DEF IInv, OneHolder, Holds
<1>3. ASSUME NEW d \in Commits PROVE Attempt(d)'
  <2>1. Attempt(d) /\ Attempt(c)
    BY DEF IInv
  <2>2. trigger'.step = "recorded" => trigger' = trigger
    BY DEF NoTrigger
  <2>3. CASE d = c
    <3>1. ~(trigger.step = "recorded" /\ trigger.commit = c)
      BY <2>1 DEF Attempt, Holds, Holding, Idle
    <3> QED
      BY <1>1, <2>2, <2>3, <3>1 DEF Attempt, Holds, Holding
  <2>4. CASE d # c
    BY <1>1, <2>1, <2>2, <2>4 DEF Attempt, Holds
  <2> QED
    BY <2>3, <2>4
<1> QED
  BY <1>2, <1>3

(* It goes on, and writes no record.                                       *)
LEMMA HolderGoesOn ==
  ASSUME IInv, NEW c \in Commits, Holds(c), NEW w,
         worker' = [worker EXCEPT ![c] = w], w.step \in Holding,
         UNCHANGED record,
         \A v \in 0..MaxCommits : Latest(v) /\ Replacing(c, v) => Replacing(c, v)'
  PROVE  KeepsLatest'
<1>1. worker'[c] = w /\ \A d \in Commits \ {c} : worker'[d] = worker[d]
  BY DEF IInv, TypeOK
<1>2. \A d \in Commits : Holds(d)' <=> Holds(d)
  BY <1>1 DEF Holds
<1>3. \A d \in Commits : Lost(d)' <=> Lost(d)
  BY <1>2 DEF Lost
<1>4. \A d \in Commits : Holds(d) => d = c
  BY DEF IInv, OneHolder
<1> SUFFICES ASSUME \A d \in Commits : ~Lost(d)
             PROVE  \E v \in 0..MaxCommits :
                      /\ Latest(v)'
                      /\ (\A d \in Commits : ~Holds(d)') => Deployed(v)'
                      /\ \A d \in Commits : Holds(d)' => Replacing(d, v)'
  BY <1>3 DEF KeepsLatest
<1>5. PICK v \in 0..MaxCommits : Latest(v) /\ Replacing(c, v)
  BY DEF IInv, KeepsLatest
<1>6. Latest(v)'
  BY <1>5 DEF Latest
<1>7. Replacing(c, v)'
  BY <1>5
<1> QED
  BY <1>2, <1>4, <1>6, <1>7

(* It ends with a result, or without.                                      *)
LEMMA HolderEnds ==
  ASSUME Bounds, IInv, NEW c \in Commits, Holds(c), NEW status \in Final,
         worker' = [worker EXCEPT ![c] = Idle],
         record' \in {record, [record EXCEPT ![c] = status]},
         ASSUME NEW v \in 0..MaxCommits, Latest(v), Replacing(c, v),
                status # "broken", record' # record
         PROVE  IF status = "succeeded" THEN v <= c /\ Deployed(c)'
                ELSE Deployed(v)'
  PROVE  KeepsLatest'
<1>1. /\ worker'[c] = Idle /\ ~Holds(c)'
      /\ \A d \in Commits \ {c} : worker'[d] = worker[d]
  BY DEF IInv, TypeOK, Holds, Holding, Idle
<1>2. \A d \in Commits : Holds(d) => d = c
  BY DEF IInv, OneHolder
<1>3. \A d \in Commits : ~Holds(d)'
  BY <1>1, <1>2 DEF Holds
<1>4. record[c] = "running"
  BY DEF IInv, Attempt
<1> SUFFICES ASSUME \A d \in Commits : ~Lost(d)'
             PROVE  \E v \in 0..MaxCommits : Latest(v)' /\ Deployed(v)'
  BY <1>3 DEF KeepsLatest
<1>5. /\ record'[c] = status /\ status # "broken" /\ record' # record
      /\ \A d \in Commits \ {c} : record'[d] = record[d]
  <2>1. record'[c] \notin {"running", "broken"}
    BY <1>3 DEF Lost
  <2>2. record' = [record EXCEPT ![c] = status]
    BY <1>4, <2>1
  <2> QED
    BY <1>4, <2>1, <2>2 DEF IInv, TypeOK
<1>6. \A d \in Commits : ~Lost(d)
  BY <1>2, <1>3, <1>5 DEF Lost
<1>7. PICK v \in 0..MaxCommits : Latest(v) /\ Replacing(c, v)
  BY <1>6 DEF IInv, KeepsLatest
<1>8. CASE status = "succeeded"
  <2>1. v <= c /\ Deployed(c)'
    BY <1>5, <1>7, <1>8
  <2>2. c \in 0..MaxCommits
    BY DEF Bounds, Commits
  <2>3. Latest(c)'
    <3>1. \A d \in Commits : record[d] = "succeeded" => d <= v
      BY <1>7 DEF Latest
    <3>2. \A d \in Commits : record'[d] = "succeeded" => d <= c
      BY <1>5, <2>1, <3>1, <2>2 DEF Commits
    <3> QED
      BY <1>5, <1>8, <3>2 DEF Latest
  <2> QED
    BY <2>1, <2>2, <2>3
<1>9. CASE status # "succeeded"
  <2>1. Deployed(v)'
    BY <1>5, <1>7, <1>9
  <2>2. v # c
    BY <1>4, <1>7 DEF Latest, Commits
  <2>3. Latest(v)'
    BY <1>5, <1>7, <1>9, <2>2 DEF Latest
  <2> QED
    BY <2>1, <2>3
<1> QED
  BY <1>8, <1>9

LEMMA HolderIsOlder ==
  ASSUME IInv, NEW c \in Commits, NEW w, worker' = [worker EXCEPT ![c] = w],
         UNCHANGED head, noted' <= head, trigger' \in {trigger, NoTrigger},
         \A p \in Paths : installed'[p] <= head /\ w.backup[p] <= head,
         \A d \in Commits : record'[d] # "none" => record[d] # "none"
  PROVE  HeadIsNewest'
<1>1. worker'[c] = w /\ \A d \in Commits \ {c} : worker'[d] = worker[d]
  BY DEF IInv, TypeOK
<1>2. trigger'.step # "none" => trigger' = trigger
  BY DEF NoTrigger
<1> QED
  BY <1>1, <1>2 DEF IInv, HeadIsNewest

(* What a holder is, and what holds of Idle and NoTrigger.                 *)
LEMMA Facts ==
  ASSUME Bounds, IInv
  PROVE  /\ Idle \in Worker /\ Idle.step = "none"
         /\ NoTrigger \in [step : {"none", "asked", "recorded"},
                           commit : Versions]
         /\ NoTrigger.step = "none"
         /\ head \in 0..MaxCommits /\ MaxPaths \in Paths
         /\ \A p \in Paths : installed[p] \in Versions /\ installed[p] <= head
         /\ noted <= head /\ \A p \in Paths : None <= head /\ Idle.backup[p] <= head
         /\ \A c \in Commits :
              /\ worker[c] \in Worker /\ Attempt(c)
              /\ \A p \in Paths : worker[c].backup[p] <= head
<1> USE DEF Bounds, Commits, Paths, Versions, None
<1>1. Idle \in Worker /\ Idle.step = "none"
  BY DEF Idle, Worker
<1>2. \A p \in Paths : Idle.backup[p] = None
  BY DEF Idle
<1>3. /\ head \in 0..MaxCommits /\ MaxPaths \in Paths
      /\ \A p \in Paths : installed[p] \in Versions /\ installed[p] <= head
      /\ noted <= head
  <2>1. MaxPaths \in Paths
    OBVIOUS
  <2>2. head \in 0..MaxCommits /\ installed \in [Paths -> Versions]
    BY DEF IInv, TypeOK
  <2>3. noted <= head /\ \A p \in Paths : installed[p] <= head
    BY DEF IInv, HeadIsNewest
  <2> QED
    BY <2>1, <2>2, <2>3
<1>4. \A c \in Commits : /\ worker[c] \in Worker /\ Attempt(c)
                         /\ \A p \in Paths : worker[c].backup[p] <= head
  BY DEF IInv, TypeOK, HeadIsNewest
<1> QED
  BY <1>1, <1>2, <1>3, <1>4 DEF NoTrigger

LEMMA ServerStarts ==
  ASSUME Bounds, IInv, Started \/ NotStarted
  PROVE  /\ service' \in [up : BOOLEAN, files : [Paths -> Versions]]
         /\ noted' \in Versions /\ noted' <= head
         /\ trigger' = NoTrigger
<1>1. CASE Started
  BY <1>1, Facts DEF Started, IInv, TypeOK, Versions, None, Bounds
<1>2. CASE NotStarted
  BY <1>2, Facts DEF NotStarted, IInv, TypeOK
<1> QED
  BY <1>1, <1>2

LEMMA RunsWhatIsThere ==
  ASSUME Bounds, Started, NEW v \in 0..MaxCommits,
         installed = [p \in Paths |-> v], UNCHANGED installed
  PROVE  Deployed(v)'
<1>1. installed[MaxPaths] # None
  BY DEF Bounds, Paths, None
<1>2. service' = [up |-> TRUE, files |-> installed]
  BY <1>1 DEF Started
<1> QED
  BY <1>2 DEF Deployed

(***************************************************************************)
(* The steps of a holder.                                                  *)
(***************************************************************************)
LEMMA FinishInvariant ==
  ASSUME Bounds, IInv, NEW c \in Commits, Holds(c), NEW status \in Final,
         Finish(c, status), UNCHANGED <<named, head, installed>>,
         \/ UNCHANGED <<service, noted, trigger>>
         \/ Started \/ NotStarted,
         ASSUME NEW v \in 0..MaxCommits, Latest(v), Replacing(c, v),
                status # "broken", record' # record
         PROVE  IF status = "succeeded" THEN v <= c /\ Deployed(c)'
                ELSE Deployed(v)'
  PROVE  IInv'
<1>1. /\ worker' = [worker EXCEPT ![c] = Idle]
      /\ record' \in {record, [record EXCEPT ![c] = status]}
      /\ faults' \in 0..MaxFaults
  BY DEF Finish, IInv, TypeOK, Bounds
<1>2. /\ service' \in [up : BOOLEAN, files : [Paths -> Versions]]
      /\ noted' \in Versions /\ noted' <= head
      /\ trigger' \in {trigger, NoTrigger}
  BY ServerStarts, Facts DEF IInv, TypeOK
<1>3. record[c] = "running"
  BY Facts DEF Attempt
<1>4. TypeOK'
  <2>1. worker' \in [Commits -> Worker]
    BY <1>1, Facts DEF IInv, TypeOK
  <2>2. record' \in [Commits -> {"none", "queued", "running"} \cup Final]
    BY <1>1 DEF IInv, TypeOK
  <2>3. trigger' \in [step : {"none", "asked", "recorded"}, commit : Versions]
    BY <1>2, Facts DEF IInv, TypeOK
  <2> QED
    BY <1>1, <1>2, <2>1, <2>2, <2>3 DEF IInv, TypeOK
<1>5. HeadIsNewest'
  <2>1. \A d \in Commits : record'[d] # "none" => record[d] # "none"
    BY <1>1, <1>3 DEF IInv, TypeOK
  <2> QED
    BY <1>1, <1>2, <2>1, Facts, HolderIsOlder
<1>6. OneHolder' /\ \A d \in Commits : Attempt(d)'
  <2>1. \A d \in Commits \ {c} : record'[d] = record[d]
    BY <1>1 DEF IInv, TypeOK
  <2>2. Idle.step \notin Holding
    BY Facts DEF Holding
  <2>3. record'[c] # "none"
    BY <1>1, <1>3 DEF IInv, TypeOK, Final
  <2> QED
    BY <1>1, <1>2, <2>1, <2>2, <2>3, Facts, HolderAlone DEF Holding
<1>7. KeepsLatest'
  BY <1>1, HolderEnds
<1> QED
  BY <1>4, <1>5, <1>6, <1>7 DEF IInv

LEMMA CheckInvariant ==
  ASSUME Bounds, IInv, NEW c \in Commits, Check(c) PROVE IInv'
<1>1. Holds(c) /\ worker[c].step = "checking" /\ record[c] = "running"
  BY Facts DEF Check, Holds, Holding, Attempt
<1>2. CASE head = c
  <2> DEFINE w == [worker[c] EXCEPT !.step = "building"]
  <2>1. /\ worker' = [worker EXCEPT ![c] = w]
        /\ UNCHANGED <<named, head, installed, service, noted, trigger,
                       record, faults>>
    BY <1>2 DEF Check
  <2>2. /\ w \in Worker /\ w.step = "building" /\ w.next = worker[c].next
        /\ w.backup = worker[c].backup /\ w.harmed = worker[c].harmed
    BY Facts DEF Worker, Holding
  <2> HIDE DEF w
  <2>3. worker'[c] = w
    BY <2>1 DEF IInv, TypeOK
  <2>4. TypeOK'
    BY <2>1, <2>2 DEF IInv, TypeOK
  <2>5. HeadIsNewest'
    BY <2>1, <2>2, Facts, HolderIsOlder
  <2>6. OneHolder' /\ \A d \in Commits : Attempt(d)'
    BY <1>1, <2>1, <2>2, Facts, HolderAlone DEF Attempt, Holding
  <2>7. KeepsLatest'
    <3>1. ASSUME NEW v \in 0..MaxCommits, Latest(v), Replacing(c, v)
          PROVE  Replacing(c, v)'
      <4>1. v <= c
        BY <1>2, <3>1, Facts DEF Latest, IInv, HeadIsNewest
      <4>2. Deployed(v)'
        BY <1>1, <2>1, <3>1 DEF Replacing, Deployed
      <4> QED
        BY <2>2, <2>3, <4>1, <4>2 DEF Replacing
    <3> QED
      BY <1>1, <2>1, <2>2, <3>1, HolderGoesOn DEF Holding
  <2> QED
    BY <2>4, <2>5, <2>6, <2>7 DEF IInv
<1>3. CASE head # c
  <2>1. Finish(c, "skipped") /\ UNCHANGED <<named, head, installed, service,
                                            noted, trigger>>
    BY <1>3 DEF Check
  <2>2. ASSUME NEW v \in 0..MaxCommits, Replacing(c, v) PROVE Deployed(v)'
    BY <1>1, <2>1, <2>2 DEF Replacing, Deployed
  <2> QED
    BY <1>1, <2>1, <2>2, FinishInvariant DEF Final
<1> QED
  BY <1>2, <1>3

LEMMA BuildInvariant ==
  ASSUME Bounds, IInv, NEW c \in Commits, Build(c) PROVE IInv'
<1>1. Holds(c) /\ worker[c].step = "building" /\ record[c] = "running"
  BY Facts DEF Build, Holds, Holding, Attempt
<1> DEFINE w == [worker[c] EXCEPT !.step = "copying", !.backup = installed]
<1>2. /\ worker' = [worker EXCEPT ![c] = w]
      /\ UNCHANGED <<named, head, installed, service, noted, trigger,
                     record, faults>>
  BY DEF Build
<1>3. /\ w \in Worker /\ w.step = "copying" /\ w.next = worker[c].next
      /\ w.backup = installed /\ w.harmed = worker[c].harmed
  BY Facts DEF Worker, Holding, IInv, TypeOK
<1> HIDE DEF w
<1>4. worker'[c] = w
  BY <1>2 DEF IInv, TypeOK
<1>5. TypeOK'
  BY <1>2, <1>3 DEF IInv, TypeOK
<1>6. HeadIsNewest'
  BY <1>2, <1>3, Facts, HolderIsOlder
<1>7. OneHolder' /\ \A d \in Commits : Attempt(d)'
  BY <1>1, <1>2, <1>3, Facts, HolderAlone DEF Attempt, Holding
<1>8. KeepsLatest'
  <2>1. ASSUME NEW v \in 0..MaxCommits, Replacing(c, v)
        PROVE  Replacing(c, v)'
    <3>1. v <= c /\ installed = [p \in Paths |-> v]
      BY <1>1, <2>1 DEF Replacing, Deployed
    <3>2. w.next = 1
      BY <1>1, <1>3, Facts DEF Attempt
    <3>3. \A p \in Paths : ~(p < w.next)
      BY <3>2 DEF Paths, Bounds
    <3> QED
      BY <1>3, <1>4, <3>1, <3>3 DEF Replacing
  <2> QED
    BY <1>1, <1>2, <1>3, <2>1, HolderGoesOn DEF Holding
<1> QED
  BY <1>5, <1>6, <1>7, <1>8 DEF IInv

LEMMA BuildFailsInvariant ==
  ASSUME Bounds, IInv, NEW c \in Commits, BuildFails(c) PROVE IInv'
<1>1. Holds(c) /\ worker[c].step \in {"checking", "building"}
  BY DEF BuildFails, Holds, Holding
<1>2. Finish(c, "failed") /\ UNCHANGED <<named, head, installed, service,
                                          noted, trigger>>
  BY DEF BuildFails
<1>3. ASSUME NEW v \in 0..MaxCommits, Replacing(c, v) PROVE Deployed(v)'
  BY <1>1, <1>2, <1>3 DEF Replacing, Deployed
<1> QED
  BY <1>1, <1>2, <1>3, FinishInvariant DEF Final

LEMMA CopyInvariant ==
  ASSUME Bounds, IInv, NEW c \in Commits, Copy(c) PROVE IInv'
<1>1. /\ Holds(c) /\ worker[c].step = "copying" /\ record[c] = "running"
      /\ ~worker[c].harmed /\ worker[c].next \in Paths
  BY Facts DEF Copy, Holds, Holding, Attempt, Worker, Paths, Bounds
<1> DEFINE n == worker[c].next
           w == [worker[c] EXCEPT !.next = @ + 1]
<1>2. /\ worker' = [worker EXCEPT ![c] = w]
      /\ installed' = [installed EXCEPT ![n] = c]
      /\ UNCHANGED <<named, head, service, noted, trigger, record, faults>>
  BY DEF Copy
<1>3. n + 1 \in 1..(MaxPaths + 1)
  BY <1>1 DEF Paths, Bounds
<1>4. /\ w \in Worker /\ w.step = "copying" /\ w.next = n + 1
      /\ w.backup = worker[c].backup /\ w.harmed = worker[c].harmed
  BY <1>1, <1>3, Facts DEF Worker
<1> HIDE DEF w
<1>5. worker'[c] = w
  BY <1>2 DEF IInv, TypeOK
<1>6. /\ installed' \in [Paths -> Versions] /\ installed'[n] = c
      /\ \A p \in Paths \ {n} : installed'[p] = installed[p]
  BY <1>1, <1>2 DEF IInv, TypeOK, Versions, Commits
<1>7. TypeOK'
  BY <1>2, <1>4, <1>6 DEF IInv, TypeOK
<1>8. c <= head
  BY <1>1 DEF IInv, HeadIsNewest
<1>9. HeadIsNewest'
  <2>1. \A p \in Paths : installed'[p] <= head /\ w.backup[p] <= head
    BY <1>4, <1>6, <1>8, Facts
  <2> QED
    BY <1>2, <2>1, Facts, HolderIsOlder
<1>10. OneHolder' /\ \A d \in Commits : Attempt(d)'
  BY <1>1, <1>2, <1>4, Facts, HolderAlone DEF Holding
<1>11. KeepsLatest'
  <2>1. ASSUME NEW v \in 0..MaxCommits, Replacing(c, v)
        PROVE  Replacing(c, v)'
    <3>1. /\ v <= c /\ w.backup = [p \in Paths |-> v]
          /\ \A p \in Paths : p < n => installed[p] = c
      BY <1>1, <1>4, <2>1 DEF Replacing
    <3>2. ASSUME NEW p \in Paths, p < w.next PROVE installed'[p] = c
      BY <1>1, <1>4, <1>6, <3>1, <3>2 DEF Paths, Bounds
    <3> QED
      BY <1>4, <1>5, <3>1, <3>2 DEF Replacing
  <2> QED
    BY <1>1, <1>2, <1>4, <2>1, HolderGoesOn DEF Holding
<1> QED
  BY <1>7, <1>9, <1>10, <1>11 DEF IInv

LEMMA RestartInvariant ==
  ASSUME Bounds, IInv, NEW c \in Commits, Restart(c) PROVE IInv'
<1>1. /\ Holds(c) /\ worker[c].step = "copying" /\ record[c] = "running"
      /\ ~worker[c].harmed /\ worker[c].next > MaxPaths
  BY Facts DEF Restart, Holds, Holding, Attempt
<1> DEFINE w == [worker[c] EXCEPT !.step = "probing"]
<1>2. /\ worker' = [worker EXCEPT ![c] = w] /\ Started
      /\ UNCHANGED <<named, head, installed, record, faults>>
  BY DEF Restart
<1>3. /\ w \in Worker /\ w.step = "probing"
      /\ w.backup = worker[c].backup /\ w.harmed = worker[c].harmed
  BY Facts DEF Worker, Holding
<1> HIDE DEF w
<1>4. worker'[c] = w
  BY <1>2 DEF IInv, TypeOK
<1>5. /\ service' \in [up : BOOLEAN, files : [Paths -> Versions]]
      /\ noted' \in Versions /\ noted' <= head /\ trigger' = NoTrigger
  BY <1>2, ServerStarts
<1>6. TypeOK'
  BY <1>2, <1>3, <1>5, Facts DEF IInv, TypeOK
<1>7. HeadIsNewest'
  BY <1>2, <1>3, <1>5, Facts, HolderIsOlder
<1>8. OneHolder' /\ \A d \in Commits : Attempt(d)'
  BY <1>1, <1>2, <1>3, <1>5, Facts, HolderAlone DEF Holding
<1>9. KeepsLatest'
  <2>1. ASSUME NEW v \in 0..MaxCommits, Replacing(c, v)
        PROVE  Replacing(c, v)'
    <3>1. /\ v <= c /\ w.backup = [p \in Paths |-> v]
          /\ \A p \in Paths : p < worker[c].next => installed[p] = c
      BY <1>1, <1>3, <2>1 DEF Replacing
    <3>2. worker[c].next \in Int
      BY Facts DEF Worker, Bounds
    <3>3. \A p \in Paths : installed[p] = c
      BY <1>1, <3>1, <3>2 DEF Paths, Bounds
    <3>4. installed = [p \in Paths |-> c] /\ c \in 0..MaxCommits
      BY <3>3 DEF IInv, TypeOK, Commits, Bounds
    <3>5. Deployed(c)'
      BY <1>2, <3>4, RunsWhatIsThere
    <3> QED
      BY <1>3, <1>4, <3>1, <3>5 DEF Replacing
  <2> QED
    BY <1>1, <1>2, <1>3, <2>1, HolderGoesOn DEF Holding
<1> QED
  BY <1>6, <1>7, <1>8, <1>9 DEF IInv

LEMMA HealthyInvariant ==
  ASSUME Bounds, IInv, NEW c \in Commits, Healthy(c) PROVE IInv'
<1>1. Holds(c) /\ worker[c].step = "probing"
  BY DEF Healthy, Holds, Holding
<1>2. Finish(c, "succeeded") /\ UNCHANGED <<named, head, installed, service,
                                             noted, trigger>>
  BY DEF Healthy
<1>3. ASSUME NEW v \in 0..MaxCommits, Replacing(c, v)
      PROVE  v <= c /\ Deployed(c)'
  BY <1>1, <1>2, <1>3 DEF Replacing, Deployed
<1> QED
  BY <1>1, <1>2, <1>3, FinishInvariant DEF Final

LEMMA SwitchFailsInvariant ==
  ASSUME Bounds, IInv, NEW c \in Commits, SwitchFails(c) PROVE IInv'
<1>1. /\ Holds(c) /\ worker[c].step \in {"copying", "probing"}
      /\ record[c] = "running"
  BY Facts DEF SwitchFails, Holds, Holding, Attempt
<1> DEFINE w == [worker[c] EXCEPT !.step = "restoring", !.next = 1]
<1>2. /\ worker' = [worker EXCEPT ![c] = w]
      /\ UNCHANGED <<service, noted, trigger>> \/ NotStarted
      /\ UNCHANGED <<named, head, installed, record, faults>>
  BY DEF SwitchFails
<1>3. /\ w \in Worker /\ w.step = "restoring" /\ w.next = 1
      /\ w.backup = worker[c].backup
  <2>1. 1 \in 1..(MaxPaths + 1)
    BY DEF Bounds
  <2> QED
    BY <2>1, Facts DEF Worker, Holding
<1> HIDE DEF w
<1>4. worker'[c] = w
  BY <1>2 DEF IInv, TypeOK
<1>5. /\ service' \in [up : BOOLEAN, files : [Paths -> Versions]]
      /\ noted' \in Versions /\ noted' <= head
      /\ trigger' \in {trigger, NoTrigger}
  BY <1>2, Facts, ServerStarts DEF IInv, TypeOK
<1>6. trigger' \in [step : {"none", "asked", "recorded"}, commit : Versions]
  BY <1>5, Facts DEF IInv, TypeOK
<1>7. TypeOK'
  BY <1>2, <1>3, <1>5, <1>6 DEF IInv, TypeOK
<1>8. HeadIsNewest'
  BY <1>2, <1>3, <1>5, Facts, HolderIsOlder
<1>9. OneHolder' /\ \A d \in Commits : Attempt(d)'
  BY <1>1, <1>2, <1>3, <1>5, Facts, HolderAlone DEF Holding
<1>10. KeepsLatest'
  <2>1. ASSUME NEW v \in 0..MaxCommits, Replacing(c, v)
        PROVE  Replacing(c, v)'
    <3>1. v <= c /\ w.backup = [p \in Paths |-> v]
      BY <1>1, <1>3, <2>1 DEF Replacing
    <3>2. \A p \in Paths : ~(p < w.next)
      BY <1>3 DEF Paths, Bounds
    <3> QED
      BY <1>3, <1>4, <3>1, <3>2 DEF Replacing
  <2> QED
    BY <1>1, <1>2, <1>3, <2>1, HolderGoesOn DEF Holding
<1> QED
  BY <1>7, <1>8, <1>9, <1>10 DEF IInv

LEMMA RestorePathInvariant ==
  ASSUME Bounds, IInv, NEW c \in Commits, RestorePath(c) \/ RestorePathFails(c)
  PROVE  IInv'
<1>1. /\ Holds(c) /\ worker[c].step = "restoring" /\ record[c] = "running"
      /\ worker[c].next \in Paths
  BY Facts DEF RestorePath, RestorePathFails, Holds, Holding, Attempt, Worker,
               Paths, Bounds
<1> DEFINE n == worker[c].next
<1>2. PICK left \in {worker[c].backup[n], installed[n], None},
           harmed \in {worker[c].harmed, TRUE} :
        /\ worker' = [worker EXCEPT ![c].next = @ + 1, ![c].harmed = harmed]
        /\ installed' = [installed EXCEPT ![n] = left]
        /\ ~harmed => left = worker[c].backup[n]
        /\ UNCHANGED <<named, head, service, noted, trigger, record>>
        /\ faults' \in 0..MaxFaults
  <2>1. CASE RestorePath(c)
    <3>1. worker' = [worker EXCEPT ![c].next = @ + 1,
                                   ![c].harmed = worker[c].harmed]
      BY <2>1, Facts DEF RestorePath, Worker
    <3>2. /\ installed' = [installed EXCEPT ![n] = worker[c].backup[n]]
          /\ UNCHANGED <<named, head, service, noted, trigger, record>>
          /\ faults' \in 0..MaxFaults
      BY <2>1 DEF RestorePath, IInv, TypeOK
    <3> QED
      BY <3>1, <3>2
  <2>2. CASE RestorePathFails(c)
    <3>1. PICK left \in {installed[n], None} :
                 installed' = [installed EXCEPT ![n] = left]
      BY <2>2 DEF RestorePathFails
    <3>2. /\ worker' = [worker EXCEPT ![c].next = @ + 1, ![c].harmed = TRUE]
          /\ UNCHANGED <<named, head, service, noted, trigger, record>>
      BY <2>2 DEF RestorePathFails
    <3>3. faults' \in 0..MaxFaults
      BY <2>2 DEF RestorePathFails, IInv, TypeOK, Bounds
    <3> QED
      BY <3>1, <3>2, <3>3
  <2> QED
    BY <2>1, <2>2
<1> DEFINE w == [worker[c] EXCEPT !.next = @ + 1, !.harmed = harmed]
<1>3. worker' = [worker EXCEPT ![c] = w]
  BY <1>2
<1>4. n + 1 \in 1..(MaxPaths + 1) /\ worker[c].harmed \in BOOLEAN
  BY <1>1, Facts DEF Paths, Bounds, Worker
<1>5. /\ w \in Worker /\ w.step = "restoring" /\ w.next = n + 1
      /\ w.backup = worker[c].backup /\ w.harmed = harmed
  BY <1>1, <1>4, Facts DEF Worker
<1> HIDE DEF w
<1>6. worker'[c] = w
  BY <1>3 DEF IInv, TypeOK
<1>7. left \in Versions /\ left <= head
  <2>1. worker[c].backup[n] \in Versions /\ None \in Versions
    BY <1>1, Facts DEF Worker, Versions
  <2> QED
    BY <1>1, <2>1, Facts
<1>8. /\ installed' \in [Paths -> Versions] /\ installed'[n] = left
      /\ \A p \in Paths \ {n} : installed'[p] = installed[p]
  BY <1>1, <1>2, <1>7 DEF IInv, TypeOK
<1>9. TypeOK'
  <2>1. worker' \in [Commits -> Worker]
    BY <1>3, <1>5 DEF IInv, TypeOK
  <2>2. /\ UNCHANGED <<named, head, service, noted, trigger, record>>
        /\ faults' \in 0..MaxFaults
    BY <1>2
  <2> QED
    BY <1>8, <2>1, <2>2 DEF IInv, TypeOK
<1>10. HeadIsNewest'
  <2>1. \A p \in Paths : installed'[p] <= head /\ w.backup[p] <= head
    BY <1>5, <1>7, <1>8, Facts
  <2> QED
    BY <1>2, <1>3, <2>1, Facts, HolderIsOlder
<1>11. OneHolder' /\ \A d \in Commits : Attempt(d)'
  BY <1>1, <1>2, <1>3, <1>5, Facts, HolderAlone DEF Holding
<1>12. KeepsLatest'
  <2>1. ASSUME NEW v \in 0..MaxCommits, Replacing(c, v)
        PROVE  Replacing(c, v)'
    <3>1. v <= c /\ w.backup = [p \in Paths |-> v]
      BY <1>1, <1>5, <2>1 DEF Replacing
    <3>2. ASSUME ~w.harmed, NEW p \in Paths, p < w.next
          PROVE  installed'[p] = v
      <4>1. ~worker[c].harmed /\ left = v
        BY <1>1, <1>2, <1>5, <3>1, <3>2
      <4>2. p # n => p < n
        BY <1>1, <1>5, <3>2 DEF Paths, Bounds
      <4>3. p # n => installed[p] = v
        BY <1>1, <2>1, <4>1, <4>2 DEF Replacing
      <4> QED
        BY <1>8, <4>1, <4>3
    <3> QED
      BY <1>5, <1>6, <3>1, <3>2 DEF Replacing
  <2> QED
    BY <1>1, <1>2, <1>3, <1>5, <2>1, HolderGoesOn DEF Holding
<1> QED
  BY <1>9, <1>10, <1>11, <1>12 DEF IInv

LEMMA RestoreEndsInvariant ==
  ASSUME Bounds, IInv, NEW c \in Commits, RestoreEnds(c) PROVE IInv'
<1>1. /\ Holds(c) /\ worker[c].step = "restoring" /\ worker[c].next > MaxPaths
      /\ UNCHANGED <<named, head, installed>>
  BY DEF RestoreEnds, Holds, Holding
<1>2. PICK status \in {"failed", "broken"} :
        /\ Finish(c, status)
        /\ \/ Started /\ (worker[c].harmed => status = "broken")
           \/ NotStarted /\ status = "broken"
  BY DEF RestoreEnds
<1>3. ASSUME NEW v \in 0..MaxCommits, Replacing(c, v), status # "broken"
      PROVE  Deployed(v)'
  <2>1. Started /\ ~worker[c].harmed
    BY <1>2, <1>3
  <2>2. worker[c].next \in Int
    BY Facts DEF Worker, Bounds
  <2>3. \A p \in Paths : p < worker[c].next
    BY <1>1, <2>2 DEF Paths, Bounds
  <2>4. installed = [p \in Paths |-> v]
    BY <1>1, <1>3, <2>1, <2>3 DEF Replacing, IInv, TypeOK
  <2> QED
    BY <1>1, <2>1, <2>4, RunsWhatIsThere
<1> QED
  BY <1>1, <1>2, <1>3, FinishInvariant DEF Final

(***************************************************************************)
(* The other steps.                                                        *)
(***************************************************************************)
LEMMA LockInvariant ==
  ASSUME Bounds, IInv, NEW c \in Commits, Lock(c) PROVE IInv'
<1>1. /\ worker[c].step = "waiting" /\ record[c] = "queued"
      /\ worker[c].next = 1 /\ ~worker[c].harmed
      /\ \A d \in Commits : ~Holds(d)
  BY Facts DEF Lock, Holds, Attempt
<1> DEFINE w == [worker[c] EXCEPT !.step = "checking"]
<1>2. /\ worker' = [worker EXCEPT ![c] = w]
      /\ record' = [record EXCEPT ![c] = "running"]
      /\ UNCHANGED <<named, head, installed, service, noted, trigger, faults>>
  BY DEF Lock
<1>3. /\ w \in Worker /\ w.step = "checking" /\ w.next = 1 /\ ~w.harmed
      /\ w.backup = worker[c].backup
  BY <1>1, Facts DEF Worker, Holding
<1> HIDE DEF w
<1>4. /\ worker'[c] = w /\ record'[c] = "running"
      /\ \A d \in Commits \ {c} : worker'[d] = worker[d] /\ record'[d] = record[d]
  BY <1>2 DEF IInv, TypeOK
<1>5. Holds(c)' /\ \A d \in Commits \ {c} : ~Holds(d)'
  BY <1>1, <1>3, <1>4 DEF Holds, Holding
<1>6. TypeOK'
  BY <1>2, <1>3 DEF IInv, TypeOK
<1>7. HeadIsNewest'
  <2>1. \A d \in Commits : record'[d] # "none" => record[d] # "none"
    BY <1>1, <1>4
  <2> QED
    BY <1>2, <1>3, <2>1, Facts, HolderIsOlder
<1>8. OneHolder'
  BY <1>5 DEF OneHolder
<1>9. ASSUME NEW d \in Commits PROVE Attempt(d)'
  <2>1. CASE d = c
    <3>1. ~(trigger.step = "recorded" /\ trigger.commit = c)
      BY <1>1, Facts DEF Attempt
    <3> QED
      BY <1>2, <1>3, <1>4, <2>1, <3>1 DEF Attempt, Holds
  <2>2. CASE d # c
    BY <1>2, <1>4, <2>2, Facts DEF Attempt, Holds
  <2> QED
    BY <2>1, <2>2
<1>10. KeepsLatest'
  <2>1. \A d \in Commits : Lost(d) => Lost(d)'
    BY <1>1, <1>4, <1>5 DEF Lost
  <2> SUFFICES ASSUME \A d \in Commits : ~Lost(d)
               PROVE  \E v \in 0..MaxCommits : Latest(v)' /\ Replacing(c, v)'
    BY <1>5, <2>1 DEF KeepsLatest
  <2>2. PICK v \in 0..MaxCommits : Latest(v) /\ Deployed(v)
    BY <1>1 DEF IInv, KeepsLatest
  <2>3. Latest(v)'
    BY <1>1, <1>4, <2>2 DEF Latest
  <2>4. Replacing(c, v)'
    BY <1>2, <1>3, <1>4, <2>2 DEF Replacing, Deployed
  <2> QED
    BY <2>3, <2>4
<1> QED
  BY <1>6, <1>7, <1>8, <1>9, <1>10 DEF IInv

LEMMA KillInvariant ==
  ASSUME Bounds, IInv, NEW c \in Commits, Kill(c) PROVE IInv'
<1>1. /\ worker' = [worker EXCEPT ![c] = Idle] /\ faults' \in 0..MaxFaults
      /\ UNCHANGED <<named, head, installed, service, noted, trigger, record>>
  BY DEF Kill, IInv, TypeOK, Bounds
<1>2. /\ worker'[c] = Idle
      /\ \A d \in Commits \ {c} : worker'[d] = worker[d]
  BY <1>1 DEF IInv, TypeOK
<1>3. ~Holds(c)' /\ \A d \in Commits \ {c} : Holds(d)' <=> Holds(d)
  BY <1>2, Facts DEF Holds, Holding
<1>4. TypeOK'
  BY <1>1, Facts DEF IInv, TypeOK
<1>5. HeadIsNewest'
  BY <1>1, Facts, HolderIsOlder
<1>6. OneHolder'
  BY <1>3 DEF IInv, OneHolder
<1>7. ASSUME NEW d \in Commits PROVE Attempt(d)'
  <2>1. CASE d = c
    BY <1>1, <1>2, <1>3, <2>1, Facts DEF Attempt
  <2>2. CASE d # c
    BY <1>1, <1>2, <1>3, <2>2, Facts DEF Attempt
  <2> QED
    BY <2>1, <2>2
<1>8. KeepsLatest'
  <2>1. CASE Holds(c)
    <3>1. Lost(c)'
      BY <1>1, <1>3, <2>1, Facts DEF Lost, Attempt
    <3> QED
      BY <3>1 DEF KeepsLatest
  <2>2. CASE ~Holds(c)
    <3>1. \A d \in Commits : (Holds(d)' <=> Holds(d)) /\ (Lost(d)' <=> Lost(d))
      BY <1>1, <1>3, <2>2 DEF Lost
    <3>2. \A v : (Latest(v)' <=> Latest(v)) /\ (Deployed(v)' <=> Deployed(v))
      BY <1>1 DEF Latest, Deployed
    <3>3. \A v : \A d \in Commits :
             Holds(d) /\ Replacing(d, v) => Replacing(d, v)'
      <4> SUFFICES ASSUME NEW v, NEW d \in Commits, Holds(d), Replacing(d, v)
                   PROVE  Replacing(d, v)'
        OBVIOUS
      <4> QED
        BY <1>1, <1>2, <2>2 DEF Replacing, Deployed
    <3>4. CASE \E d \in Commits : Lost(d)
      BY <3>1, <3>4 DEF KeepsLatest
    <3>5. CASE \A d \in Commits : ~Lost(d)
      <4>1. PICK v \in 0..MaxCommits :
              /\ Latest(v)
              /\ (\A d \in Commits : ~Holds(d)) => Deployed(v)
              /\ \A d \in Commits : Holds(d) => Replacing(d, v)
        BY <3>5 DEF IInv, KeepsLatest
      <4>2. /\ Latest(v)'
            /\ (\A d \in Commits : ~Holds(d)') => Deployed(v)'
            /\ \A d \in Commits : Holds(d)' => Replacing(d, v)'
        BY <3>1, <3>2, <3>3, <4>1
      <4> QED
        BY <4>2 DEF KeepsLatest
    <3> QED
      BY <3>4, <3>5
  <2> QED
    BY <2>1, <2>2
<1> QED
  BY <1>4, <1>5, <1>6, <1>7, <1>8 DEF IInv

(* The repository and the monitor; nothing but these moves.                *)
LEMMA MonitorInvariant ==
  ASSUME Bounds, IInv, Commit \/ See \/ EnqueueFails PROVE IInv'
<1>1. UNCHANGED <<named, installed, service, record, worker>>
  BY DEF Commit, See, EnqueueFails
<1>2. /\ head' \in 0..MaxCommits /\ head <= head' /\ faults' \in 0..MaxFaults
      /\ noted' \in Versions /\ noted' <= head'
      /\ trigger' \in [step : {"none", "asked", "recorded"}, commit : Versions]
      /\ trigger'.step # "none" => trigger'.commit \in 1..head'
      /\ trigger'.step = "recorded" => trigger' = trigger
  <2>1. /\ noted \in Versions /\ noted <= head
        /\ trigger \in [step : {"none", "asked", "recorded"}, commit : Versions]
        /\ trigger.step # "none" => trigger.commit \in 1..head
    BY DEF IInv, TypeOK, HeadIsNewest
  <2>2. CASE Commit
    BY <2>1, <2>2, Facts DEF Commit, Bounds, Versions, None, IInv, TypeOK
  <2>3. CASE See
    <3>1. head \in Versions
      BY Facts DEF Versions
    <3>2. CASE noted = None
      BY <2>3, <3>1, <3>2, Facts DEF See, Bounds, IInv, TypeOK
    <3>3. CASE noted # None
      <4>1. trigger' = [step |-> "asked", commit |-> head]
        BY <2>3, <3>3 DEF See
      <4>2. head \in 1..head
        BY <2>1, <2>3, <3>3, Facts DEF See, Versions, None, Bounds
      <4> QED
        BY <2>3, <3>1, <4>1, <4>2, Facts DEF See, Bounds, IInv, TypeOK
    <3> QED
      BY <3>2, <3>3
  <2>4. CASE EnqueueFails
    BY <2>1, <2>4, Facts DEF EnqueueFails, Bounds, IInv, TypeOK
  <2> QED
    BY <2>2, <2>3, <2>4
<1>3. TypeOK'
  BY <1>1, <1>2 DEF IInv, TypeOK
<1>4. HeadIsNewest'
  <2>1. ASSUME NEW p \in Paths
        PROVE  installed[p] <= head' /\ \A c \in Commits : worker[c].backup[p] <= head'
    BY <1>2, Facts DEF Versions, None, Worker, Bounds
  <2>2. \A c \in Commits : record[c] # "none" => c <= head'
    BY <1>2, Facts DEF IInv, HeadIsNewest, Commits, Bounds
  <2> QED
    BY <1>1, <1>2, <2>1, <2>2 DEF HeadIsNewest
<1>5. OneHolder' /\ KeepsLatest'
  BY <1>1 DEF IInv, OneHolder, KeepsLatest, Holds, Lost, Latest, Deployed, Replacing
<1>6. \A c \in Commits : Attempt(c)'
  BY <1>1, <1>2, Facts DEF Attempt, Holds
<1> QED
  BY <1>3, <1>4, <1>5, <1>6 DEF IInv

(* The trigger writes the record of a commit that no worker has, and may   *)
(* start a worker.                                                         *)
LEMMA TriggerWrites ==
  ASSUME Bounds, IInv, NEW c \in Commits, trigger.commit = c, c <= head,
         worker[c] = Idle, record[c] \in {"none", "queued"},
         NEW status \in {"queued", "failed"}, NEW w \in Worker,
         w.step \in {"none", "waiting"}, w.next = 1, ~w.harmed,
         w.backup = Idle.backup,
         w.step = "waiting" => status = "queued",
         record' = [record EXCEPT ![c] = status],
         worker' = [worker EXCEPT ![c] = w],
         UNCHANGED <<named, head, installed, service, noted, faults>>,
         trigger' \in {NoTrigger, [trigger EXCEPT !.step = "recorded"]},
         trigger' # NoTrigger => w = Idle /\ status = "queued"
  PROVE  IInv'
<1>1. /\ record'[c] = status /\ worker'[c] = w
      /\ \A d \in Commits \ {c} : record'[d] = record[d] /\ worker'[d] = worker[d]
  BY DEF IInv, TypeOK
<1>2. /\ trigger' \in [step : {"none", "asked", "recorded"}, commit : Versions]
      /\ trigger'.step # "none" => trigger'.commit = c
  BY Facts DEF IInv, TypeOK
<1>3. TypeOK'
  <2>1. record' \in [Commits -> {"none", "queued", "running"} \cup Final]
    BY DEF IInv, TypeOK, Final
  <2>2. worker' \in [Commits -> Worker]
    BY DEF IInv, TypeOK
  <2> QED
    BY <1>2, <2>1, <2>2 DEF IInv, TypeOK
<1>4. HeadIsNewest'
  <2>1. \A d \in Commits : /\ record'[d] # "none" => d <= head
                           /\ \A p \in Paths : worker'[d].backup[p] <= head
    BY <1>1, Facts DEF IInv, HeadIsNewest
  <2>2. c \in 1..head
    BY Facts DEF Commits, Bounds
  <2> QED
    BY <1>2, <2>1, <2>2 DEF IInv, HeadIsNewest
<1>5. /\ ~Holds(c) /\ ~Holds(c)'
      /\ \A d \in Commits : Holds(d)' <=> Holds(d)
  <2>1. ~Holds(c)
    BY Facts DEF Holds, Holding
  <2>2. ~Holds(c)'
    BY <1>1 DEF Holds, Holding
  <2>3. \A d \in Commits \ {c} : Holds(d)' <=> Holds(d)
    BY <1>1 DEF Holds
  <2> QED
    BY <2>1, <2>2, <2>3
<1>6. OneHolder'
  BY <1>5 DEF IInv, OneHolder
<1>7. ASSUME NEW d \in Commits PROVE Attempt(d)'
  <2>1. CASE d = c
    BY <1>1, <1>5, <2>1 DEF Attempt, NoTrigger
  <2>2. CASE d # c
    BY <1>1, <1>2, <1>5, <2>2, Facts DEF Attempt
  <2> QED
    BY <2>1, <2>2
<1>8. KeepsLatest'
  <2>1. \A d \in Commits : Lost(d)' <=> Lost(d)
    BY <1>1, <1>5 DEF Lost
  <2>2. \A v : Latest(v)' <=> Latest(v)
    BY <1>1 DEF Latest
  <2>3. \A v : \A d \in Commits :
           Holds(d) /\ Replacing(d, v) => Replacing(d, v)'
    <3> SUFFICES ASSUME NEW v, NEW d \in Commits, Holds(d), Replacing(d, v)
                 PROVE  Replacing(d, v)'
      OBVIOUS
    <3>1. d # c
      BY <1>5
    <3> QED
      BY <1>1, <3>1 DEF Replacing, Deployed
  <2>4. \A v : Deployed(v)' <=> Deployed(v)
    BY DEF Deployed
  <2>5. CASE \E d \in Commits : Lost(d)
    BY <2>1, <2>5 DEF KeepsLatest
  <2>6. CASE \A d \in Commits : ~Lost(d)
    <3>1. PICK v \in 0..MaxCommits :
            /\ Latest(v)
            /\ (\A d \in Commits : ~Holds(d)) => Deployed(v)
            /\ \A d \in Commits : Holds(d) => Replacing(d, v)
      BY <2>6 DEF IInv, KeepsLatest
    <3>2. /\ Latest(v)'
          /\ (\A d \in Commits : ~Holds(d)') => Deployed(v)'
          /\ \A d \in Commits : Holds(d)' => Replacing(d, v)'
      BY <1>5, <2>2, <2>3, <2>4, <3>1
    <3> QED
      BY <3>2 DEF KeepsLatest
  <2> QED
    BY <2>5, <2>6
<1> QED
  BY <1>3, <1>4, <1>6, <1>7, <1>8 DEF IInv

LEMMA TriggerInvariant ==
  ASSUME Bounds, IInv, Enqueue \/ Launch PROVE IInv'
<1> DEFINE c == trigger.commit
<1>1. /\ c \in Commits /\ c <= head /\ Attempt(c)
      /\ trigger.step \in {"asked", "recorded"}
      /\ UNCHANGED <<named, head, installed, service, noted, faults>>
  BY Facts DEF Enqueue, Launch, IInv, HeadIsNewest, Commits, Bounds
<1>2. /\ Idle \in Worker /\ Idle.step = "none" /\ Idle.next = 1
      /\ ~Idle.harmed
  BY Facts DEF Idle
<1>3. CASE Enqueue
  <2>1. CASE record[c] = "none"
    <3>1. worker[c] = Idle
      BY <1>1, <2>1 DEF Attempt
    <3>2. /\ record' = [record EXCEPT ![c] = "queued"]
          /\ worker' = [worker EXCEPT ![c] = Idle]
          /\ trigger' = [trigger EXCEPT !.step = "recorded"]
      BY <1>1, <1>3, <2>1, <3>1 DEF Enqueue, IInv, TypeOK
    <3> QED
      BY <1>1, <1>2, <2>1, <3>1, <3>2, TriggerWrites
  <2>2. CASE record[c] # "none"
    <3>1. trigger' = NoTrigger /\ UNCHANGED <<record, worker>>
      BY <1>3, <2>2 DEF Enqueue
    <3>2. TypeOK' /\ HeadIsNewest'
      BY <1>1, <3>1, Facts DEF IInv, TypeOK, HeadIsNewest
    <3>3. OneHolder' /\ KeepsLatest'
      BY <1>1, <3>1 DEF IInv, OneHolder, KeepsLatest, Holds, Lost, Latest,
                        Deployed, Replacing
    <3>4. \A d \in Commits : Attempt(d)'
      BY <3>1, Facts DEF Attempt, Holds
    <3> QED
      BY <3>2, <3>3, <3>4 DEF IInv
  <2> QED
    BY <2>1, <2>2
<1>4. CASE Launch
  <2>1. /\ record[c] = "queued" /\ worker[c] = Idle /\ trigger' = NoTrigger
    BY <1>1, <1>4 DEF Launch, Attempt
  <2>2. CASE worker' = [worker EXCEPT ![c].step = "waiting"] /\ UNCHANGED record
    <3> DEFINE w == [Idle EXCEPT !.step = "waiting"]
    <3>1. /\ worker' = [worker EXCEPT ![c] = w]
          /\ record' = [record EXCEPT ![c] = "queued"]
      BY <1>1, <2>1, <2>2 DEF IInv, TypeOK
    <3>2. /\ w \in Worker /\ w.step = "waiting" /\ w.backup = Idle.backup
          /\ w.next = 1 /\ ~w.harmed
      BY <1>2 DEF Worker, Idle
    <3> HIDE DEF w
    <3> QED
      BY <1>1, <2>1, <3>1, <3>2, TriggerWrites
  <2>3. CASE record' = [record EXCEPT ![c] = "failed"] /\ UNCHANGED worker
    <3>1. worker' = [worker EXCEPT ![c] = Idle]
      BY <1>1, <2>1, <2>3 DEF IInv, TypeOK
    <3> QED
      BY <1>1, <1>2, <2>1, <2>3, <3>1, TriggerWrites
  <2> QED
    BY <1>4, <2>2, <2>3 DEF Launch
<1> QED
  BY <1>3, <1>4

LEMMA CrashInvariant == ASSUME Bounds, IInv, ServiceCrash PROVE IInv'
<1>1. /\ Started /\ UNCHANGED <<named, head, installed, record, worker>>
      /\ faults' \in 0..MaxFaults
  BY DEF ServiceCrash, IInv, TypeOK, Bounds
<1>2. /\ service' \in [up : BOOLEAN, files : [Paths -> Versions]]
      /\ noted' \in Versions /\ noted' <= head /\ trigger' = NoTrigger
  BY <1>1, ServerStarts
<1>3. TypeOK' /\ HeadIsNewest'
  BY <1>1, <1>2, Facts DEF IInv, TypeOK, HeadIsNewest
<1>4. OneHolder' /\ \A c \in Commits : Attempt(c)'
  BY <1>1, <1>2, Facts DEF IInv, OneHolder, Attempt, Holds
<1>5. \A v \in 0..MaxCommits : Deployed(v) => Deployed(v)'
  BY <1>1, RunsWhatIsThere DEF Deployed
<1>6. KeepsLatest'
  <2> SUFFICES ASSUME \A d \in Commits : ~Lost(d)
               PROVE  \E v \in 0..MaxCommits :
                        /\ Latest(v)'
                        /\ (\A d \in Commits : ~Holds(d)') => Deployed(v)'
                        /\ \A d \in Commits : Holds(d)' => Replacing(d, v)'
    BY <1>1 DEF KeepsLatest, Lost, Holds
  <2>1. PICK v \in 0..MaxCommits :
          /\ Latest(v)
          /\ (\A d \in Commits : ~Holds(d)) => Deployed(v)
          /\ \A d \in Commits : Holds(d) => Replacing(d, v)
    BY DEF IInv, KeepsLatest
  <2>2. Latest(v)'
    BY <1>1, <2>1 DEF Latest
  <2>3. \A d \in Commits : Holds(d)' <=> Holds(d)
    BY <1>1 DEF Holds
  <2>4. ASSUME NEW d \in Commits, Holds(d) PROVE Replacing(d, v)'
    <3>1. Replacing(d, v) /\ d \in 0..MaxCommits
      BY <2>1, <2>4 DEF Commits, Bounds
    <3> QED
      BY <1>1, <1>5, <3>1 DEF Replacing
  <2> QED
    BY <1>5, <2>1, <2>2, <2>3, <2>4
<1> QED
  BY <1>3, <1>4, <1>6 DEF IInv

LEMMA NextInvariant == ASSUME Bounds, IInv, [Next]_vars PROVE IInv'
<1>1. ASSUME NEW c \in Commits, Work(c) PROVE IInv'
  BY <1>1, LockInvariant, CheckInvariant, BuildInvariant, BuildFailsInvariant,
     CopyInvariant, RestartInvariant, HealthyInvariant, SwitchFailsInvariant,
     RestorePathInvariant, RestoreEndsInvariant DEF Work
<1>2. CASE UNCHANGED vars
  <2>1. TypeOK' /\ HeadIsNewest'
    BY <1>2 DEF vars, IInv, TypeOK, HeadIsNewest
  <2>2. OneHolder' /\ KeepsLatest'
    BY <1>2 DEF vars, IInv, OneHolder, KeepsLatest, Holds, Lost, Latest,
                Deployed, Replacing
  <2>3. \A d \in Commits : Attempt(d)'
    BY <1>2 DEF vars, IInv, Attempt, Holds
  <2> QED
    BY <2>1, <2>2, <2>3 DEF IInv
<1> QED
  BY <1>1, <1>2, MonitorInvariant, TriggerInvariant, KillInvariant,
     CrashInvariant DEF Next

(***************************************************************************)
(* The theorems.                                                           *)
(***************************************************************************)
THEOREM Invariance == ASSUME Bounds PROVE Spec => []IInv
BY InitInvariant, NextInvariant, PTL DEF Spec

(* The variables of local deployments keep their types.                    *)
THEOREM TypeCorrect == ASSUME Bounds PROVE Spec => []TypeOK
<1>1. IInv => TypeOK
  BY DEF IInv
<1> QED
  BY <1>1, Invariance, PTL

(* When no attempt is shown as running or as not restored, the newest      *)
(* version deployed with success is installed and runs (deploy_commit).    *)
THEOREM RecordsAreTrue == ASSUME Bounds PROVE Spec => []RecordsTellTheState
<1>1. IInv => RecordsTellTheState
  <2> SUFFICES ASSUME IInv, \A c \in Commits : record[c] \notin {"running", "broken"}
               PROVE  \E v \in {0} \cup {c \in Commits : record[c] = "succeeded"} :
                        /\ \A c \in Commits : record[c] = "succeeded" => c <= v
                        /\ installed = [p \in Paths |-> v]
                        /\ service = [up |-> TRUE, files |-> installed]
    BY DEF RecordsTellTheState
  <2>1. \A c \in Commits : ~Lost(c) /\ ~Holds(c)
    BY DEF IInv, Attempt, Lost
  <2>2. PICK v \in 0..MaxCommits : Latest(v) /\ Deployed(v)
    BY <2>1 DEF IInv, KeepsLatest
  <2> QED
    BY <2>2 DEF Latest, Deployed
<1> QED
  BY <1>1, Invariance, PTL

(* No result is replaced (enqueue, finish and run of the worker).          *)
THEOREM ResultsAreFinal == ASSUME Bounds PROVE Spec => ResultIsFinal
<1> DEFINE A == \A c \in Commits : record[c] \in Final => record'[c] = record[c]
<1>1. IInv /\ [Next]_vars => [A]_vars
  <2> SUFFICES ASSUME IInv, Next, NEW c \in Commits, record[c] \in Final
               PROVE  record'[c] = record[c]
    OBVIOUS
  <2>1. record \in [Commits -> {"none", "queued", "running"} \cup Final]
    BY DEF IInv, TypeOK
  <2>2. Attempt(c)
    BY DEF IInv
  <2>3. \A s : \A d \in Commits : Finish(d, s) /\ Holds(d) => record'[c] = record[c]
    <3> SUFFICES ASSUME NEW s, NEW d \in Commits, Finish(d, s), Holds(d)
                 PROVE  record'[c] = record[c]
      OBVIOUS
    <3>1. d # c
      BY DEF IInv, Attempt, Final
    <3> QED
      BY <2>1, <3>1 DEF Finish
  <2>4. CASE Commit \/ See \/ EnqueueFails \/ ServiceCrash
    BY <2>4 DEF Commit, See, EnqueueFails, ServiceCrash
  <2>5. CASE Enqueue \/ Launch
    BY <2>1, <2>2, <2>5 DEF Enqueue, Launch, Attempt, Final
  <2>6. ASSUME NEW d \in Commits, Work(d) \/ Kill(d)
        PROVE  record'[c] = record[c]
    <3>1. CASE Lock(d)
      <4>1. d # c
        BY <3>1 DEF Lock, IInv, Attempt, Final
      <4> QED
        BY <2>1, <3>1, <4>1 DEF Lock
    <3>2. CASE Check(d) \/ BuildFails(d) \/ Healthy(d) \/ RestoreEnds(d)
      <4>1. Holds(d)
        BY <3>2 DEF Check, BuildFails, Healthy, RestoreEnds, Holds, Holding
      <4> QED
        BY <2>3, <3>2, <4>1 DEF Check, BuildFails, Healthy, RestoreEnds
    <3>3. CASE \/ Build(d) \/ Copy(d) \/ Restart(d) \/ SwitchFails(d)
               \/ RestorePath(d) \/ RestorePathFails(d) \/ Kill(d)
      BY <3>3 DEF Build, Copy, Restart, SwitchFails, RestorePath,
                  RestorePathFails, Kill
    <3> QED
      BY <2>6, <3>1, <3>2, <3>3 DEF Work
  <2> QED
    BY <2>4, <2>5, <2>6 DEF Next
<1>2. Spec => [][A]_vars
  BY <1>1, Invariance, PTL DEF Spec
<1> QED
  BY <1>2 DEF ResultIsFinal
=============================================================================
