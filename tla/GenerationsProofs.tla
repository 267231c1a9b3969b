-------------------------- MODULE GenerationsProofs --------------------------
(***************************************************************************)
(* Proofs about Generations for every set of files and processes and every *)
(* number of releases, edits and faults.  Only the process with the lock   *)
(* installs or switches, so what Fits says of the others can only lapse    *)
(* with their own steps (Others); one lemma per action does the rest.      *)
(***************************************************************************)
EXTENDS Generations, WellFoundedInduction, TLAPS

LEMMA Constants ==
  /\ MaxReleases \in Nat /\ MaxEdits \in Nat /\ MaxFaults \in Nat
  /\ Nobody \notin Clis
BY GenerationsAssumption

LEMMA BlankType == Blank \in Packs
BY Constants DEF Blank, Packs, Versions

LEMMA OffType == Off \in Cli
BY BlankType, Constants DEF Off, Cli, Operations, Steps, Plan, Versions

LEMMA InitInvariant == Init => IInv
<1> SUFFICES ASSUME Init PROVE IInv
  OBVIOUS
<1>1. releases \in [Ids -> Release]
  BY BlankType, Constants DEF Init, Release, Versions
<1>2. budget \in [edits : Nat, faults : Nat] /\ budget.faults = MaxFaults
  BY Constants DEF Init
<1>3. pack \in Packs /\ settings \in Versions /\ cli \in [Clis -> Cli]
  BY BlankType, OffType, Constants DEF Init, Versions
<1>4. installed = 0 /\ current = 0 /\ lock = Nobody
  BY DEF Init
<1>5. TypeOK
  BY <1>1, <1>2, <1>3, <1>4, Constants DEF TypeOK
<1>6. \A p \in Clis : Fits(p) /\ ~Inside(p)
  BY <1>4 DEF Init, Fits, Inside, Off
<1>7. Exclusive /\ DigestIsOlderAtWorst
  BY <1>2, <1>4, <1>6, Constants DEF Exclusive, DigestIsOlderAtWorst
<1>8. Ordered
  BY DEF Init, Ordered, Ids
<1>9. QED
  BY <1>5, <1>6, <1>7, <1>8 DEF IInv

(* What a process has read stays at most what the files hold.              *)
LEMMA FitsStays ==
  ASSUME IInv, NEW q \in Clis, cli'[q] = cli[q],
         UNCHANGED <<releases, installed, current>>, pack' \in Packs,
         \A f \in Files : pack[f] <= pack'[f]
  PROVE  Fits(q)' /\ (Inside(q)' <=> Inside(q))
<1>1. /\ Fits(q) /\ cli[q] \in Cli /\ releases \in [Ids -> Release]
      /\ installed \in 0..MaxReleases
  BY DEF IInv, TypeOK
<1>2. /\ cli[q].captured \in [Files -> Versions]
      /\ cli[q].staged \in [Files -> Versions]
      /\ pack \in [Files -> Versions] /\ pack' \in [Files -> Versions]
  BY <1>1 DEF Cli, Packs, IInv, TypeOK
<1>3. \A v \in Versions, f \in Files : v <= pack[f] => v <= pack'[f]
  BY <1>2, Constants DEF Versions
<1>4. cli[q].step = "switch" =>
        releases[cli[q].target].pack \in [Files -> Versions]
  <2>1. cli[q].step = "switch" => cli[q].target \in Ids
    BY <1>1, Constants DEF Fits, Ids
  <2>2. QED
    BY <1>1, <2>1 DEF Release, Packs
<1>5. cli[q].step = "bundle" =>
        \A f \in Files \ cli[q].todo : cli[q].captured[f] <= pack'[f]
  BY <1>1, <1>2, <1>3 DEF Fits
<1>6. cli[q].step = "stage" =>
        /\ \A f \in Files : cli[q].captured[f] <= pack'[f]
        /\ \A f \in Files \ cli[q].todo : cli[q].staged[f] <= pack'[f]
  BY <1>1, <1>2, <1>3 DEF Fits
<1>7. cli[q].step = "switch" /\ cli[q].op = "apply" =>
        \A f \in Files : releases[cli[q].target].pack[f] <= pack'[f]
  BY <1>1, <1>3, <1>4 DEF Fits
<1>8. Fits(q)'
  BY <1>1, <1>5, <1>6, <1>7 DEF Fits, Faithful, Reread
<1>9. QED
  BY <1>8 DEF Inside

(* What another process's step leaves of what a process knows.             *)
LEMMA Others ==
  ASSUME IInv, NEW p \in Clis, NEW q \in Clis, p # q, cli'[q] = cli[q],
         pack' = pack,
         \/ UNCHANGED <<releases, installed, current>>
         \/ Inside(p) /\ installed' \in Nat /\ installed <= installed'
  PROVE  Fits(q)' /\ (Inside(q)' <=> Inside(q))
<1>1. Fits(q) /\ (Inside(q)' <=> Inside(q)) /\ cli[q] \in Cli
  BY DEF IInv, TypeOK, Inside
<1>2. CASE UNCHANGED <<releases, installed, current>>
  <2>1. \A f \in Files : pack[f] <= pack'[f]
    BY Constants DEF IInv, TypeOK, Packs, Versions
  <2>2. QED
    BY <1>2, <2>1, FitsStays DEF IInv, TypeOK
<1>3. CASE Inside(p) /\ installed' \in Nat /\ installed <= installed'
  <2>1. ~Inside(q)
    BY <1>3 DEF IInv, Exclusive
  <2>2. /\ cli[q].step \notin {"stage", "read", "switch"}
        /\ cli[q].current \in Nat /\ installed \in Nat
    BY <1>1, <2>1, Constants DEF Inside, Cli, IInv, TypeOK
  <2>3. cli[q].current <= installed'
    BY <1>1, <1>3, <2>2 DEF Fits
  <2>4. QED
    BY <1>1, <2>2, <2>3 DEF Fits
<1>4. QED
  BY <1>1, <1>2, <1>3

(* A step of a process that installs and switches nothing.                 *)
LEMMA StepInvariant ==
  ASSUME IInv, NEW p \in Clis, NEW v \in Cli, Become(p, v),
         UNCHANGED <<pack, settings, releases, installed, current>>,
         lock' \in Clis \cup {Nobody},
         Inside(p)' <=> lock' = p,
         \/ lock' = lock
         \/ lock \in {p, Nobody} /\ lock' \in {p, Nobody},
         budget' \in [edits : Nat, faults : Nat], Fits(p)'
  PROVE  IInv'
<1>1. /\ cli' \in [Clis -> Cli] /\ cli'[p] = v
      /\ \A q \in Clis : q # p => cli'[q] = cli[q]
  BY DEF Become, IInv, TypeOK
<1>2. ASSUME NEW q \in Clis, q # p PROVE Fits(q)' /\ (Inside(q)' <=> Inside(q))
  BY <1>1, <1>2, Others
<1>3. Exclusive'
  BY <1>2, Constants DEF IInv, Exclusive
<1>4. TypeOK'
  BY <1>1 DEF IInv, TypeOK
<1>5. Ordered' /\ DigestIsOlderAtWorst'
  BY DEF IInv, Ordered, DigestIsOlderAtWorst
<1>6. QED
  BY <1>2, <1>3, <1>4, <1>5 DEF IInv

(* An end of any kind.                                                     *)
LEMMA QuitInvariant ==
  ASSUME IInv, NEW p \in Clis, Quit(p),
         UNCHANGED <<pack, settings, releases, installed, current>>,
         budget' \in [edits : Nat, faults : Nat]
  PROVE  IInv'
<1> DEFINE v == [Off EXCEPT !.shown = cli[p].shown, !.planned = cli[p].planned]
<1>1. cli[p] \in Cli /\ Become(p, v) /\ lock' = (IF lock = p THEN Nobody ELSE lock)
  BY DEF IInv, TypeOK, Quit, Ended, GiveBack
<1>2. /\ v \in Cli /\ v.step = "idle" /\ v.op = "none" /\ v.current = 0
  <2>1. Off.step = "idle" /\ Off.op = "none" /\ Off.current = 0
    BY DEF Off
  <2>2. cli[p].shown \in Plan /\ cli[p].planned \in BOOLEAN
    BY <1>1 DEF Cli
  <2>3. QED
    BY <2>1, <2>2, OffType DEF Cli
<1> HIDE DEF v
<1>3. cli'[p] = v
  BY <1>1, <1>2 DEF Become, IInv, TypeOK
<1>4. Fits(p)' /\ ~Inside(p)'
  BY <1>2, <1>3 DEF Fits, Inside, IInv, TypeOK
<1>5. lock' \in Clis \cup {Nobody} /\ lock' # p
  BY <1>1, Constants DEF IInv, TypeOK
<1>6. lock' = lock \/ (lock \in {p, Nobody} /\ lock' \in {p, Nobody})
  BY <1>1
<1>7. QED
  BY <1>1, <1>2, <1>4, <1>5, <1>6, StepInvariant

(***************************************************************************)
(* People.                                                                 *)
(***************************************************************************)
LEMMA EditsInvariant ==
  ASSUME IInv, pack' \in Packs, \A f \in Files : pack[f] <= pack'[f],
         settings' \in Versions,
         budget' \in [edits : Nat, faults : Nat],
         UNCHANGED <<releases, installed, current, lock, cli>>
  PROVE  IInv'
<1>1. TypeOK'
  BY DEF IInv, TypeOK
<1>2. \A p \in Clis : Fits(p)'
  BY FitsStays
<1>3. Exclusive' /\ Ordered' /\ DigestIsOlderAtWorst'
  BY DEF IInv, Exclusive, Inside, Ordered, DigestIsOlderAtWorst
<1>4. QED
  BY <1>1, <1>2, <1>3 DEF IInv

LEMMA Spent ==
  ASSUME IInv, NEW kind \in {"edits", "faults"}, Spend(kind)
  PROVE  budget' \in [edits : Nat, faults : Nat]
BY DEF IInv, TypeOK, Spend

LEMMA EditStep ==
  ASSUME IInv, EditSettings \/ \E f \in Files : EditFile(f)
  PROVE  IInv'
<1>1. CASE EditSettings
  <2>1. settings' \in Versions
    BY <1>1, Constants DEF EditSettings, IInv, TypeOK, Versions
  <2>2. \A f \in Files : pack[f] <= pack'[f]
    BY <1>1, Constants DEF EditSettings, IInv, TypeOK, Packs, Versions
  <2>3. QED
    BY <1>1, <2>1, <2>2, Spent, EditsInvariant DEF EditSettings, IInv, TypeOK
<1>2. ASSUME NEW f \in Files, EditFile(f) PROVE IInv'
  <2>1. pack \in [Files -> Versions]
    BY DEF IInv, TypeOK, Packs
  <2>2. pack[f] + 1 \in Versions
    BY <1>2, <2>1, Constants DEF EditFile, Versions
  <2>3. pack' \in Packs
    BY <1>2, <2>1, <2>2 DEF EditFile, Packs
  <2>4. \A g \in Files : pack[g] <= pack'[g]
    BY <1>2, <2>1, Constants DEF EditFile, Versions
  <2>5. QED
    BY <1>2, <2>3, <2>4, Spent, EditsInvariant DEF EditFile, IInv, TypeOK
<1>3. QED
  BY <1>1, <1>2

(***************************************************************************)
(* Commands.                                                               *)
(***************************************************************************)
(* A step that spends nothing.                                             *)
LEMMA PlainStep ==
  ASSUME IInv, NEW p \in Clis, NEW v \in Cli, Become(p, v),
         UNCHANGED <<pack, settings, releases, installed, current, budget>>,
         lock' \in Clis \cup {Nobody},
         Inside(p)' <=> lock' = p,
         \/ lock' = lock
         \/ lock \in {p, Nobody} /\ lock' \in {p, Nobody},
         Fits(p)'
  PROVE  IInv'
<1>1. budget' \in [edits : Nat, faults : Nat]
  BY DEF IInv, TypeOK
<1>2. QED
  BY <1>1, StepInvariant

LEMMA Became ==
  ASSUME IInv, NEW p \in Clis, NEW v, Become(p, v)
  PROVE  cli'[p] = v
BY DEF Become, IInv, TypeOK

LEMMA StartStep ==
  ASSUME IInv, NEW p \in Clis, StartPlan(p) \/ StartApply(p) \/ StartRollback(p)
  PROVE  IInv'
<1>1. /\ cli[p].step = "idle" /\ cli[p] \in Cli /\ Fits(p)
      /\ ~Inside(p) /\ lock # p /\ lock \in Clis \cup {Nobody}
      /\ current \in 0..MaxReleases /\ settings \in Versions
      /\ current <= installed
      /\ UNCHANGED <<pack, settings, releases, installed, current, lock, budget>>
  BY Constants DEF StartPlan, StartApply, StartRollback, At, IInv, TypeOK,
                   Exclusive, Inside
<1>2. CASE StartPlan(p)
  <2> DEFINE v == [cli[p] EXCEPT !.op = "plan", !.step = "bundle", !.todo = Files,
                                 !.settings = settings, !.current = current]
  <2>1. Become(p, v)
    BY <1>2 DEF StartPlan
  <2>2. /\ v \in Cli /\ v.step = "bundle" /\ v.op = "plan"
        /\ v.current = current /\ v.todo = Files
    BY <1>1 DEF Cli, Operations, Steps
  <2> HIDE DEF v
  <2>3. Fits(p)' /\ ~Inside(p)'
    BY <1>1, <2>1, <2>2, Became DEF Fits, Inside
  <2>4. QED
    BY <1>1, <2>1, <2>2, <2>3, PlainStep
<1>3. CASE StartApply(p)
  <2> DEFINE v == [cli[p] EXCEPT !.op = "apply", !.step = "waiting",
                                 !.settings = settings]
  <2>1. Become(p, v)
    BY <1>3 DEF StartApply
  <2>2. /\ v \in Cli /\ v.step = "waiting" /\ v.op = "apply"
        /\ v.current = cli[p].current
    BY <1>1 DEF Cli, Operations, Steps
  <2> HIDE DEF v
  <2>3. Fits(p)' /\ ~Inside(p)'
    BY <1>1, <2>1, <2>2, Became DEF Fits, Inside
  <2>4. QED
    BY <1>1, <2>1, <2>2, <2>3, PlainStep
<1>4. CASE StartRollback(p)
  <2> DEFINE v == [cli[p] EXCEPT !.op = "rollback", !.step = "waiting"]
  <2>1. Become(p, v)
    BY <1>4 DEF StartRollback
  <2>2. /\ v \in Cli /\ v.step = "waiting" /\ v.op = "rollback"
        /\ v.current = cli[p].current
    BY <1>1 DEF Cli, Operations, Steps
  <2> HIDE DEF v
  <2>3. Fits(p)' /\ ~Inside(p)'
    BY <1>1, <2>1, <2>2, Became DEF Fits, Inside
  <2>4. QED
    BY <1>1, <2>1, <2>2, <2>3, PlainStep
<1>5. QED
  BY <1>2, <1>3, <1>4

LEMMA AcquireLockStep ==
  ASSUME IInv, NEW p \in Clis, AcquireLock(p)
  PROVE  IInv'
<1>1. /\ cli[p].step = "waiting" /\ cli[p] \in Cli /\ Fits(p)
      /\ lock = Nobody /\ lock' = p /\ Entered(p)
      /\ UNCHANGED <<pack, settings, releases, installed, current, budget>>
  BY DEF AcquireLock, At, IInv, TypeOK
<1>2. cli[p].op \in {"apply", "rollback"}
  BY <1>1 DEF Fits
<1>3. CASE cli[p].op = "apply"
  <2> DEFINE v == [cli[p] EXCEPT !.step = "bundle", !.todo = Files]
  <2>1. Become(p, v)
    BY <1>1, <1>3 DEF Entered
  <2>2. /\ v \in Cli /\ v.step = "bundle" /\ v.op = "apply"
        /\ v.current = cli[p].current /\ v.todo = Files
    BY <1>1, <1>3 DEF Cli, Steps
  <2> HIDE DEF v
  <2>3. Fits(p)' /\ Inside(p)'
    BY <1>1, <2>1, <2>2, Became DEF Fits, Inside
  <2>4. QED
    BY <1>1, <2>1, <2>2, <2>3, PlainStep
<1>4. CASE cli[p].op = "rollback"
  <2> DEFINE v == [cli[p] EXCEPT !.step = "read"]
  <2>1. Become(p, v)
    BY <1>1, <1>4 DEF Entered
  <2>2. /\ v \in Cli /\ v.step = "read" /\ v.op = "rollback"
        /\ v.current = cli[p].current
    BY <1>1, <1>4 DEF Cli, Steps
  <2> HIDE DEF v
  <2>3. Fits(p)' /\ Inside(p)'
    BY <1>1, <2>1, <2>2, Became DEF Fits, Inside
  <2>4. QED
    BY <1>1, <2>1, <2>2, <2>3, PlainStep
<1>5. QED
  BY <1>2, <1>3, <1>4

LEMMA BundleStep ==
  ASSUME IInv, NEW p \in Clis, NEW f \in Files, Bundle(p, f)
  PROVE  IInv'
<1> DEFINE v == [cli[p] EXCEPT !.todo = @ \ {f}, !.captured[f] = pack[f]]
<1>1. /\ cli[p].step = "bundle" /\ cli[p] \in Cli /\ Fits(p)
      /\ pack \in [Files -> Versions] /\ cli[p].captured \in [Files -> Versions]
      /\ Become(p, v)
      /\ UNCHANGED <<pack, settings, releases, installed, current, lock, budget>>
  BY DEF Bundle, At, IInv, TypeOK, Cli, Packs
<1>2. /\ v \in Cli /\ v.step = "bundle" /\ v.op = cli[p].op
      /\ v.current = cli[p].current /\ v.todo = cli[p].todo \ {f}
      /\ v.captured = [cli[p].captured EXCEPT ![f] = pack[f]]
  <2>1. [cli[p].captured EXCEPT ![f] = pack[f]] \in Packs
    BY <1>1 DEF Packs
  <2>2. cli[p].todo \ {f} \in SUBSET Files
    BY <1>1 DEF Cli
  <2>3. QED
    BY <1>1, <2>1, <2>2 DEF Cli
<1> HIDE DEF v
<1>3. \A g \in Files \ v.todo : v.captured[g] <= pack[g]
  BY <1>1, <1>2, Constants DEF Fits, Versions
<1>4. Fits(p)' /\ (Inside(p)' <=> Inside(p))
  BY <1>1, <1>2, <1>3, Became DEF Fits, Inside
<1>5. QED
  BY <1>1, <1>2, <1>4, PlainStep DEF IInv, TypeOK, Exclusive

LEMMA ShowPlanStep ==
  ASSUME IInv, NEW p \in Clis, ShowPlan(p)
  PROVE  IInv'
<1> DEFINE plan == [pack |-> cli[p].captured, settings |-> cli[p].settings,
                    current |-> cli[p].current]
           v == [Off EXCEPT !.shown = plan, !.planned = TRUE]
<1>1. /\ cli[p].step = "bundle" /\ cli[p].op = "plan" /\ cli[p] \in Cli
      /\ Become(p, v) /\ installed \in Nat
      /\ UNCHANGED <<pack, settings, releases, installed, current, lock, budget>>
  BY Constants DEF ShowPlan, Bundled, At, IInv, TypeOK
<1>2. plan \in Plan
  BY <1>1 DEF Cli, Plan
<1> HIDE DEF plan
<1>3. v \in Cli /\ v.step = "idle" /\ v.op = "none" /\ v.current = 0
  <2>1. Off.step = "idle" /\ Off.op = "none" /\ Off.current = 0
    BY DEF Off
  <2>2. QED
    BY <1>2, <2>1, OffType DEF Cli
<1> HIDE DEF v
<1>4. Fits(p)' /\ ~Inside(p)'
  BY <1>1, <1>3, Became DEF Fits, Inside
<1>5. lock # p
  BY <1>1 DEF IInv, Exclusive, Inside
<1>6. QED
  BY <1>1, <1>3, <1>4, <1>5, PlainStep DEF IInv, TypeOK

LEMMA QuitStep ==
  ASSUME IInv, NEW p \in Clis, Quit(p),
         UNCHANGED <<pack, settings, releases, installed, current, budget>>
  PROVE  IInv'
<1>1. budget' \in [edits : Nat, faults : Nat]
  BY DEF IInv, TypeOK
<1>2. QED
  BY <1>1, QuitInvariant

LEMMA CheckStep ==
  ASSUME IInv, NEW p \in Clis, Check(p)
  PROVE  IInv'
<1> DEFINE same == cli[p].shown = [pack |-> cli[p].captured,
                     settings |-> cli[p].settings, current |-> current]
           v == [cli[p] EXCEPT !.step = "stage", !.todo = Files,
                               !.current = current]
<1>1. /\ cli[p].step = "bundle" /\ cli[p].op = "apply" /\ cli[p] \in Cli
      /\ \A f \in Files : cli[p].captured[f] <= pack[f]
      /\ UNCHANGED <<pack, settings, releases, installed, current, budget>>
      /\ current \in 0..MaxReleases /\ current <= installed
  BY Constants DEF Check, Bundled, At, IInv, TypeOK, Fits
<1>2. CASE ~same
  BY <1>1, <1>2, QuitStep DEF Check
<1>3. CASE same
  <2>1. Become(p, v) /\ UNCHANGED lock
    BY <1>3 DEF Check, Staging
  <2>2. /\ v \in Cli /\ v.step = "stage" /\ v.op = "apply"
        /\ v.current = current /\ v.shown = cli[p].shown
        /\ v.captured = cli[p].captured /\ v.settings = cli[p].settings
        /\ v.todo = Files
    BY <1>1 DEF Cli, Steps
  <2> HIDE DEF v
  <2>3. Fits(p)' /\ Inside(p)'
    BY <1>1, <1>3, <2>1, <2>2, Became DEF Fits, Inside
  <2>4. Inside(p) /\ lock \in Clis \cup {Nobody}
    BY <1>1 DEF Inside, IInv, TypeOK
  <2>5. QED
    BY <1>1, <2>1, <2>2, <2>3, <2>4, PlainStep DEF IInv, Exclusive
<1>4. QED
  BY <1>2, <1>3

LEMMA StageFileStep ==
  ASSUME IInv, NEW p \in Clis, NEW f \in Files, StageFile(p, f)
  PROVE  IInv'
<1> DEFINE new == IF p \in Recapturing THEN pack[f] ELSE cli[p].captured[f]
           v == [cli[p] EXCEPT !.todo = @ \ {f}, !.staged[f] = new]
<1>1. /\ cli[p].step = "stage" /\ cli[p] \in Cli /\ Fits(p)
      /\ Become(p, v) /\ pack \in [Files -> Versions]
      /\ UNCHANGED <<pack, settings, releases, installed, current, lock, budget>>
  BY DEF StageFile, At, IInv, TypeOK, Packs
<1>2. cli[p].captured \in [Files -> Versions] /\ cli[p].staged \in [Files -> Versions]
  BY <1>1 DEF Cli, Packs
<1>3. /\ new \in Versions /\ new <= pack[f]
      /\ Reread(p, new, cli[p].captured[f])
  BY <1>1, <1>2, Constants DEF Fits, Reread, Versions
<1> HIDE DEF new
<1>4. /\ v \in Cli /\ v.step = "stage" /\ v.op = cli[p].op
      /\ v.current = cli[p].current /\ v.shown = cli[p].shown
      /\ v.captured = cli[p].captured /\ v.settings = cli[p].settings
      /\ v.todo = cli[p].todo \ {f}
      /\ v.staged = [cli[p].staged EXCEPT ![f] = new]
  <2>1. [cli[p].staged EXCEPT ![f] = new] \in Packs
    BY <1>2, <1>3 DEF Packs
  <2>2. cli[p].todo \ {f} \in SUBSET Files
    BY <1>1 DEF Cli
  <2>3. QED
    BY <1>1, <2>1, <2>2 DEF Cli
<1> HIDE DEF v
<1>5. \A g \in Files \ v.todo :
        Reread(p, v.staged[g], v.captured[g]) /\ v.staged[g] <= pack[g]
  BY <1>1, <1>2, <1>3, <1>4 DEF Fits
<1>6. Fits(p)' /\ Inside(p)' /\ Inside(p)
  BY <1>1, <1>4, <1>5, Became DEF Fits, Inside, Reread
<1>7. QED
  BY <1>1, <1>4, <1>6, PlainStep DEF IInv, TypeOK, Exclusive

LEMMA RenameStep ==
  ASSUME IInv, NEW p \in Clis, Rename(p)
  PROVE  IInv'
<1> DEFINE n == installed + 1
           r == [pack |-> cli[p].staged, digest |-> cli[p].captured,
                 settings |-> cli[p].settings, previous |-> cli[p].current,
                 reread |-> p \in Recapturing]
           v == [cli[p] EXCEPT !.step = "switch", !.target = n]
<1>1. /\ cli[p].step = "stage" /\ cli[p].todo = {} /\ cli[p] \in Cli
      /\ Fits(p) /\ Inside(p)
      /\ installed \in 0..MaxReleases /\ installed < MaxReleases
      /\ installed' = n /\ releases' = [releases EXCEPT ![n] = r]
      /\ Become(p, v) /\ releases \in [Ids -> Release]
      /\ UNCHANGED <<pack, settings, current, lock, budget>>
  BY DEF Rename, At, IInv, TypeOK, Inside
<1>2. /\ n \in Ids /\ n \in 1..MaxReleases /\ n \in 0..MaxReleases
      /\ installed \in Nat /\ n = installed + 1 /\ n \in Nat
  BY <1>1, Constants DEF Ids
<1> HIDE DEF n
<1>3. r \in Release
  BY <1>1 DEF Release, Cli
<1>4. /\ v \in Cli /\ v.step = "switch" /\ v.op = "apply" /\ v.target = n
      /\ v.current = cli[p].current /\ v.shown = cli[p].shown
  BY <1>1, <1>2 DEF Cli, Steps, Fits
<1> HIDE DEF v
<1>5. \A f \in Files :
        Reread(p, cli[p].staged[f], cli[p].captured[f]) /\ cli[p].staged[f] <= pack[f]
  BY <1>1 DEF Fits
<1>6. /\ releases' \in [Ids -> Release] /\ releases'[n] = r
      /\ \A i \in 1..installed : releases'[i] = releases[i]
      /\ 1..n = (1..installed) \cup {n}
  BY <1>1, <1>2, <1>3, Constants DEF Ids
<1>7. r.previous <= installed /\ r.previous \in Nat
  BY <1>1, Constants DEF Fits, Cli
<1>8. /\ cli' \in [Clis -> Cli] /\ cli'[p] = v
      /\ \A q \in Clis : q # p => cli'[q] = cli[q]
  BY <1>1, <1>4 DEF Become, IInv, TypeOK
<1>9. ASSUME NEW q \in Clis, q # p PROVE Fits(q)' /\ (Inside(q)' <=> Inside(q))
  BY <1>1, <1>2, <1>8, <1>9, Others
<1>10. Fits(p)' /\ Inside(p)'
  <2>1. /\ v.shown.current = current /\ Faithful(r, v.shown)
        /\ \A f \in Files : Reread(p, r.pack[f], v.shown.pack[f]) /\ r.pack[f] <= pack[f]
    BY <1>1, <1>4, <1>5 DEF Fits, Faithful
  <2>2. v.current <= n /\ n \in 1..n
    BY <1>2, <1>4, <1>7
  <2>3. QED
    BY <1>1, <1>4, <1>6, <1>8, <2>1, <2>2 DEF Fits, Inside, Faithful, Reread
<1>11. Exclusive'
  BY <1>1, <1>9, <1>10 DEF IInv, Exclusive
<1>12. Ordered'
  BY <1>1, <1>2, <1>6, <1>7 DEF IInv, Ordered
<1>13. DigestIsOlderAtWorst'
  <2>1. \A f \in Files : r.digest[f] # r.pack[f] => r.reread /\ r.digest[f] < r.pack[f]
    BY <1>5 DEF Reread
  <2>2. QED
    BY <1>1, <1>6, <2>1 DEF IInv, DigestIsOlderAtWorst
<1>14. TypeOK'
  BY <1>1, <1>2, <1>6, <1>8 DEF IInv, TypeOK
<1>15. QED
  BY <1>9, <1>10, <1>11, <1>12, <1>13, <1>14 DEF IInv

LEMMA ReadPreviousStep ==
  ASSUME IInv, NEW p \in Clis, ReadPrevious(p)
  PROVE  IInv'
<1>1. /\ cli[p].step = "read" /\ cli[p] \in Cli /\ Fits(p) /\ Inside(p)
      /\ UNCHANGED <<pack, settings, releases, installed, current, budget>>
      /\ current \in 0..installed /\ installed \in 0..MaxReleases
      /\ releases \in [Ids -> Release]
  BY DEF ReadPrevious, At, IInv, TypeOK, Inside
<1>2. CASE current # 0 /\ releases[current].previous # 0
  <2> DEFINE t == releases[current].previous
             v == [cli[p] EXCEPT !.step = "switch", !.target = t]
  <2>1. Become(p, v) /\ UNCHANGED lock
    BY <1>2 DEF ReadPrevious
  <2>2. /\ current \in Ids /\ current \in 1..installed
        /\ installed \in Nat
    BY <1>1, <1>2, Constants DEF Ids
  <2>3. t \in 0..MaxReleases /\ t < current
    BY <1>1, <2>2 DEF Release, IInv, Ordered
  <2>4. t \in 1..installed
    BY <1>1, <1>2, <2>2, <2>3, Constants
  <2> HIDE DEF t
  <2>5. /\ v \in Cli /\ v.step = "switch" /\ v.op = "rollback"
        /\ v.target = t /\ v.current = cli[p].current
    BY <1>1, <2>3 DEF Cli, Steps, Fits
  <2> HIDE DEF v
  <2>6. Fits(p)' /\ Inside(p)'
    BY <1>1, <1>2, <2>1, <2>4, <2>5, Became DEF Fits, Inside, t
  <2>7. QED
    BY <1>1, <2>1, <2>5, <2>6, PlainStep DEF IInv, TypeOK, Exclusive
<1>3. CASE ~(current # 0 /\ releases[current].previous # 0)
  BY <1>1, <1>3, QuitStep DEF ReadPrevious
<1>4. QED
  BY <1>2, <1>3

LEMMA SwitchStep ==
  ASSUME IInv, NEW p \in Clis, Switch(p)
  PROVE  IInv'
<1> DEFINE v == [Off EXCEPT !.shown = cli[p].shown, !.planned = cli[p].planned]
<1>1. /\ cli[p].step = "switch" /\ cli[p] \in Cli /\ Fits(p) /\ Inside(p)
      /\ current' = cli[p].target
      /\ Become(p, v) /\ lock' = (IF lock = p THEN Nobody ELSE lock)
      /\ UNCHANGED <<pack, settings, releases, installed, budget>>
      /\ installed \in Nat
  BY Constants DEF Switch, Quit, Ended, GiveBack, At, IInv, TypeOK, Inside
<1>2. current' \in 0..installed /\ lock = p /\ lock' = Nobody
  BY <1>1 DEF Fits, IInv, Exclusive
<1>3. v \in Cli /\ v.step = "idle" /\ v.op = "none" /\ v.current = 0
  <2>1. Off.step = "idle" /\ Off.op = "none" /\ Off.current = 0
    BY DEF Off
  <2>2. cli[p].shown \in Plan /\ cli[p].planned \in BOOLEAN
    BY <1>1 DEF Cli
  <2>3. QED
    BY <2>1, <2>2, OffType DEF Cli
<1> HIDE DEF v
<1>4. /\ cli' \in [Clis -> Cli] /\ cli'[p] = v
      /\ \A q \in Clis : q # p => cli'[q] = cli[q]
  BY <1>1, <1>3 DEF Become, IInv, TypeOK
<1>5. Fits(p)' /\ ~Inside(p)'
  BY <1>1, <1>3, <1>4 DEF Fits, Inside
<1>6. ASSUME NEW q \in Clis, q # p PROVE Fits(q)' /\ (Inside(q)' <=> Inside(q))
  BY <1>1, <1>4, <1>6, Others
<1>7. Exclusive'
  BY <1>2, <1>5, <1>6, Constants DEF IInv, Exclusive
<1>8. Ordered' /\ DigestIsOlderAtWorst'
  BY <1>1 DEF IInv, Ordered, DigestIsOlderAtWorst
<1>9. TypeOK'
  BY <1>1, <1>2, <1>4 DEF IInv, TypeOK
<1>10. QED
  BY <1>5, <1>6, <1>7, <1>8, <1>9 DEF IInv

LEMMA FailStep ==
  ASSUME IInv, NEW p \in Clis, Fail(p) \/ Crash(p)
  PROVE  IInv'
<1>1. /\ Quit(p) /\ Spend("faults")
      /\ UNCHANGED <<pack, settings, releases, installed, current>>
  BY DEF Fail, Crash
<1>2. QED
  BY <1>1, Spent, QuitInvariant

(***************************************************************************)
(* The theorems.                                                           *)
(***************************************************************************)
LEMMA NextInvariant == IInv /\ [Next]_vars => IInv'
<1> SUFFICES ASSUME IInv, [Next]_vars PROVE IInv'
  OBVIOUS
<1>1. CASE UNCHANGED vars
  BY <1>1 DEF vars, IInv, TypeOK, Exclusive, Inside, Ordered, Fits, Faithful,
              Reread, DigestIsOlderAtWorst
<1>2. ASSUME NEW p \in Clis, Command(p) PROVE IInv'
  BY <1>2, AcquireLockStep, ShowPlanStep, CheckStep, BundleStep, StageFileStep,
     RenameStep, ReadPreviousStep, SwitchStep, FailStep DEF Command
<1>3. QED
  BY <1>1, <1>2, EditStep, StartStep, FailStep DEF Next

(* The inductive invariant of the generations holds throughout.            *)
THEOREM Invariance == Spec => []IInv
BY InitInvariant, NextInvariant, PTL DEF Spec

(* The digest of a release is that of its files where the pack is read     *)
(* once, and nowhere newer than they are (install, core.py and core.go).   *)
THEOREM DigestsNeverLead == Spec => []DigestIsOlderAtWorst
<1>1. IInv => DigestIsOlderAtWorst
  BY DEF IInv
<1>2. QED
  BY <1>1, Invariance, PTL

(* What an apply makes current is what the plan showed, whatever was       *)
(* edited, applied or rolled back in between; and where the pack is read   *)
(* again for the stage, all but the edits that came after the comparison's *)
(* capture (install, core.py and core.go).                                 *)
THEOREM ShownIsApplied == Spec => AppliedAsShown
<1> DEFINE A == \A p \in Clis :
                 At(p, "switch") /\ cli[p].op = "apply" /\ current' # current =>
                   LET r == releases[current'] shown == cli[p].shown
                   IN /\ r.digest = shown.pack /\ r.settings = shown.settings
                      /\ r.previous = shown.current /\ shown.current = current
                      /\ \A f \in Files : r.pack[f] # shown.pack[f] =>
                           p \in Recapturing /\ shown.pack[f] < pack[f]
<1>1. IInv /\ [Next]_vars => [A]_vars
  <2> SUFFICES ASSUME IInv, Next, NEW p \in Clis,
                      cli[p].step = "switch", cli[p].op = "apply",
                      current' # current
               PROVE  /\ Faithful(releases[current'], cli[p].shown)
                      /\ cli[p].shown.current = current
                      /\ \A f \in Files :
                           releases[current'].pack[f] # cli[p].shown.pack[f] =>
                             /\ p \in Recapturing
                             /\ cli[p].shown.pack[f] < pack[f]
    BY DEF At, Faithful
  <2>1. PICK q \in Clis : Switch(q)
    BY DEF Next, Command, EditFile, EditSettings, StartPlan, StartApply,
           StartRollback, AcquireLock, ShowPlan, Check, Bundle, StageFile,
           Rename, ReadPrevious, Fail, Crash
  <2>2. q = p
    BY <2>1 DEF Switch, At, IInv, Exclusive, Inside
  <2>3. current' = cli[p].target
    BY <2>1, <2>2 DEF Switch
  <2>4. /\ cli[p].shown.current = current
        /\ Faithful(releases[current'], cli[p].shown)
        /\ \A f \in Files :
             /\ Reread(p, releases[current'].pack[f], cli[p].shown.pack[f])
             /\ releases[current'].pack[f] <= pack[f]
    BY <2>3 DEF IInv, Fits
  <2>5. /\ releases[current'].pack \in [Files -> Versions]
        /\ cli[p].shown.pack \in [Files -> Versions]
        /\ pack \in [Files -> Versions]
    <3>1. cli[p] \in Cli /\ cli[p].target \in Ids
      <4>1. cli[p] \in Cli /\ Fits(p) /\ installed \in 0..MaxReleases
        BY DEF IInv, TypeOK
      <4>2. QED
        BY <4>1, Constants DEF Fits, Ids
    <3>2. releases[current'] \in Release
      BY <2>3, <3>1 DEF IInv, TypeOK
    <3>3. QED
      BY <3>1, <3>2 DEF Release, Cli, Plan, Packs, IInv, TypeOK
  <2>6. QED
    BY <2>4, <2>5, Constants DEF Reread, Versions
<1> HIDE DEF A
<1>2. Spec => [][A]_vars
  BY <1>1, Invariance, PTL DEF Spec
<1>3. QED
  BY <1>2 DEF A, AppliedAsShown

(***************************************************************************)
(* The generations in use, a recursive function of the releases: that it   *)
(* is defined at all, and on which releases it depends.  Both are shown by *)
(* looking at the least release for which they would fail.                 *)
(***************************************************************************)
LEMMA LeastNumber ==
  ASSUME NEW T \in SUBSET Nat, T # {}
  PROVE  \E m \in T : \A n \in T : m <= n
<1> DEFINE R == OpToRel(<, Nat)
<1>1. IsWellFoundedOn(R, Nat)
  BY NatLessThanWellFounded
<1>2. \A x, y \in Nat : x < y => <<x, y>> \in R
  BY DEF OpToRel
<1> HIDE DEF R
<1>3. PICK m \in T : \A n \in T : ~(<<n, m>> \in R)
  BY <1>1, WFMin
<1>4. ASSUME NEW n \in T
      PROVE  m <= n
  <2>1. m \in Nat /\ n \in Nat
    OBVIOUS
  <2>2. ~(n < m)
    BY <1>2, <1>3, <2>1
  <2>3. QED
    BY <2>1, <2>2
<1>5. QED
  BY <1>4

Linked(rel) ==
  rel \in [Ids -> Release] /\ \A i \in Ids : rel[i].previous < i

Content(r) == [pack |-> r.pack, settings |-> r.settings]

(* f is Chain of the first n releases.                                     *)
Unfolds(rel, n, f) ==
  f = [i \in 0..n |-> IF i = 0 THEN <<>>
                      ELSE Append(f[rel[i].previous], Content(rel[i]))]

ChainOver(rel) == CHOOSE f : Unfolds(rel, MaxReleases, f)

LEMMA Predecessor ==
  ASSUME NEW rel, Linked(rel), NEW i \in 0..MaxReleases, i # 0
  PROVE  i \in Ids /\ rel[i] \in Release /\ rel[i].previous \in 0..(i - 1)
<1>1. i \in Ids
  BY Constants DEF Ids
<1>2. rel[i] \in Release /\ rel[i].previous < i
  BY <1>1 DEF Linked
<1>3. rel[i].previous \in 0..MaxReleases
  BY <1>2 DEF Release
<1>4. QED
  BY <1>1, <1>2, <1>3, Constants

LEMMA ChainsExist ==
  ASSUME NEW rel, Linked(rel), NEW n \in 0..MaxReleases
  PROVE  \E f : Unfolds(rel, n, f)
<1> DEFINE T == {k \in 0..MaxReleases : ~\E f : Unfolds(rel, k, f)}
<1>1. SUFFICES ASSUME T # {} PROVE FALSE
  OBVIOUS
<1>2. T \in SUBSET Nat
  BY Constants
<1>3. PICK m \in T : \A k \in T : m <= k
  BY <1>1, <1>2, LeastNumber
<1>4. m \in 0..MaxReleases /\ ~\E f : Unfolds(rel, m, f)
  BY <1>3
<1>5. CASE m = 0
  <2>1. Unfolds(rel, 0, [i \in 0..0 |-> <<>>])
    BY DEF Unfolds
  <2>2. QED
    BY <1>4, <1>5, <2>1
<1>6. CASE m # 0
  <2>1. m - 1 \in 0..MaxReleases /\ m - 1 \notin T /\ m \in Nat
    BY <1>2, <1>3, <1>4, <1>6, Constants
  <2>2. PICK f : Unfolds(rel, m - 1, f)
    BY <2>1
  <2> DEFINE e(g, i) == IF i = 0 THEN <<>>
                        ELSE Append(g[rel[i].previous], Content(rel[i]))
             g == [i \in 0..m |-> IF i = m THEN e(f, i) ELSE f[i]]
  <2>3. \A i \in 0..m : i # m => i \in 0..(m - 1) /\ f[i] = e(f, i)
    <3>1. f = [i \in 0..(m - 1) |-> e(f, i)]
      BY <2>2 DEF Unfolds
    <3>2. \A i \in 0..m : i # m => i \in 0..(m - 1)
      BY <2>1
    <3> HIDE DEF e
    <3>3. QED
      BY <3>1, <3>2
  <2>4. \A i \in 0..m : g[i] = e(f, i)
    BY <2>3
  <2>5. ASSUME NEW i \in 0..m
        PROVE  g[i] = e(g, i)
    <3>1. CASE i = 0
      BY <2>4, <3>1
    <3>2. CASE i # 0
      <4>1. i \in 0..MaxReleases /\ i \in Nat /\ i <= m
        BY <1>4, <2>1, Constants
      <4>2. rel[i].previous \in 0..(i - 1)
        BY <3>2, <4>1, Predecessor
      <4>3. rel[i].previous \in 0..m /\ rel[i].previous # m
        BY <2>1, <4>1, <4>2
      <4>4. g[rel[i].previous] = f[rel[i].previous]
        BY <4>3
      <4>5. QED
        BY <2>4, <3>2, <4>4
    <3>3. QED
      BY <3>1, <3>2
  <2>6. g = [i \in 0..m |-> e(g, i)]
    BY <2>5
  <2>7. Unfolds(rel, m, g)
    BY <2>6 DEF Unfolds
  <2>8. QED
    BY <1>4, <2>7
<1>7. QED
  BY <1>5, <1>6

LEMMA ChainUnfolds ==
  ASSUME NEW rel, Linked(rel)
  PROVE  /\ ChainOver(rel)[0] = <<>>
         /\ \A i \in Ids : ChainOver(rel)[i] =
              Append(ChainOver(rel)[rel[i].previous], Content(rel[i]))
<1>1. MaxReleases \in 0..MaxReleases
  BY Constants
<1>2. PICK f : Unfolds(rel, MaxReleases, f)
  BY <1>1, ChainsExist
<1>3. Unfolds(rel, MaxReleases, ChainOver(rel))
  BY <1>2 DEF ChainOver
<1>4. 0 \in 0..MaxReleases /\ \A i \in Ids : i \in 0..MaxReleases /\ i # 0
  BY Constants DEF Ids
<1> DEFINE C == ChainOver(rel)
<1>5. C = [i \in 0..MaxReleases |->
             IF i = 0 THEN <<>> ELSE Append(C[rel[i].previous], Content(rel[i]))]
  BY <1>3 DEF Unfolds
<1> HIDE DEF C
<1>6. /\ C[0] = <<>>
      /\ \A i \in Ids : C[i] = Append(C[rel[i].previous], Content(rel[i]))
  BY <1>4, <1>5
<1>7. QED
  BY <1>6 DEF C

Contents == [pack : Packs, settings : Versions]

LEMMA ChainType ==
  ASSUME NEW rel, Linked(rel)
  PROVE  \A i \in 0..MaxReleases : ChainOver(rel)[i] \in Seq(Contents)
<1> DEFINE T == {i \in 0..MaxReleases : ChainOver(rel)[i] \notin Seq(Contents)}
<1>1. SUFFICES ASSUME T # {} PROVE FALSE
  OBVIOUS
<1>2. T \in SUBSET Nat
  BY Constants
<1>3. PICK m \in T : \A k \in T : m <= k
  BY <1>1, <1>2, LeastNumber
<1>4. m # 0
  <2>1. <<>> \in Seq(Contents)
    OBVIOUS
  <2>2. QED
    BY <1>3, <2>1, ChainUnfolds
<1>5. m \in Ids /\ rel[m] \in Release /\ rel[m].previous \in 0..(m - 1)
  BY <1>3, <1>4, Predecessor
<1>6. rel[m].previous \in 0..MaxReleases /\ ~(m <= rel[m].previous)
  BY <1>5, Constants DEF Ids
<1>7. ChainOver(rel)[rel[m].previous] \in Seq(Contents)
  BY <1>3, <1>6
<1>8. Content(rel[m]) \in Contents
  BY <1>5 DEF Content, Contents, Release
<1>9. ChainOver(rel)[m] \in Seq(Contents)
  <2>1. ChainOver(rel)[m] =
          Append(ChainOver(rel)[rel[m].previous], Content(rel[m]))
    BY <1>5, ChainUnfolds
  <2>2. QED
    BY <1>7, <1>8, <2>1
<1>10. QED
  BY <1>3, <1>9

(* A release installed later does not change what an older one stands for. *)
LEMMA ChainLocal ==
  ASSUME NEW rel, Linked(rel), NEW new, Linked(new), NEW n \in 0..MaxReleases,
         \A i \in Ids : i <= n => new[i] = rel[i]
  PROVE  \A i \in 0..n : ChainOver(new)[i] = ChainOver(rel)[i]
<1> DEFINE T == {i \in 0..n : ChainOver(new)[i] # ChainOver(rel)[i]}
<1>1. SUFFICES ASSUME T # {} PROVE FALSE
  OBVIOUS
<1>2. T \in SUBSET Nat
  BY Constants
<1>3. PICK m \in T : \A k \in T : m <= k
  BY <1>1, <1>2, LeastNumber
<1>4. m # 0
  BY <1>3, ChainUnfolds
<1>5. m \in 0..MaxReleases /\ m <= n
  BY <1>3, Constants
<1>6. m \in Ids /\ rel[m].previous \in 0..(m - 1) /\ new[m] = rel[m]
  BY <1>4, <1>5, Predecessor
<1>7. rel[m].previous \in 0..n /\ ~(m <= rel[m].previous)
  BY <1>5, <1>6, Constants DEF Ids
<1>8. ChainOver(new)[rel[m].previous] = ChainOver(rel)[rel[m].previous]
  BY <1>3, <1>7
<1>9. ChainOver(new)[m] = ChainOver(rel)[m]
  <2>1. /\ ChainOver(new)[m] =
             Append(ChainOver(new)[new[m].previous], Content(new[m]))
        /\ ChainOver(rel)[m] =
             Append(ChainOver(rel)[rel[m].previous], Content(rel[m]))
    BY <1>6, ChainUnfolds
  <2>2. QED
    BY <1>6, <1>8, <2>1
<1>10. QED
  BY <1>3, <1>9

(***************************************************************************)
(* The generations implement a stack.                                      *)
(***************************************************************************)
LEMMA ReleasesLinked == IInv => Linked(releases)
BY DEF IInv, TypeOK, Ordered, Linked

LEMMA ChainIs ==
  Chain = ChainOver(releases) /\ Chain' = ChainOver(releases')
BY DEF Chain, ChainOver, Unfolds, Content

(* The top of the stack, and what is below it.                             *)
LEMMA TopOf ==
  ASSUME IInv, NEW i \in 1..installed
  PROVE  /\ Chain[i] = Append(Chain[releases[i].previous], Content(releases[i]))
         /\ Chain[i] \in Seq(Contents)
         /\ Chain[releases[i].previous] \in Seq(Contents)
         /\ Content(releases[i]) \in Contents
         /\ releases[i].previous \in 0..MaxReleases
<1>1. i \in 0..MaxReleases /\ i # 0
  BY Constants DEF IInv, TypeOK
<1>2. Linked(releases)
  BY ReleasesLinked
<1>3. /\ i \in Ids /\ releases[i] \in Release
      /\ releases[i].previous \in 0..(i - 1)
  BY <1>1, <1>2, Predecessor
<1>4. releases[i].previous \in 0..MaxReleases
  BY <1>1, <1>3, Constants
<1>5. Content(releases[i]) \in Contents
  BY <1>3 DEF Content, Contents, Release
<1>6. QED
  BY <1>1, <1>2, <1>3, <1>4, <1>5, ChainIs, ChainUnfolds, ChainType

(* What an Append put on top comes off again.                              *)
LEMMA Popped ==
  ASSUME NEW S, NEW s \in Seq(S), NEW e \in S
  PROVE  /\ Len(Append(s, e)) > 0 /\ Len(Append(s, e)) - 1 = Len(s)
         /\ s = SubSeq(Append(s, e), 1, Len(s))
<1>1. Len(Append(s, e)) > 0 /\ Len(Append(s, e)) - 1 = Len(s)
  OBVIOUS
<1>2. SubSeq(Append(s, e), 1, Len(s)) \in Seq(S)
      /\ Len(SubSeq(Append(s, e), 1, Len(s))) = Len(s)
  OBVIOUS
<1>3. \A i \in 1..Len(s) : SubSeq(Append(s, e), 1, Len(s))[i] = s[i]
  OBVIOUS
<1>4. QED
  BY <1>1, <1>2, <1>3

LEMMA SwitchMaps ==
  ASSUME IInv, NEW p \in Clis, Switch(p)
  PROVE  Stack!Next
<1> DEFINE t == cli[p].target
<1>1. /\ cli[p].step = "switch" /\ current' = t /\ releases' = releases
      /\ cli[p].op \in {"apply", "rollback"} /\ t \in 1..installed
  BY DEF Switch, At, IInv, Fits
<1>2. Chain' = Chain
  BY <1>1, ChainIs
<1>3. CASE cli[p].op = "apply"
  <2>1. releases[t].previous = current
    BY <1>1, <1>3 DEF IInv, Fits, Faithful
  <2>2. Chain'[current'] = Append(Chain[current], Content(releases[t]))
    BY <1>1, <1>2, <2>1, TopOf
  <2>3. Content(releases[t]) \in [pack : Packs, settings : Versions]
    BY <1>1, TopOf DEF Contents
  <2>4. Stack!Apply
    BY <2>2, <2>3 DEF Stack!Apply
  <2>5. QED
    BY <2>4 DEF Stack!Next
<1>4. CASE cli[p].op = "rollback"
  <2>1. current # 0 /\ t = releases[current].previous
    BY <1>1, <1>4 DEF IInv, Fits
  <2>2. current \in 1..installed
    BY <2>1, Constants DEF IInv, TypeOK
  <2> DEFINE below == Chain[t] top == Content(releases[current])
  <2>3. /\ Chain[current] = Append(below, top)
        /\ below \in Seq(Contents) /\ top \in Contents
    BY <2>1, <2>2, TopOf
  <2>4. Len(below) > 0
    <3>1. below = Append(Chain[releases[t].previous], Content(releases[t]))
          /\ Chain[releases[t].previous] \in Seq(Contents)
          /\ Content(releases[t]) \in Contents
      BY <1>1, TopOf
    <3>2. Len(Append(Chain[releases[t].previous], Content(releases[t]))) > 0
      BY ONLY <3>1, Popped
    <3>3. QED
      BY ONLY <3>1, <3>2
  <2>5. Chain'[current'] = below
    BY <1>1, <1>2
  <2> HIDE DEF below, top
  <2>6. Len(Chain[current]) > 1 /\ Len(Chain[current]) - 1 = Len(below)
    BY ONLY <2>3, <2>4, Popped
  <2>7. below = SubSeq(Append(below, top), 1, Len(below))
    BY ONLY <2>3, Popped
  <2>8. Stack!Rollback
    BY <2>3, <2>5, <2>6, <2>7 DEF Stack!Rollback
  <2>9. QED
    BY <2>8 DEF Stack!Next
<1>5. QED
  BY <1>1, <1>3, <1>4

(* A release that nothing points to yet changes nothing.                   *)
LEMMA RenameMaps ==
  ASSUME IInv, IInv', NEW p \in Clis, Rename(p)
  PROVE  (Chain[current])' = Chain[current]
<1>1. /\ installed < MaxReleases /\ current' = current
      /\ \A i \in Ids : i # installed + 1 => releases'[i] = releases[i]
  BY DEF Rename, IInv, TypeOK
<1>2. /\ installed \in 0..MaxReleases /\ installed \in Nat
      /\ current \in 0..installed
  BY Constants DEF IInv, TypeOK
<1>3. \A i \in Ids : i <= installed => releases'[i] = releases[i]
  BY <1>1, <1>2 DEF Ids
<1>4. Linked(releases) /\ Linked(releases')
  BY ReleasesLinked DEF IInv, TypeOK, Ordered, Linked
<1>5. ChainOver(releases')[current] = ChainOver(releases)[current]
  BY <1>2, <1>3, <1>4, ChainLocal
<1>6. QED
  BY <1>1, <1>5, ChainIs

LEMMA StackInit == Init => Stack!Init
<1> SUFFICES ASSUME Init PROVE Chain[current] = <<>>
  BY DEF Stack!Init
<1>1. Linked(releases)
  BY InitInvariant, ReleasesLinked
<1>2. QED
  BY <1>1, ChainIs, ChainUnfolds DEF Init

LEMMA StackNext == IInv /\ IInv' /\ [Next]_vars => [Stack!Next]_(Chain[current])
<1> SUFFICES ASSUME IInv, IInv', [Next]_vars
             PROVE  Stack!Next \/ (Chain[current])' = Chain[current]
  OBVIOUS
<1>1. CASE UNCHANGED <<releases, current>>
  BY <1>1, ChainIs
<1>2. ASSUME NEW p \in Clis, Switch(p) \/ Rename(p)
      PROVE  Stack!Next \/ (Chain[current])' = Chain[current]
  BY <1>2, SwitchMaps, RenameMaps
<1>3. QED
  BY <1>1, <1>2
     DEF vars, Next, Command, EditFile, EditSettings, StartPlan, StartApply,
         StartRollback, AcquireLock, ShowPlan, Check, Bundle, StageFile,
         ReadPrevious, Fail, Crash

(* Whatever fails or is killed, applies push a generation on those in use  *)
(* and rollbacks take the last one off (install and rollback, core.py).    *)
THEOREM Refinement == Spec => ImplementsStack
BY StackInit, StackNext, Invariance, PTL DEF Spec, ImplementsStack, Stack!Spec
=============================================================================
