------------------------- MODULE UpdateServiceProofs -------------------------
(***************************************************************************)
(* Proofs about UpdateService for every number of runs, users, tokens,     *)
(* updaters, crashes and retries.  IInv is inductive; one lemma proves     *)
(* that each of its conjuncts is preserved, by cases on the action taken.  *)
(***************************************************************************)
EXTENDS UpdateService, TLAPS

(***************************************************************************)
(* Types.                                                                  *)
(***************************************************************************)
LEMMA CreateType ==
  ASSUME StoreTypeOK,
         NEW trigger \in {"manual", "scheduled"}, NEW by \in Users \cup {System},
         NEW selection \in Selections \cup {NoSelection},
         Create(trigger, by, selection)
  PROVE  StoreTypeOK' /\ created + 1 \in RunIds /\ created \in Nat
<1>1. created + 1 \in RunIds /\ created \in Nat
  BY MaxRunsAssumption DEF StoreTypeOK, Create, RunIds
<1>2. [trigger |-> trigger, by |-> by, selection |-> selection,
       status |-> "queued"] \in RunRecord
  BY DEF RunRecord, Status
<1>3. QED
  BY <1>1, <1>2, MaxRunsAssumption DEF StoreTypeOK, Create, RunIds

LEMMA StoredIsRun ==
  ASSUME StoreTypeOK, NEW r, Stored(r)
  PROVE  r \in RunIds
BY MaxRunsAssumption DEF StoreTypeOK, Stored, RunIds

LEMMA UpdateType ==
  ASSUME StoreTypeOK, NEW r, NEW status \in Status, Update(r, status)
  PROVE  StoreTypeOK' /\ r \in RunIds
<1>1. r \in RunIds
  BY StoredIsRun DEF Update
<1>2. runs' \in [RunIds -> RunRecord]
  BY <1>1 DEF StoreTypeOK, Update, RunRecord
<1>3. history' \in [RunIds -> Seq(Terminal)]
  BY <1>1 DEF StoreTypeOK, Update
<1>4. QED
  BY <1>1, <1>2, <1>3 DEF StoreTypeOK, Update

LEMMA UpdateTornType ==
  ASSUME StoreTypeOK, NEW r, NEW status, UpdateTorn(r, status)
  PROVE  StoreTypeOK' /\ r \in RunIds
<1>1. r \in RunIds /\ status \in Status
  BY StoredIsRun DEF UpdateTorn, Status
<1>2. runs' \in [RunIds -> RunRecord]
  BY <1>1 DEF StoreTypeOK, UpdateTorn, RunRecord
<1>3. QED
  BY <1>1, <1>2 DEF StoreTypeOK, UpdateTorn

LEMMA RecordType ==
  ASSUME StoreTypeOK, NEW u, NEW status \in Status, NEW next,
         Record(u, status, next)
  PROVE  StoreTypeOK'
BY UpdateType DEF Record, StoreTypeOK, storeVars

(* What a run record and an updater are made of.                           *)
LEMMA Parts ==
  ASSUME TypeOK
  PROVE  /\ \A r \in RunIds : /\ runs[r].trigger \in {"manual", "scheduled"}
                              /\ runs[r].by \in Users \cup {System}
                              /\ runs[r].selection \in Selections \cup {NoSelection}
                              /\ runs[r].status \in Status
         /\ \A u \in Updaters : /\ updater[u].step \in Steps
                                /\ updater[u].trigger \in {"manual", "scheduled"}
                                /\ updater[u].run \in 0..MaxRuns
                                /\ updater[u].run \in Int
                                /\ updater[u].seen \in Policy
         /\ created \in Nat /\ created <= MaxRuns /\ MaxRuns \in Nat
<1>1. \A r \in RunIds : runs[r] \in RunRecord
  BY DEF TypeOK, StoreTypeOK
<1>2. \A u \in Updaters : updater[u] \in Updater
  BY DEF TypeOK, ServiceTypeOK
<1>3. QED
  BY <1>1, <1>2, MaxRunsAssumption DEF TypeOK, StoreTypeOK, RunRecord, Updater

(* The authority's own operations.                                         *)
LEMMA AuthorityType ==
  ASSUME TypeOK, Progress, Authority
  PROVE  TypeOK'
<1> USE DEF AuthorityOnly, authVars, storeVars
<1>1. ASSUME NEW crashed, Faulty(crashed)
      PROVE  budget' \in [crashes : Nat, timers : Nat, retries : Nat]
  BY <1>1 DEF Faulty, TypeOK, ServiceTypeOK
<1>2. ASSUME AuthorityOnly,
             budget' \in [crashes : Nat, timers : Nat, retries : Nat]
      PROVE  StoreTypeOK' /\ ServiceTypeOK'
  BY <1>2 DEF TypeOK, StoreTypeOK, ServiceTypeOK
<1>3. ASSUME NEW u \in Users, NEW t \in Tokens, NEW c \in Nat, Issue(t, u, c)
      PROVE  /\ session' \in [Tokens -> Credential \cup {NoCredential}]
             /\ live' \subseteq Tokens
  BY <1>3 DEF Issue, TypeOK, AuthTypeOK, Credential
<1>4. ASSUME NEW u \in Users
      PROVE  account[u] \in Account /\ account[u].credential \in Nat
             /\ account[u].credential + 1 \in Nat
  BY DEF TypeOK, AuthTypeOK, Account
<1>5. CASE FirstUse
  <2>1. PICK u \in Users, t \in Tokens, crashed \in BOOLEAN :
          Register(u, t, crashed) /\ Faulty(crashed) /\ AuthorityOnly
    BY <1>5 DEF FirstUse
  <2>2. account' \in [Users -> Account]
    BY <2>1 DEF Register, TypeOK, AuthTypeOK, Account, Roles, Admin, Operator, Viewer
  <2>3. AuthTypeOK'
    BY <1>3, <2>1, <2>2 DEF Register, TypeOK, AuthTypeOK
  <2>4. QED
    BY <1>1, <1>2, <2>1, <2>3 DEF TypeOK
<1>6. CASE SignIn
  <2>1. PICK u \in Users, t \in Tokens :
          Login(u, t) /\ Faulty(FALSE) /\ AuthorityOnly
    BY <1>6 DEF SignIn
  <2>2. AuthTypeOK'
    BY <1>3, <1>4, <2>1 DEF Login, TypeOK, AuthTypeOK
  <2>3. QED
    BY <1>1, <1>2, <2>1, <2>2 DEF TypeOK
<1>7. CASE SignOut
  BY <1>1, <1>2, <1>7 DEF SignOut, Logout, TypeOK, AuthTypeOK
<1>8. CASE AccountChange
  <2>1. PICK u \in Users, role \in Roles, crashed \in BOOLEAN :
          SetAccount(u, role, crashed) /\ Faulty(crashed) /\ AuthorityOnly
    BY <1>8 DEF AccountChange
  <2>2. account' \in [Users -> Account]
    BY <1>4, <2>1 DEF SetAccount, TypeOK, AuthTypeOK, Account
  <2>3. AuthTypeOK'
    BY <2>1, <2>2 DEF SetAccount, TypeOK, AuthTypeOK
  <2>4. QED
    BY <1>1, <1>2, <2>1, <2>3 DEF TypeOK
<1>9. CASE SessionEnds
  <2>1. PICK t \in Tokens : Expire(t) /\ Faulty(FALSE) /\ AuthorityOnly
    BY <1>9 DEF SessionEnds
  <2>2. AuthTypeOK'
    BY <2>1 DEF Expire, TypeOK, AuthTypeOK
  <2>3. QED
    BY <1>1, <1>2, <2>1, <2>2 DEF TypeOK
<1>10. CASE PolicyChange
  <2>1. PICK t \in Tokens, enabled \in BOOLEAN, selection \in Selections :
          SavePolicy(t, enabled, selection)
    BY <1>10 DEF PolicyChange
  <2>2. policy' \in Policy
    BY <2>1 DEF SavePolicy, TypeOK, AuthTypeOK, Policy
  <2>3. AuthTypeOK'
    BY <2>1, <2>2 DEF SavePolicy, TypeOK, AuthTypeOK
  <2>4. ClearedRuns \subseteq RunIds
    <3>1. ASSUME NEW u \in Updaters, At(u, "cleared")
          PROVE  updater[u].run \in RunIds
      <4>1. updater[u].run # 0
        BY <3>1 DEF Progress, StepFits, At
      <4>2. QED
        BY <4>1, Parts DEF RunIds
    <3>2. QED
      BY <3>1 DEF ClearedRuns
  <2>5. overtaken' \in [0..MaxPolicies -> SUBSET RunIds]
    BY <1>10, <2>4 DEF PolicyChange, TypeOK, ServiceTypeOK
  <2>6. StoreTypeOK' /\ ServiceTypeOK'
    BY <1>10, <2>5 DEF PolicyChange, TypeOK, StoreTypeOK, ServiceTypeOK
  <2>7. QED
    BY <2>3, <2>6 DEF TypeOK
<1>11. QED
  BY <1>5, <1>6, <1>7, <1>8, <1>9, <1>10 DEF Authority

(* What the steps of an updater leave of its record and of the others.     *)
LEMMA UpdaterStep ==
  ASSUME TypeOK, NEW u \in Updaters, NEW step \in Steps, Goto(u, step)
  PROVE  /\ updater' \in [Updaters -> Updater]
         /\ updater'[u].step = step
         /\ updater'[u].run = updater[u].run
         /\ updater'[u].trigger = updater[u].trigger
         /\ updater'[u].seen = updater[u].seen
         /\ \A v \in Updaters \ {u} : updater'[v] = updater[v]
<1>1. updater \in [Updaters -> Updater] /\ updater[u] \in Updater
  BY DEF TypeOK, ServiceTypeOK
<1>2. updater'[u] = [updater[u] EXCEPT !.step = step]
  BY <1>1 DEF Goto
<1>3. updater'[u] \in Updater
  BY <1>1, <1>2 DEF Updater
<1>4. updater' = [updater EXCEPT ![u] = updater'[u]]
  BY <1>1, <1>2 DEF Goto
<1>5. updater' \in [Updaters -> Updater]
  BY <1>1, <1>3, <1>4
<1>6. \A v \in Updaters \ {u} : updater'[v] = updater[v]
  BY <1>1, <1>4
<1>7. QED
  BY <1>1, <1>2, <1>5, <1>6 DEF Updater

LEMMA UpdaterSet ==
  ASSUME TypeOK, NEW u \in Updaters, NEW value \in Updater,
         updater' = [updater EXCEPT ![u] = value]
  PROVE  /\ updater' \in [Updaters -> Updater]
         /\ updater'[u] = value
         /\ \A v \in Updaters \ {u} : updater'[v] = updater[v]
BY DEF TypeOK, ServiceTypeOK

LEMMA OffType == Off \in Updater /\ NoPolicy \in Policy
BY MaxRunsAssumption DEF Off, Updater, Steps, NoPolicy, Policy

LEMMA InvokedType ==
  ASSUME NEW trigger \in {"manual", "scheduled"}, NEW r \in 0..MaxRuns
  PROVE  Invoked(trigger, r) \in Updater
BY OffType DEF Invoked, Updater, Steps

LEMMA RunUpdaterSet ==
  ASSUME TypeOK, NEW u \in Updaters, NEW r \in 0..MaxRuns,
         updater' = [updater EXCEPT ![u].run = r]
  PROVE  /\ updater' \in [Updaters -> Updater]
         /\ updater'[u].run = r
         /\ updater'[u].step = updater[u].step
         /\ updater'[u].trigger = updater[u].trigger
         /\ \A v \in Updaters \ {u} : updater'[v] = updater[v]
<1>1. updater \in [Updaters -> Updater] /\ updater[u] \in Updater
  BY DEF TypeOK, ServiceTypeOK
<1>2. updater'[u] = [updater[u] EXCEPT !.run = r]
  BY <1>1
<1>3. updater'[u] \in Updater
  BY <1>1, <1>2 DEF Updater
<1>4. updater' = [updater EXCEPT ![u] = updater'[u]]
  BY <1>1, <1>2
<1>5. QED
  BY <1>1, <1>2, <1>3, <1>4, UpdaterSet DEF Updater

LEMMA ReadPolicyUpdater ==
  ASSUME TypeOK, NEW u \in Updaters, ReadPolicy(u)
  PROVE  /\ updater' \in [Updaters -> Updater]
         /\ updater'[u].step = "verifying"
         /\ updater'[u].run = updater[u].run
         /\ updater'[u].trigger = "scheduled"
         /\ \A v \in Updaters \ {u} : updater'[v] = updater[v]
<1>1. /\ updater \in [Updaters -> Updater] /\ updater[u] \in Updater
      /\ policy \in Policy
  BY DEF TypeOK, ServiceTypeOK, AuthTypeOK
<1>2. updater'[u] = [updater[u] EXCEPT !.step = "verifying", !.seen = policy]
  BY <1>1 DEF ReadPolicy
<1>3. updater'[u] = [step |-> "verifying", trigger |-> updater[u].trigger,
                     run |-> updater[u].run, seen |-> policy]
  BY <1>1, <1>2 DEF Updater
<1>4. updater'[u] \in Updater
  BY <1>1, <1>3 DEF Updater, Steps
<1>5. updater' = [updater EXCEPT ![u] = updater'[u]]
  BY <1>1, <1>2 DEF ReadPolicy
<1>6. QED
  BY <1>1, <1>3, <1>4, <1>5, UpdaterSet DEF ReadPolicy

(* A session in force was issued to a user.                                *)
LEMMA LiveSession ==
  ASSUME TypeOK, Approvals, NEW t \in live
  PROVE  /\ t \in Tokens /\ session[t] \in Credential
         /\ session[t].user \in Users /\ session[t].credential \in Nat
BY DEF TypeOK, AuthTypeOK, Approvals, Credential

(* The server's steps.                                                     *)
LEMMA ServerType ==
  ASSUME TypeOK, Approvals, Server
  PROVE  TypeOK'
<1> USE DEF authVars, storeVars
<1>0. /\ Idle \in [run : 0..MaxRuns, token : Tokens \cup {NoToken}]
      /\ helper.token \in Tokens \cup {NoToken}
  BY MaxRunsAssumption DEF Idle, TypeOK, AuthTypeOK
<1>1. /\ StoreTypeOK /\ AuthTypeOK /\ ServiceTypeOK
      /\ request \in [RunIds -> Stages]
      /\ budget \in [crashes : Nat, timers : Nat, retries : Nat]
  BY DEF TypeOK, ServiceTypeOK
<1>2. budget.crashes > 0 /\ budget' = [budget EXCEPT !.crashes = @ - 1]
        => budget' \in [crashes : Nat, timers : Nat, retries : Nat]
  BY <1>1
<1>3. ASSUME NEW t \in Tokens, NEW selection \in Selections, PostRun(t, selection)
      PROVE  TypeOK'
  <2>1. /\ t \in live /\ Create("manual", session[t].user, selection)
        /\ helper' = [run |-> created + 1, token |-> t]
        /\ asked' = [asked EXCEPT ![created + 1] = t]
        /\ UNCHANGED <<account, session, live, approval, policy, spent>>
        /\ request' = [request EXCEPT ![created + 1] = "authorizing"]
        /\ UNCHANGED <<updater, started, interrupted, overtaken, budget>>
    BY <1>3 DEF PostRun, AuthorizeRun, SessionValid
  <2>2. StoreTypeOK' /\ created + 1 \in RunIds
    BY <1>1, <2>1, LiveSession, CreateType
  <2>3. AuthTypeOK'
    BY <1>1, <2>1, <2>2, MaxRunsAssumption DEF AuthTypeOK, RunIds
  <2>4. ServiceTypeOK'
    BY <1>1, <2>1, <2>2 DEF ServiceTypeOK, Stages
  <2>5. QED
    BY <2>2, <2>3, <2>4 DEF TypeOK
<1>4. CASE HelperApproves
  <2>1. AuthTypeOK'
    BY <1>0, <1>1, <1>4 DEF HelperApproves, RecordApproval, AuthTypeOK
  <2>2. StoreTypeOK' /\ ServiceTypeOK'
    BY <1>1, <1>4 DEF HelperApproves, StoreTypeOK, ServiceTypeOK, Stages
  <2>3. QED
    BY <2>1, <2>2 DEF TypeOK
<1>5. CASE HelperCrash
  <2>1. AuthTypeOK'
    BY <1>0, <1>1, <1>5 DEF HelperCrash, HelperKilled, AuthTypeOK
  <2>2. StoreTypeOK' /\ ServiceTypeOK'
    BY <1>1, <1>2, <1>5 DEF HelperCrash, StoreTypeOK, ServiceTypeOK, Stages
  <2>3. QED
    BY <2>1, <2>2 DEF TypeOK
<1>6. ASSUME NEW u \in Updaters, NEW r \in RunIds, StartTrigger(u, r)
      PROVE  TypeOK'
  <2>1. updater' \in [Updaters -> Updater]
    <3>1. r \in 0..MaxRuns
      BY MaxRunsAssumption DEF RunIds
    <3>2. QED
      BY <1>6, <3>1, InvokedType, UpdaterSet DEF StartTrigger, Invoke
  <2>2. QED
    BY <1>1, <1>6, <2>1
       DEF StartTrigger, TypeOK, StoreTypeOK, AuthTypeOK, ServiceTypeOK, Stages
<1>7. ASSUME NEW r \in RunIds, StartFails(r)
      PROVE  TypeOK'
  <2>1. StoreTypeOK'
    <3>1. "failed" \in Status
      BY DEF Status, Terminal
    <3>2. QED
      BY <1>1, <1>7, <3>1, UpdateType DEF StartFails, StoreTypeOK
  <2>2. QED
    BY <1>1, <1>2, <1>7, <2>1
       DEF StartFails, TypeOK, AuthTypeOK, ServiceTypeOK, Stages
<1>8. ASSUME NEW r \in RunIds, ServerCrash(r)
      PROVE  TypeOK'
  BY <1>1, <1>2, <1>8
     DEF ServerCrash, TypeOK, StoreTypeOK, AuthTypeOK, ServiceTypeOK, Stages
<1>9. QED
  BY <1>3, <1>4, <1>5, <1>6, <1>7, <1>8 DEF Server

LEMMA SomeStatuses ==
  /\ Terminal \subseteq Status /\ "queued" \in Status /\ "running" \in Status
  /\ "blocked" \in Terminal /\ "failed" \in Terminal
  /\ Outcomes \subseteq Terminal
BY DEF Status, Terminal, Outcomes

(* A write of the run and the step that goes with it.                      *)
LEMMA RecordStep ==
  ASSUME TypeOK, NEW u \in Updaters, NEW status \in Status, NEW next \in Steps,
         Record(u, status, next)
  PROVE  StoreTypeOK' /\ updater' \in [Updaters -> Updater]
<1>1. StoreTypeOK'
  BY RecordType DEF TypeOK
<1>2. CASE Goto(u, next)
  BY <1>1, <1>2, UpdaterStep
<1>3. CASE Exit(u)
  BY <1>1, <1>3, UpdaterSet, OffType DEF Exit
<1>4. QED
  BY <1>2, <1>3 DEF Record

(* An updater's steps.                                                     *)
LEMMA ExecuteType ==
  ASSUME TypeOK, NEW u \in Updaters, Execute(u)
  PROVE  TypeOK'
<1> USE DEF authVars, storeVars
<1>1. /\ StoreTypeOK /\ AuthTypeOK /\ ServiceTypeOK
      /\ updater[u].run \in 0..MaxRuns /\ spent \in [RunIds -> Nat]
      /\ runs \in [RunIds -> RunRecord]
  BY Parts DEF TypeOK, AuthTypeOK, StoreTypeOK
<1>2. ASSUME updater' \in [Updaters -> Updater],
             UNCHANGED <<request, started, interrupted, overtaken, budget>>
      PROVE  ServiceTypeOK'
  BY <1>1, <1>2 DEF ServiceTypeOK
<1>3. UNCHANGED authVars => AuthTypeOK'
  BY <1>1 DEF AuthTypeOK
<1>4. UNCHANGED storeVars => StoreTypeOK'
  BY <1>1 DEF StoreTypeOK
<1>5. Exit(u) => updater' \in [Updaters -> Updater]
  BY UpdaterSet, OffType DEF Exit
<1>6. CASE AcquireLock(u)
  <2>1. Goto(u, "locked") /\ "locked" \in Steps
    BY <1>6 DEF AcquireLock, Goto, Steps
  <2>2. QED
    BY <1>2, <1>3, <1>4, <1>6, <2>1, UpdaterStep DEF AcquireLock, TypeOK
<1>7. CASE CreateScheduled(u)
  <2>1. StoreTypeOK' /\ created + 1 \in RunIds
    <3>1. policy.selection \in Selections \cup {NoSelection}
      BY <1>1 DEF AuthTypeOK, Policy
    <3>2. QED
      BY <1>1, <1>7, <3>1, CreateType DEF CreateScheduled
  <2>2. created + 1 \in 0..MaxRuns
    BY <2>1, MaxRunsAssumption DEF RunIds
  <2>3. updater' \in [Updaters -> Updater]
    BY <1>7, <2>2, RunUpdaterSet DEF CreateScheduled
  <2>4. QED
    BY <1>2, <1>3, <1>7, <2>1, <2>3 DEF CreateScheduled, TypeOK
<1>8. CASE LoadRun(u)
  <2>1. updater' \in [Updaters -> Updater]
    BY <1>5, <1>8, UpdaterStep DEF LoadRun, Steps
  <2>2. QED
    BY <1>2, <1>3, <1>4, <1>8, <2>1 DEF LoadRun, TypeOK
<1>9. CASE ConsumeApproval(u)
  <2>1. updater' \in [Updaters -> Updater]
    BY <1>9, UpdaterStep DEF ConsumeApproval, Steps
  <2>2. AuthTypeOK'
    <3>1. CASE ConsumeRun(updater[u].run)
      <4>1. \A r \in RunIds : spent[r] + 1 \in Nat
        BY <1>1
      <4>2. spent' \in [RunIds -> Nat]
        BY <1>1, <3>1, <4>1 DEF ConsumeRun
      <4>3. QED
        BY <1>1, <3>1, <4>2 DEF ConsumeRun, AuthTypeOK
    <3>2. QED
      BY <1>3, <1>9, <3>1 DEF ConsumeApproval
  <2>3. QED
    BY <1>2, <1>4, <1>9, <2>1, <2>2 DEF ConsumeApproval, TypeOK
<1>10. CASE ReadPolicy(u)
  <2>1. updater' \in [Updaters -> Updater]
    BY <1>10, ReadPolicyUpdater
  <2>2. QED
    BY <1>2, <1>3, <1>4, <1>10, <2>1 DEF ReadPolicy, TypeOK
<1>11. CASE VerifyPolicy(u)
  <2>1. updater' \in [Updaters -> Updater]
    BY <1>11, UpdaterStep DEF VerifyPolicy, Steps
  <2>2. spent' \in [RunIds -> Nat]
    BY <1>1, <1>11 DEF VerifyPolicy
  <2>3. AuthTypeOK'
    BY <1>1, <1>11, <2>2 DEF VerifyPolicy, AuthTypeOK
  <2>4. QED
    BY <1>2, <1>4, <1>11, <2>1, <2>3 DEF VerifyPolicy, TypeOK
<1>12. CASE Refuse(u)
  <2>1. StoreTypeOK' /\ updater' \in [Updaters -> Updater]
    BY <1>12, RecordStep, SomeStatuses DEF Refuse, Steps
  <2>2. QED
    BY <1>2, <1>3, <1>12, <2>1 DEF Refuse, TypeOK
<1>13. CASE MarkRunning(u)
  <2>1. StoreTypeOK' /\ updater' \in [Updaters -> Updater]
    BY <1>13, RecordStep, SomeStatuses DEF MarkRunning, Steps
  <2>2. started' \in [RunIds -> Nat]
    <3>1. started \in [RunIds -> Nat]
      BY <1>1 DEF ServiceTypeOK
    <3>2. QED
      BY <1>1, <1>13, <3>1, StoredIsRun DEF MarkRunning
  <2>3. ServiceTypeOK'
    BY <1>1, <1>13, <2>1, <2>2 DEF MarkRunning, ServiceTypeOK
  <2>4. QED
    BY <1>3, <1>13, <2>1, <2>3 DEF MarkRunning, TypeOK
<1>14. ASSUME NEW outcome \in Outcomes, FinishRun(u, outcome)
       PROVE  TypeOK'
  <2>1. StoreTypeOK' /\ updater' \in [Updaters -> Updater]
    BY <1>14, RecordStep, SomeStatuses DEF FinishRun, Steps
  <2>2. QED
    BY <1>2, <1>3, <1>14, <2>1 DEF FinishRun, TypeOK
<1>15. CASE Publish(u)
  <2>1. StoreTypeOK'
    <3>1. CASE Update(updater[u].run, runs[updater[u].run].status)
      <4>1. updater[u].run \in RunIds
        BY <1>1, <3>1, StoredIsRun DEF Update
      <4>2. runs[updater[u].run].status \in Status
        BY <1>1, <4>1 DEF RunRecord
      <4>3. QED
        BY <1>1, <3>1, <4>2, UpdateType
    <3>2. QED
      BY <1>4, <1>15, <3>1 DEF Publish
  <2>2. QED
    BY <1>2, <1>3, <1>5, <1>15, <2>1 DEF Publish, TypeOK
<1>16. QED
  BY <1>6, <1>7, <1>8, <1>9, <1>10, <1>11, <1>12, <1>13, <1>14, <1>15
     DEF Execute

(* Invocations and kills.                                                  *)
LEMMA InvocationType ==
  ASSUME TypeOK, Progress, NEW u \in Updaters, Invocation(u)
  PROVE  TypeOK'
<1> USE DEF authVars, storeVars
<1>1. /\ StoreTypeOK /\ AuthTypeOK /\ ServiceTypeOK
      /\ budget \in [crashes : Nat, timers : Nat, retries : Nat]
  BY DEF TypeOK, ServiceTypeOK
<1>2. UNCHANGED authVars => AuthTypeOK'
  BY <1>1 DEF AuthTypeOK
<1>3. UNCHANGED storeVars => StoreTypeOK'
  BY <1>1 DEF StoreTypeOK
<1>4. ASSUME Killed(u)
      PROVE  AuthTypeOK' /\ ServiceTypeOK'
  <2>1. updater' \in [Updaters -> Updater]
    BY <1>4, UpdaterSet, OffType DEF Killed, Exit
  <2>2. budget' \in [crashes : Nat, timers : Nat, retries : Nat]
    BY <1>1, <1>4 DEF Killed
  <2>3. interrupted' \subseteq RunIds
    <3>1. CASE At(u, "executing")
      <4>1. updater[u].run # 0 /\ updater[u].run \in 0..MaxRuns
        BY <3>1, Parts DEF Progress, StepFits, At
      <4>2. updater[u].run \in RunIds
        BY <4>1, MaxRunsAssumption DEF RunIds
      <4>3. QED
        BY <1>1, <1>4, <4>2 DEF Killed, ServiceTypeOK
    <3>2. QED
      BY <1>1, <1>4, <3>1 DEF Killed, ServiceTypeOK
  <2>4. QED
    BY <1>1, <1>2, <1>4, <2>1, <2>2, <2>3 DEF Killed, ServiceTypeOK
<1>5. ASSUME NEW r \in RunIds, Retrigger(u, r)
      PROVE  TypeOK'
  <2>1. r \in 0..MaxRuns
    BY MaxRunsAssumption DEF RunIds
  <2>2. updater' \in [Updaters -> Updater]
    BY <1>5, <2>1, InvokedType, UpdaterSet DEF Retrigger, Invoke
  <2>3. budget' \in [crashes : Nat, timers : Nat, retries : Nat]
    BY <1>1, <1>5 DEF Retrigger
  <2>4. ServiceTypeOK'
    BY <1>1, <1>5, <2>2, <2>3 DEF Retrigger, ServiceTypeOK
  <2>5. QED
    BY <1>2, <1>3, <1>5, <2>4 DEF Retrigger, TypeOK
<1>6. CASE TimerFires(u)
  <2>1. 0 \in 0..MaxRuns
    BY MaxRunsAssumption
  <2>2. updater' \in [Updaters -> Updater]
    BY <1>6, <2>1, InvokedType, UpdaterSet DEF TimerFires
  <2>3. budget' \in [crashes : Nat, timers : Nat, retries : Nat]
    BY <1>1, <1>6 DEF TimerFires
  <2>4. ServiceTypeOK'
    BY <1>1, <1>6, <2>2, <2>3 DEF TimerFires, ServiceTypeOK
  <2>5. QED
    BY <1>2, <1>3, <1>6, <2>4 DEF TimerFires, TypeOK
<1>7. CASE UpdaterCrash(u)
  BY <1>3, <1>4, <1>7 DEF UpdaterCrash, TypeOK
<1>8. CASE CrashInUpdate(u)
  BY <1>1, <1>4, <1>8, UpdateTornType DEF CrashInUpdate, TypeOK
<1>9. QED
  BY <1>5, <1>6, <1>7, <1>8 DEF Invocation

LEMMA TypeStep ==
  ASSUME IInv, [Next]_vars
  PROVE  TypeOK'
<1>1. CASE UNCHANGED vars
  BY <1>1 DEF vars, storeVars, authVars, serviceVars, IInv, TypeOK,
              StoreTypeOK, AuthTypeOK, ServiceTypeOK
<1>2. QED
  BY <1>1, AuthorityType, ServerType, ExecuteType, InvocationType DEF Next, IInv

(***************************************************************************)
(* The rest of the invariant: what each write does to the store.           *)
(***************************************************************************)
LEMMA CreateEffect ==
  ASSUME TypeOK, NEW trigger \in {"manual", "scheduled"},
         NEW by \in Users \cup {System},
         NEW selection \in Selections \cup {NoSelection},
         Create(trigger, by, selection)
  PROVE  /\ created + 1 \in RunIds /\ created' = created + 1
         /\ runs'[created + 1].trigger = trigger
         /\ runs'[created + 1].by = by
         /\ runs'[created + 1].status = "queued"
         /\ \A r \in RunIds : r # created + 1 => runs'[r] = runs[r]
         /\ UNCHANGED <<history, torn>>
BY CreateType DEF TypeOK, StoreTypeOK, Create

(* What the two ways of updating a run have in common.                     *)
Written(r, status) ==
  /\ r \in RunIds /\ r \in 1..created
  /\ created' = created
  /\ runs'[r].status = status
  /\ runs'[r].trigger = runs[r].trigger
  /\ runs'[r].by = runs[r].by
  /\ runs'[r].selection = runs[r].selection
  /\ \A q \in RunIds : q # r => runs'[q] = runs[q]

LEMMA UpdateEffect ==
  ASSUME TypeOK, NEW r, NEW status,
         Update(r, status) \/ UpdateTorn(r, status)
  PROVE  Written(r, status)
<1>1. r \in RunIds /\ runs \in [RunIds -> RunRecord]
  BY StoredIsRun DEF Update, UpdateTorn, TypeOK, StoreTypeOK
<1>2. runs[r] \in RunRecord /\ runs'[r] = [runs[r] EXCEPT !.status = status]
  BY <1>1 DEF Update, UpdateTorn
<1>3. /\ runs'[r].status = status
      /\ runs'[r].trigger = runs[r].trigger
      /\ runs'[r].by = runs[r].by
      /\ runs'[r].selection = runs[r].selection
  BY <1>2 DEF RunRecord
<1>4. \A q \in RunIds : q # r => runs'[q] = runs[q]
  BY <1>1 DEF Update, UpdateTorn
<1>5. QED
  BY <1>1, <1>3, <1>4 DEF Written, Update, UpdateTorn, Stored

(* A run that has not ended has nothing in the log.                        *)
LEMMA OpenRunUnlogged ==
  ASSUME TypeOK, HistoryAgrees, NEW r \in RunIds,
         runs[r].status \notin Terminal
  PROVE  Len(history[r]) = 0 /\ history[r] = <<>>
<1>1. history[r] \in Seq(Terminal)
  BY DEF TypeOK, StoreTypeOK
<1>2. \A i \in 1..Len(history[r]) : history[r][i] \in Terminal
  BY <1>1
<1>3. Len(history[r]) \in Nat
  BY <1>1
<1>4. ~(Len(history[r]) >= 1)
  BY <1>2, <1>3 DEF HistoryAgrees
<1>5. Len(history[r]) = 0
  BY <1>3, <1>4
<1>6. QED
  BY <1>1, <1>5

LEMMA HistoryUpdate ==
  ASSUME TypeOK, HistoryAgrees, NEW r, NEW status \in Status,
         Update(r, status),
         runs[r].status \notin Terminal \/ runs[r].status = status
  PROVE  HistoryAgrees'
<1>1. Written(r, status)
  BY UpdateEffect
<1>2. r \in RunIds /\ history[r] \in Seq(Terminal)
  BY <1>1 DEF Written, TypeOK, StoreTypeOK
<1>3. \A q \in RunIds : q # r => history'[q] = history[q]
  BY <1>2 DEF Update, TypeOK, StoreTypeOK
<1>4. history'[r] = IF status \in Terminal THEN Append(history[r], status)
                    ELSE history[r]
  BY <1>2 DEF Update, TypeOK, StoreTypeOK
<1>5. torn' = torn
  BY DEF Update
<1>6. \A i \in 1..Len(history[r]) : history[r][i] = status
  BY <1>2, OpenRunUnlogged DEF HistoryAgrees
<1>7. /\ \A i \in 1..Len(history'[r]) : history'[r][i] = status
      /\ status \in Terminal => history'[r] # <<>>
  <2>1. CASE status \in Terminal
    <3>1. /\ Len(history'[r]) = Len(history[r]) + 1
          /\ \A i \in 1..Len(history[r]) : history'[r][i] = history[r][i]
          /\ history'[r][Len(history[r]) + 1] = status
          /\ Len(history[r]) \in Nat
      BY <1>2, <1>4, <2>1
    <3>2. history'[r] # <<>>
      BY <3>1
    <3>3. QED
      BY <1>6, <3>1, <3>2
  <2>2. CASE status \notin Terminal
    BY <1>4, <1>6, <2>2
  <2>3. QED
    BY <2>1, <2>2
<1>8. \A q \in RunIds : q # r => runs'[q] = runs[q]
  BY <1>1 DEF Written
<1>9. runs'[r].status = status
  BY <1>1 DEF Written
<1>10. \A q \in RunIds : q # r =>
         /\ \A i \in 1..Len(history'[q]) : history'[q][i] = runs'[q].status
         /\ runs'[q].status \in Terminal /\ q \notin torn => history'[q] # <<>>
  BY <1>3, <1>8 DEF HistoryAgrees
<1>11. QED
  BY <1>5, <1>7, <1>9, <1>10 DEF HistoryAgrees

LEMMA HistoryTorn ==
  ASSUME TypeOK, HistoryAgrees, NEW r, NEW status,
         UpdateTorn(r, status), runs[r].status \notin Terminal
  PROVE  HistoryAgrees'
<1>1. Written(r, status)
  BY UpdateEffect
<1>2. r \in RunIds
  BY <1>1 DEF Written
<1>3. Len(history[r]) = 0
  BY <1>2, OpenRunUnlogged
<1>4. history' = history /\ torn' = torn \cup {r}
  BY DEF UpdateTorn
<1>5. \A i \in 1..Len(history[r]) : FALSE
  BY <1>3
<1>6. \A q \in RunIds : q # r =>
        /\ \A i \in 1..Len(history[q]) : history[q][i] = runs'[q].status
        /\ runs'[q].status \in Terminal /\ q \notin torn => history[q] # <<>>
  BY <1>1 DEF Written, HistoryAgrees
<1>7. QED
  BY <1>2, <1>4, <1>5, <1>6 DEF HistoryAgrees

LEMMA HistoryCreate ==
  ASSUME TypeOK, HistoryAgrees, FreshRuns,
         NEW trigger \in {"manual", "scheduled"},
         NEW by \in Users \cup {System},
         NEW selection \in Selections \cup {NoSelection},
         Create(trigger, by, selection)
  PROVE  HistoryAgrees'
<1>1. created + 1 \in RunIds /\ created + 1 > created
  BY CreateEffect, Parts
<1>2. runs[created + 1].status \notin Terminal
  BY <1>1 DEF FreshRuns, Terminal
<1>3. Len(history[created + 1]) = 0
  BY <1>1, <1>2, OpenRunUnlogged
<1>4. "queued" \notin Terminal
  BY DEF Terminal
<1>5. \A i \in 1..Len(history[created + 1]) : FALSE
  BY <1>3
<1>6. \A r \in RunIds : r # created + 1 =>
        /\ \A i \in 1..Len(history[r]) : history[r][i] = runs'[r].status
        /\ runs'[r].status \in Terminal /\ r \notin torn => history[r] # <<>>
  BY CreateEffect DEF HistoryAgrees
<1>7. history' = history /\ torn' = torn /\ runs'[created + 1].status = "queued"
  BY CreateEffect
<1>8. QED
  BY <1>1, <1>4, <1>5, <1>6, <1>7 DEF HistoryAgrees

(* What is left alone by a step that changes none of what it speaks of.    *)
LEMMA Frame ==
  ASSUME IInv
  PROVE  /\ UNCHANGED <<runs, created, request, asked, approval, spent, started>>
              => FreshRuns'
         /\ UNCHANGED <<runs, request, updater, helper, asked, approval, spent>>
              => Requests'
         /\ UNCHANGED <<runs, session, live, asked, approval, spent>> => Approvals'
         /\ UNCHANGED <<runs, created, updater, spent>> => Progress'
         /\ UNCHANGED <<runs, spent, started>> => Counts'
         /\ UNCHANGED <<runs, history, torn>> => HistoryAgrees'
         /\ UNCHANGED <<runs, created, updater, interrupted>> => RunningIsExecuted'
         /\ UNCHANGED <<runs, updater, policy, overtaken>> => Scheduled'
<1> USE DEF IInv
<1>1. UNCHANGED <<runs, created, request, asked, approval, spent, started>>
        => FreshRuns'
  BY DEF FreshRuns
<1>2. UNCHANGED <<runs, request, updater, helper, asked, approval, spent>>
        => Requests'
  BY DEF Requests, Active
<1>3. UNCHANGED <<runs, session, live, asked, approval, spent>> => Approvals'
  BY DEF Approvals
<1>4. UNCHANGED <<runs, created, updater, spent>> => Progress'
  BY DEF Progress, OneHolder, StepFits
<1>5. UNCHANGED <<runs, spent, started>> => Counts'
  BY DEF Counts
<1>6. UNCHANGED <<runs, history, torn>> => HistoryAgrees'
  BY DEF HistoryAgrees
<1>7. UNCHANGED <<runs, created, updater, interrupted>> => RunningIsExecuted'
  BY DEF RunningIsExecuted, Stored, At
<1>8. UNCHANGED <<runs, updater, policy, overtaken>> => Scheduled'
  BY DEF Scheduled, At
<1>9. QED
  BY <1>1, <1>2, <1>3, <1>4, <1>5, <1>6, <1>7, <1>8

(* All of IInv but its types and what it says of scheduled runs.           *)
Rest ==
  /\ FreshRuns
  /\ Requests
  /\ Approvals
  /\ Progress
  /\ Counts
  /\ HistoryAgrees
  /\ RunningIsExecuted

(* What the authority's operations have in common: they withdraw approvals *)
(* but give none, and never change what an issued token stands for.        *)
AuthorityEffect ==
  /\ UNCHANGED <<runs, created, history, torn, request, updater, started,
                 interrupted, helper, asked, spent>>
  /\ \A r \in RunIds : approval'[r] \in {approval[r], NoToken}
  /\ \A t \in Tokens : session[t] # NoCredential => session'[t] = session[t]
  /\ \A t \in live' : t \in live \/ session'[t] # NoCredential

LEMMA AuthorityHasEffect ==
  ASSUME TypeOK, Authority
  PROVE  AuthorityEffect
<1> USE DEF AuthorityOnly, storeVars
<1>1. session \in [Tokens -> Credential \cup {NoCredential}]
      /\ live \subseteq Tokens /\ approval \in [RunIds -> Tokens \cup {NoToken}]
  BY DEF TypeOK, AuthTypeOK
<1>2. ASSUME NEW u \in Users, NEW t \in Tokens, NEW c \in Nat,
             Fresh(t), Issue(t, u, c)
      PROVE  /\ \A s \in Tokens : session[s] # NoCredential
                                    => session'[s] = session[s]
             /\ \A s \in live' : s \in live \/ session'[s] # NoCredential
  <2>1. [user |-> u, credential |-> c] # NoCredential
    BY TokenAssumption
  <2>2. QED
    BY <1>1, <1>2, <2>1 DEF Issue, Fresh
<1>3. CASE FirstUse
  <2>1. PICK u \in Users, t \in Tokens, crashed \in BOOLEAN :
          Register(u, t, crashed) /\ AuthorityOnly
    BY <1>3 DEF FirstUse
  <2>2. CASE crashed
    BY <2>1, <2>2 DEF Register, AuthorityEffect
  <2>3. CASE ~crashed
    BY <1>2, <2>1, <2>3 DEF Register, AuthorityEffect
  <2>4. QED
    BY <2>2, <2>3
<1>4. CASE SignIn
  <2>1. PICK u \in Users, t \in Tokens : Login(u, t) /\ AuthorityOnly
    BY <1>4 DEF SignIn
  <2>2. account[u].credential \in Nat
    BY DEF TypeOK, AuthTypeOK, Account
  <2>3. QED
    BY <1>2, <2>1, <2>2 DEF Login, AuthorityEffect
<1>5. CASE SignOut
  BY <1>5 DEF SignOut, Logout, AuthorityEffect
<1>6. CASE AccountChange
  BY <1>1, <1>6 DEF AccountChange, SetAccount, AuthorityEffect
<1>7. CASE SessionEnds
  BY <1>1, <1>7 DEF SessionEnds, Expire, AuthorityEffect
<1>8. CASE PolicyChange
  BY <1>8 DEF PolicyChange, SavePolicy, AuthorityEffect
<1>9. QED
  BY <1>3, <1>4, <1>5, <1>6, <1>7, <1>8 DEF Authority

LEMMA AuthorityStep ==
  ASSUME IInv, Authority
  PROVE  Rest'
<1>1. AuthorityEffect /\ TypeOK
  BY AuthorityHasEffect DEF IInv
<1>2. FreshRuns'
  BY <1>1 DEF AuthorityEffect, IInv, FreshRuns
<1>3. Requests'
  BY <1>1 DEF AuthorityEffect, IInv, Requests, Active
<1>4. Approvals'
  <2>1. \A t \in live : t \in Tokens
    BY <1>1 DEF TypeOK, AuthTypeOK
  <2>2. \A r \in RunIds : asked[r] # NoToken => asked[r] \in Tokens
    BY <1>1 DEF TypeOK, AuthTypeOK
  <2>3. QED
    BY <1>1, <2>1, <2>2 DEF AuthorityEffect, IInv, Approvals
<1>5. QED
  BY <1>1, <1>2, <1>3, <1>4, Frame DEF AuthorityEffect, Rest

(* Stored runs after a step that creates none, and after one that does.    *)
LEMMA StoredKept ==
  ASSUME TypeOK, created' = created \/ created' = created + 1
  PROVE  \A r \in RunIds : r # created' \/ created' = created
           => (Stored(r)' => Stored(r))
<1>1. created \in Int /\ Capacity \in Int /\ \A r \in RunIds : r \in Int
  BY CapacityAssumption, Parts DEF RunIds
<1>2. QED
  BY <1>1 DEF Stored

LEMMA PostRunStep ==
  ASSUME IInv, NEW t \in Tokens, NEW selection \in Selections,
         PostRun(t, selection)
  PROVE  Rest'
<1> DEFINE n == created + 1
<1> USE DEF IInv
<1>1. /\ t \in live /\ Create("manual", session[t].user, selection)
      /\ helper = Idle
      /\ helper' = [run |-> n, token |-> t]
      /\ asked' = [asked EXCEPT ![n] = t]
      /\ UNCHANGED <<session, live, approval, spent>>
      /\ request' = [request EXCEPT ![n] = "authorizing"]
      /\ UNCHANGED <<updater, started, interrupted>>
  BY DEF PostRun, AuthorizeRun, SessionValid, LockFree
<1>2. /\ n \in RunIds /\ created' = n
      /\ runs'[n].trigger = "manual"
      /\ runs'[n].by = session[t].user
      /\ runs'[n].status = "queued"
      /\ \A r \in RunIds : r # n => runs'[r] = runs[r]
      /\ UNCHANGED <<history, torn>>
  BY <1>1, CreateEffect, LiveSession
<1>3. created \in Int /\ n > created /\ n # 0 /\ t # NoToken
      /\ \A r \in RunIds : r \in Int
  BY Parts, TokenAssumption DEF RunIds
<1>4. /\ request'[n] = "authorizing" /\ asked'[n] = t
      /\ \A r \in RunIds : r # n => request'[r] = request[r] /\ asked'[r] = asked[r]
      /\ helper'.run = n /\ helper'.token = t
  BY <1>1, <1>2 DEF TypeOK, ServiceTypeOK, AuthTypeOK
<1>5. request[n] = "none" /\ spent[n] = 0 /\ approval[n] = NoToken /\ started[n] = 0
  BY <1>2, <1>3 DEF FreshRuns
<1>6. \A u \in Updaters : updater[u].run <= created /\ updater[u].run # n
  <2>1. \A u \in Updaters : updater[u].run <= created /\ updater[u].run \in Int
    BY Parts DEF Progress, StepFits
  <2>2. QED
    BY <1>3, <2>1
<1>7. FreshRuns'
  BY <1>1, <1>2, <1>3, <1>4, <1>5 DEF FreshRuns
<1>8. Requests'
  <2>1. \A r \in RunIds : request[r] # "authorizing"
    BY <1>1, <1>3 DEF Requests, Idle, RunIds
  <2>2. QED
    BY <1>1, <1>2, <1>3, <1>4, <1>5, <1>6, <2>1 DEF Requests, Active
<1>9. Approvals'
  BY <1>1, <1>2, <1>3, <1>4, <1>5 DEF Approvals
<1>10. Progress'
  <2>1. OneHolder'
    BY <1>1 DEF Progress, OneHolder
  <2>2. ASSUME NEW u \in Updaters
        PROVE  StepFits(u)'
    <3>1. StepFits(u) /\ updater[u].run \in Int /\ updater[u].run \in 0..MaxRuns
      BY Parts DEF Progress
    <3>2. updater[u].run # 0 => updater[u].run \in RunIds
      BY <3>1, Parts DEF RunIds
    <3>3. updater[u].run # 0 => runs'[updater[u].run] = runs[updater[u].run]
      BY <1>2, <1>6, <3>2
    <3>4. QED
      BY <1>1, <1>2, <1>3, <3>1, <3>3 DEF StepFits
  <2>3. QED
    BY <2>1, <2>2 DEF Progress
<1>11. Counts'
  BY <1>1, <1>2, <1>5 DEF Counts
<1>12. HistoryAgrees'
  BY <1>1, HistoryCreate, LiveSession
<1>13. RunningIsExecuted'
  BY <1>1, <1>2, StoredKept DEF RunningIsExecuted, At
<1>14. QED
  BY <1>7, <1>8, <1>9, <1>10, <1>11, <1>12, <1>13 DEF Rest

(* The helper ends, with its approval or without.                          *)
LEMMA HelperStep ==
  ASSUME IInv, HelperApproves \/ HelperCrash
  PROVE  Rest'
<1> DEFINE h == helper.run
<1> USE DEF IInv
<1>1. /\ helper # Idle /\ helper' = Idle
      /\ UNCHANGED <<session, live, asked, spent, runs, created, history, torn>>
      /\ UNCHANGED <<updater, started, interrupted>>
  BY DEF HelperApproves, HelperCrash, RecordApproval, HelperKilled, LockFree, storeVars
<1>2. h # 0 /\ h \in RunIds /\ helper'.run = 0 /\ helper'.token = NoToken
  <2>1. helper \in [run : 0..MaxRuns, token : Tokens \cup {NoToken}]
    BY DEF TypeOK, AuthTypeOK
  <2>2. h # 0
    BY <1>1, <2>1 DEF Requests, Idle
  <2>3. QED
    BY <1>1, <2>1, <2>2, MaxRunsAssumption DEF Idle, RunIds
<1>3. /\ request[h] = "authorizing"
      /\ runs[h].trigger = "manual" /\ runs[h].status = "queued"
      /\ helper.token = asked[h] /\ approval[h] = NoToken /\ spent[h] = 0
      /\ \A u \in Updaters : Active(u) => updater[u].run # h
  BY <1>2 DEF Requests
<1>4. h <= created
  <2>1. ~(h > created)
    BY <1>2, <1>3 DEF FreshRuns
  <2>2. QED
    BY <1>2, <2>1, Parts DEF RunIds
<1>5. /\ request'[h] \in {"approved", "answered"}
      /\ \A r \in RunIds : r # h => request'[r] = request[r]
      /\ approval'[h] \in {NoToken, asked[h]}
      /\ \A r \in RunIds : r # h => approval'[r] = approval[r]
  <2>1. CASE HelperApproves
    BY <1>2, <1>3, <2>1
       DEF HelperApproves, RecordApproval, TypeOK, ServiceTypeOK, AuthTypeOK
  <2>2. CASE HelperCrash
    BY <1>2, <1>3, <2>2
       DEF HelperCrash, HelperKilled, TypeOK, ServiceTypeOK
  <2>3. QED
    BY <2>1, <2>2
<1>6. FreshRuns'
  <2>1. ~(h > created)
    BY <1>2, <1>3 DEF FreshRuns
  <2>2. QED
    BY <1>1, <1>2, <1>5, <2>1 DEF FreshRuns
<1>7. Requests'
  <2>1. \A r \in RunIds : r # h => request[r] # "authorizing"
    BY DEF Requests
  <2>2. 0 \notin RunIds
    BY DEF RunIds
  <2>3. QED
    BY <1>1, <1>2, <1>3, <1>5, <2>1, <2>2 DEF Requests, Active
<1>8. Approvals'
  BY <1>1, <1>2, <1>3, <1>5 DEF Approvals
<1>9. QED
  BY <1>1, <1>6, <1>7, <1>8, Frame DEF Rest

LEMMA StartTriggerStep ==
  ASSUME IInv, NEW u \in Updaters, NEW r \in RunIds, StartTrigger(u, r)
  PROVE  Rest'
<1> USE DEF IInv
<1>1. /\ request[r] = "approved" /\ updater[u].step = "idle"
      /\ updater' = [updater EXCEPT ![u] = Invoked("manual", r)]
      /\ request' = [request EXCEPT ![r] = "answered"]
      /\ UNCHANGED <<runs, created, history, torn, session, live, approval,
                     helper, asked, spent, started, interrupted>>
  BY DEF StartTrigger, Invoke, storeVars, authVars
<1>2. /\ request'[r] = "answered"
      /\ \A q \in RunIds : q # r => request'[q] = request[q]
  BY <1>1 DEF TypeOK, ServiceTypeOK
<1>3. ~(r > created) /\ r <= created /\ 0 <= created
  <2>1. ~(r > created)
    BY <1>1 DEF FreshRuns
  <2>2. QED
    BY <2>1, Parts DEF RunIds
<1>4. /\ updater'[u].step = "waiting" /\ updater'[u].trigger = "manual"
      /\ updater'[u].run = r
      /\ \A v \in Updaters \ {u} : updater'[v] = updater[v]
  <2>1. r \in 0..MaxRuns
    BY MaxRunsAssumption DEF RunIds
  <2>2. QED
    BY <1>1, <2>1, InvokedType, UpdaterSet DEF Invoked
<1>5. FreshRuns'
  BY <1>1, <1>2, <1>3 DEF FreshRuns
<1>6. Requests'
  BY <1>1, <1>2, <1>4 DEF Requests, Active
<1>7. Progress'
  <2>1. OneHolder'
    BY <1>4 DEF Progress, OneHolder, Holding
  <2>2. ASSUME NEW v \in Updaters
        PROVE  StepFits(v)'
    BY <1>1, <1>3, <1>4, <2>2 DEF Progress, StepFits
  <2>3. QED
    BY <2>1, <2>2 DEF Progress
<1>8. RunningIsExecuted'
  BY <1>1, <1>4 DEF RunningIsExecuted, Stored, At
<1>9. QED
  BY <1>1, <1>5, <1>6, <1>7, <1>8, Frame DEF Rest

LEMMA ServerGivesUpStep ==
  ASSUME IInv, NEW r \in RunIds, StartFails(r) \/ ServerCrash(r)
  PROVE  Rest'
<1> USE DEF IInv
<1>1. /\ request[r] = "approved"
      /\ request' = [request EXCEPT ![r] = "answered"]
      /\ UNCHANGED <<session, live, approval, helper, asked, spent>>
      /\ UNCHANGED <<updater, started, interrupted>>
      /\ Update(r, "failed") \/ UNCHANGED storeVars
  BY DEF StartFails, ServerCrash, authVars
<1>2. /\ request'[r] = "answered"
      /\ \A q \in RunIds : q # r => request'[q] = request[q]
  BY <1>1 DEF TypeOK, ServiceTypeOK
<1>3. ~(r > created)
  BY <1>1 DEF FreshRuns
<1>4. /\ runs[r].trigger = "manual" /\ runs[r].status = "queued"
      /\ \A u \in Updaters : Active(u) => updater[u].run # r
  BY <1>1 DEF Requests
<1>5. CASE UNCHANGED storeVars
  <2>1. UNCHANGED <<runs, created, history, torn>>
    BY <1>5 DEF storeVars
  <2>2. FreshRuns'
    BY <1>1, <1>2, <1>3, <2>1 DEF FreshRuns
  <2>3. Requests'
    BY <1>1, <1>2, <2>1 DEF Requests, Active
  <2>4. QED
    BY <1>1, <2>1, <2>2, <2>3, Frame DEF Rest
<1>6. CASE Update(r, "failed")
  <2>1. Written(r, "failed")
    BY <1>6, UpdateEffect
  <2>2. FreshRuns'
    BY <1>1, <1>2, <1>3, <2>1 DEF FreshRuns, Written
  <2>3. Requests'
    BY <1>1, <1>2, <2>1 DEF Requests, Active, Written
  <2>4. Approvals'
    BY <1>1, <2>1 DEF Approvals, Written
  <2>5. Progress'
    <3>1. OneHolder'
      BY <1>1 DEF Progress, OneHolder
    <3>2. ASSUME NEW u \in Updaters
          PROVE  StepFits(u)'
      <4>1. StepFits(u)
        BY DEF Progress
      <4>2. CASE updater[u].step = "idle"
        BY <1>1, <2>1, <4>1, <4>2 DEF StepFits, Written
      <4>3. CASE updater[u].step # "idle"
        <5>1. updater[u].run # r
          BY <1>4, <4>3 DEF Active
        <5>2. updater[u].run # 0 => updater[u].run \in RunIds
          BY Parts DEF RunIds
        <5>3. updater[u].run # 0 => runs'[updater[u].run] = runs[updater[u].run]
          BY <2>1, <5>1, <5>2 DEF Written
        <5>4. QED
          BY <1>1, <2>1, <4>1, <5>3 DEF StepFits, Written
      <4>4. QED
        BY <4>2, <4>3
    <3>3. QED
      BY <3>1, <3>2 DEF Progress
  <2>6. Counts'
    BY <1>1, <2>1 DEF Counts, Written
  <2>7. HistoryAgrees'
    BY <1>4, <1>6, HistoryUpdate, SomeStatuses DEF Terminal
  <2>8. RunningIsExecuted'
    BY <1>1, <2>1, StoredKept DEF RunningIsExecuted, Written, At
  <2>9. QED
    BY <2>2, <2>3, <2>4, <2>5, <2>6, <2>7, <2>8 DEF Rest
<1>7. QED
  BY <1>1, <1>5, <1>6

LEMMA ServerStep ==
  ASSUME IInv, Server
  PROVE  Rest'
BY PostRunStep, HelperStep, StartTriggerStep, ServerGivesUpStep DEF Server

(* While one updater steps with the lock held, the others are not past it. *)
LEMMA HolderAlone ==
  ASSUME IInv, NEW u \in Updaters, updater[u].step \in Holding,
         created' = created \/ created' = created + 1,
         \A v \in Updaters \ {u} : updater'[v] = updater[v]
  PROVE  OneHolder' /\ \A v \in Updaters \ {u} : StepFits(v)'
<1>1. \A v \in Updaters \ {u} : updater[v].step \notin Holding
  BY DEF IInv, Progress, OneHolder
<1>2. OneHolder'
  BY <1>1 DEF OneHolder
<1>3. ASSUME NEW v \in Updaters \ {u}
      PROVE  StepFits(v)'
  <2>1. StepFits(v) /\ updater[v].step \in {"idle", "waiting"}
    BY <1>1, Parts DEF IInv, Progress, Holding
  <2>2. updater[v].run <= created' /\ updater'[v] = updater[v]
    BY <2>1, Parts DEF IInv, StepFits
  <2>3. QED
    BY <2>1, <2>2 DEF StepFits
<1>4. QED
  BY <1>2, <1>3

LEMMA ExitFits ==
  ASSUME IInv, NEW u \in Updaters, Exit(u)
  PROVE  /\ updater'[u].step = "idle" /\ updater'[u].run = 0
         /\ \A v \in Updaters \ {u} : updater'[v] = updater[v]
         /\ created' = created => StepFits(u)'
<1>1. /\ updater'[u] = Off
      /\ \A v \in Updaters \ {u} : updater'[v] = updater[v]
  BY UpdaterSet, OffType DEF IInv, Exit
<1>2. 0 <= created
  BY Parts DEF IInv
<1>3. QED
  BY <1>1, <1>2 DEF Off, StepFits

(* The run of an updater past its start is one the server has answered.    *)
LEMMA RunInHand ==
  ASSUME IInv, NEW u \in Updaters, updater[u].step # "idle", updater[u].run # 0
  PROVE  /\ updater[u].run \in RunIds /\ updater[u].run <= created
         /\ ~(updater[u].run > created)
         /\ request[updater[u].run] \notin {"authorizing", "approved"}
<1>1. updater[u].run \in RunIds
  BY Parts DEF IInv, RunIds
<1>2. updater[u].run <= created
  BY DEF IInv, Progress, StepFits
<1>3. QED
  BY <1>1, <1>2, Parts DEF IInv, Requests, Active, RunIds

(* Writing the result of a run disturbs no request and no approval.        *)
LEMMA WrittenKeeps ==
  ASSUME IInv, NEW r, NEW status \in Status \ {"absent"}, Written(r, status),
         request[r] \notin {"authorizing", "approved"},
         UNCHANGED <<request, helper, session, live, asked, approval, spent>>,
         \A v \in Updaters : updater'[v].step # "idle" =>
           updater[v].step # "idle" /\ updater'[v].run = updater[v].run
  PROVE  Requests' /\ Approvals'
<1>1. Requests'
  <2>1. ASSUME NEW q \in RunIds
        PROVE  request[q] \in {"authorizing", "approved"} =>
                 /\ runs'[q].trigger = "manual"
                 /\ runs'[q].status = "queued"
                 /\ \A u \in Updaters : updater'[u].step # "idle" =>
                                          updater'[u].run # q
    <3> SUFFICES ASSUME request[q] \in {"authorizing", "approved"}
                 PROVE  /\ runs'[q].trigger = "manual"
                        /\ runs'[q].status = "queued"
                        /\ \A u \in Updaters : updater'[u].step # "idle" =>
                                                 updater'[u].run # q
      OBVIOUS
    <3>1. /\ runs[q].trigger = "manual" /\ runs[q].status = "queued"
          /\ \A u \in Updaters : updater[u].step # "idle" => updater[u].run # q
      BY DEF IInv, Requests, Active
    <3>2. runs'[q] = runs[q]
      BY DEF Written
    <3>3. QED
      BY <3>1, <3>2
  <2>2. Requests /\ UNCHANGED <<request, helper, asked, approval, spent>>
    BY DEF IInv
  <2>3. QED
    BY <2>1, <2>2 DEF Requests, Active
<1>2. Approvals'
  BY DEF IInv, Approvals, Written
<1>3. QED
  BY <1>1, <1>2

(* An updater that ends without a write, with no run executing in it.      *)
LEMMA QuietExit ==
  ASSUME IInv, NEW u \in Updaters, Exit(u),
         \/ updater[u].step # "executing" \/ ~Stored(updater[u].run)
         \/ updater[u].run \in interrupted',
         UNCHANGED <<runs, created, history, torn, request, helper, session,
                     live, asked, approval, spent, started>>,
         interrupted \subseteq interrupted'
  PROVE  Rest'
<1>1. Requests'
  BY ExitFits DEF IInv, Requests, Active
<1>2. Progress'
  <2>1. OneHolder'
    BY ExitFits DEF IInv, Progress, OneHolder, Holding
  <2>2. ASSUME NEW v \in Updaters \ {u}
        PROVE  StepFits(v)'
    <3>1. StepFits(v) /\ updater'[v] = updater[v]
      BY ExitFits DEF IInv, Progress
    <3>2. QED
      BY <3>1 DEF StepFits
  <2>3. QED
    BY <2>1, <2>2, ExitFits DEF Progress
<1>3. RunningIsExecuted'
  <2>1. \A r \in RunIds : Stored(r)' => Stored(r)
    BY StoredKept DEF IInv
  <2>2. QED
    BY <2>1, ExitFits DEF IInv, RunningIsExecuted, At
<1>4. QED
  BY <1>1, <1>2, <1>3, Frame DEF Rest

LEMMA AcquireLockStep ==
  ASSUME IInv, NEW u \in Updaters, AcquireLock(u)
  PROVE  Rest'
<1>1. /\ updater'[u].step = "locked" /\ updater'[u].run = updater[u].run
      /\ updater'[u].trigger = updater[u].trigger
      /\ updater[u].step = "waiting"
      /\ \A v \in Updaters \ {u} : updater'[v] = updater[v]
  BY UpdaterStep DEF IInv, AcquireLock, Goto, Steps
<1>2. UNCHANGED <<runs, created, history, torn, request, helper, session, live,
                  asked, approval, spent, started, interrupted>>
  BY DEF AcquireLock, storeVars, authVars
<1>3. Requests'
  BY <1>1, <1>2 DEF IInv, Requests, Active
<1>4. Progress'
  <2>1. OneHolder'
    BY <1>1 DEF AcquireLock, OneHolder
  <2>2. ASSUME NEW v \in Updaters
        PROVE  StepFits(v)'
    <3>1. StepFits(v)
      BY DEF IInv, Progress
    <3>2. QED
      BY <1>1, <1>2, <3>1 DEF StepFits
  <2>3. QED
    BY <2>1, <2>2 DEF Progress
<1>5. RunningIsExecuted'
  BY <1>1, <1>2 DEF IInv, RunningIsExecuted, Stored, At
<1>6. QED
  BY <1>2, <1>3, <1>4, <1>5, Frame DEF Rest

LEMMA CreateScheduledStep ==
  ASSUME IInv, NEW u \in Updaters, CreateScheduled(u)
  PROVE  Rest'
<1> DEFINE n == created + 1
<1> USE DEF IInv
<1>1. /\ updater[u].step = "locked" /\ updater[u].run = 0
      /\ Create("scheduled", System, policy.selection)
      /\ updater' = [updater EXCEPT ![u].run = n]
      /\ UNCHANGED <<session, live, helper, asked, approval, spent>>
      /\ UNCHANGED <<request, started, interrupted>>
  BY DEF CreateScheduled, At, authVars
<1>2. /\ n \in RunIds /\ created' = n
      /\ runs'[n].trigger = "scheduled"
      /\ runs'[n].by = System
      /\ runs'[n].status = "queued"
      /\ \A r \in RunIds : r # n => runs'[r] = runs[r]
      /\ UNCHANGED <<history, torn>>
  <2>1. policy.selection \in Selections \cup {NoSelection}
    BY DEF TypeOK, AuthTypeOK, Policy
  <2>2. QED
    BY <1>1, <2>1, CreateEffect
<1>3. created \in Int /\ n > created /\ n # 0 /\ \A r \in RunIds : r \in Int
  BY Parts DEF RunIds
<1>4. /\ request[n] = "none" /\ asked[n] = NoToken /\ approval[n] = NoToken
      /\ spent[n] = 0 /\ started[n] = 0
  BY <1>2, <1>3 DEF FreshRuns
<1>5. /\ updater'[u].run = n /\ updater'[u].step = "locked"
      /\ updater'[u].trigger = updater[u].trigger
      /\ \A v \in Updaters \ {u} : updater'[v] = updater[v]
  <2>1. n \in 0..MaxRuns
    BY <1>2, MaxRunsAssumption DEF RunIds
  <2>2. QED
    BY <1>1, <2>1, RunUpdaterSet
<1>6. FreshRuns'
  BY <1>1, <1>2, <1>3, <1>4 DEF FreshRuns
<1>7. Requests'
  BY <1>1, <1>2, <1>4, <1>5 DEF Requests, Active
<1>8. Approvals'
  BY <1>1, <1>2, <1>4 DEF Approvals
<1>9. Progress'
  <2>1. StepFits(u)'
    BY <1>1, <1>2, <1>3, <1>4, <1>5 DEF StepFits
  <2>2. QED
    BY <1>1, <1>2, <1>5, <2>1, HolderAlone DEF Progress, Holding, Steps
<1>10. Counts'
  BY <1>1, <1>2, <1>4 DEF Counts
<1>11. HistoryAgrees'
  <2>1. policy.selection \in Selections \cup {NoSelection}
    BY DEF TypeOK, AuthTypeOK, Policy
  <2>2. QED
    BY <1>1, <2>1, HistoryCreate
<1>12. RunningIsExecuted'
  BY <1>1, <1>2, <1>5, StoredKept DEF RunningIsExecuted, At
<1>13. QED
  BY <1>6, <1>7, <1>8, <1>9, <1>10, <1>11, <1>12 DEF Rest

(* A step that only moves the holder, and neither to nor from executing.   *)
LEMMA MoveStep ==
  ASSUME IInv, NEW u \in Updaters, updater[u].step \in Holding \ {"executing"},
         updater'[u].step \in Holding \ {"executing"},
         updater'[u].run = updater[u].run,
         \A v \in Updaters \ {u} : updater'[v] = updater[v],
         UNCHANGED <<runs, created, history, torn, request, helper, session,
                     live, asked, started, interrupted>>,
         StepFits(u)'
  PROVE  /\ UNCHANGED <<approval, spent>> => Requests'
         /\ Progress' /\ HistoryAgrees' /\ RunningIsExecuted'
<1>1. UNCHANGED <<approval, spent>> => Requests'
  BY DEF IInv, Requests, Active, Holding
<1>2. Progress'
  BY HolderAlone DEF Progress
<1>3. RunningIsExecuted'
  BY DEF IInv, RunningIsExecuted, Stored, At
<1>4. QED
  BY <1>1, <1>2, <1>3, Frame

LEMMA LoadRunStep ==
  ASSUME IInv, NEW u \in Updaters, LoadRun(u)
  PROVE  Rest'
<1>1. /\ updater[u].step = "locked" /\ updater[u].run # 0
      /\ UNCHANGED <<runs, created, history, torn, request, helper, session,
                     live, asked, approval, spent, started, interrupted>>
  BY DEF LoadRun, At, storeVars, authVars
<1>2. CASE Startable(u) /\ Goto(u, "authorizing")
  <2>1. /\ updater'[u].step = "authorizing"
        /\ updater'[u].run = updater[u].run
        /\ updater'[u].trigger = updater[u].trigger
        /\ \A v \in Updaters \ {u} : updater'[v] = updater[v]
    BY <1>2, UpdaterStep DEF IInv, Steps
  <2>2. StepFits(u)'
    <3>1. StepFits(u)
      BY DEF IInv, Progress
    <3>2. QED
      BY <1>1, <1>2, <2>1, <3>1 DEF StepFits, Startable
  <2>3. QED
    BY <1>1, <2>1, <2>2, MoveStep, Frame DEF Rest, Holding, Steps
<1>3. CASE Exit(u)
  BY <1>1, <1>3, QuietExit
<1>4. QED
  BY <1>2, <1>3 DEF LoadRun

(* What authorizing the start of one run does to the counts.               *)
LEMMA SpendStep ==
  ASSUME IInv, NEW u \in Updaters, updater[u].step # "idle", updater[u].run # 0,
         spent' = [spent EXCEPT ![updater[u].run] = @ + 1],
         spent[updater[u].run] = 0,
         approval'[updater[u].run] = NoToken,
         \A r \in RunIds : r # updater[u].run => approval'[r] = approval[r],
         \A v \in Updaters : Active(v)' => Active(v) /\ updater'[v].run = updater[v].run,
         UNCHANGED <<runs, created, request, helper, session, live, asked, started>>
  PROVE  /\ FreshRuns' /\ Requests' /\ Approvals' /\ Counts'
         /\ spent'[updater[u].run] = 1
<1> DEFINE r == updater[u].run
<1> USE DEF IInv
<1>1. /\ r \in RunIds /\ ~(r > created)
      /\ request[r] \notin {"authorizing", "approved"}
  BY RunInHand
<1>2. /\ spent'[r] = 1
      /\ \A q \in RunIds : q # r => spent'[q] = spent[q]
  BY <1>1 DEF TypeOK, AuthTypeOK
<1>3. FreshRuns'
  BY <1>1, <1>2 DEF FreshRuns
<1>4. Requests'
  BY <1>1, <1>2 DEF Requests
<1>5. Approvals'
  BY <1>1, <1>2 DEF Approvals
<1>6. Counts'
  <2>1. started[r] <= 1
    BY <1>1, Parts DEF Counts, TypeOK, ServiceTypeOK
  <2>2. QED
    BY <1>1, <1>2, <2>1 DEF Counts
<1>7. QED
  BY <1>2, <1>3, <1>4, <1>5, <1>6

LEMMA ConsumeApprovalStep ==
  ASSUME IInv, NEW u \in Updaters, ConsumeApproval(u)
  PROVE  Rest'
<1> DEFINE r == updater[u].run
<1>1. /\ updater[u].step = "authorizing"
      /\ UNCHANGED <<runs, created, history, torn, request, started, interrupted>>
  BY DEF ConsumeApproval, At, storeVars
<1>2. StepFits(u) /\ r # 0 /\ r \in RunIds
  <2>1. StepFits(u)
    BY DEF IInv, Progress
  <2>2. r # 0
    BY <1>1, <2>1 DEF StepFits
  <2>3. QED
    BY <1>1, <2>1, <2>2, RunInHand
<1>3. CASE ConsumeRun(r) /\ Goto(u, "cleared")
  <2>1. /\ updater'[u].step = "cleared"
        /\ updater'[u].run = updater[u].run
        /\ updater'[u].trigger = updater[u].trigger
        /\ \A v \in Updaters \ {u} : updater'[v] = updater[v]
    BY <1>3, UpdaterStep DEF IInv, Steps
  <2>2. /\ approval[r] # NoToken /\ approval' = [approval EXCEPT ![r] = NoToken]
        /\ spent' = [spent EXCEPT ![r] = @ + 1]
        /\ UNCHANGED <<session, live, helper, asked>>
    BY <1>3 DEF ConsumeRun, Approved
  <2>3. spent[r] = 0
    BY <1>2, <2>2 DEF IInv, Approvals
  <2>4. /\ approval'[r] = NoToken
        /\ \A q \in RunIds : q # r => approval'[q] = approval[q]
    BY <1>2, <2>2 DEF IInv, TypeOK, AuthTypeOK
  <2>5. \A v \in Updaters : Active(v)' => Active(v) /\ updater'[v].run = updater[v].run
    BY <1>1, <2>1 DEF Active
  <2>6. FreshRuns' /\ Requests' /\ Approvals' /\ Counts' /\ spent'[r] = 1
    BY <1>1, <1>2, <2>2, <2>3, <2>4, <2>5, SpendStep
  <2>7. StepFits(u)'
    BY <1>1, <1>2, <2>1, <2>6 DEF StepFits
  <2>8. QED
    BY <1>1, <2>1, <2>2, <2>6, <2>7, MoveStep DEF Rest, Holding, Steps
<1>4. CASE Goto(u, "refused") /\ UNCHANGED authVars
  <2>1. /\ updater'[u].step = "refused"
        /\ updater'[u].run = updater[u].run
        /\ updater'[u].trigger = updater[u].trigger
        /\ \A v \in Updaters \ {u} : updater'[v] = updater[v]
    BY <1>4, UpdaterStep DEF IInv, Steps
  <2>2. UNCHANGED <<session, live, helper, asked, approval, spent>>
    BY <1>4 DEF authVars
  <2>3. StepFits(u)'
    BY <1>1, <1>2, <2>1, <2>2 DEF StepFits
  <2>4. QED
    BY <1>1, <2>1, <2>2, <2>3, MoveStep, Frame DEF Rest, Holding, Steps
<1>5. QED
  BY <1>3, <1>4 DEF ConsumeApproval

LEMMA ReadPolicyStep ==
  ASSUME IInv, NEW u \in Updaters, ReadPolicy(u)
  PROVE  Rest'
<1>1. /\ updater[u].step = "authorizing" /\ updater[u].trigger = "scheduled"
      /\ UNCHANGED <<runs, created, history, torn, request, helper, session,
                     live, asked, approval, spent, started, interrupted>>
  BY DEF ReadPolicy, At, storeVars, authVars
<1>2. /\ updater'[u].step = "verifying"
      /\ updater'[u].run = updater[u].run
      /\ updater'[u].trigger = "scheduled"
      /\ \A v \in Updaters \ {u} : updater'[v] = updater[v]
  BY ReadPolicyUpdater DEF IInv
<1>3. StepFits(u)'
  <2>1. StepFits(u)
    BY DEF IInv, Progress
  <2>2. QED
    BY <1>1, <1>2, <2>1 DEF StepFits
<1>4. QED
  BY <1>1, <1>2, <1>3, MoveStep, Frame DEF Rest, Holding, Steps

LEMMA VerifyPolicyStep ==
  ASSUME IInv, NEW u \in Updaters, VerifyPolicy(u)
  PROVE  Rest'
<1> DEFINE r == updater[u].run
<1>1. /\ updater[u].step = "verifying"
      /\ UNCHANGED <<runs, created, history, torn, request, started, interrupted>>
      /\ UNCHANGED <<session, live, helper, asked, approval>>
  BY DEF VerifyPolicy, At, storeVars
<1>2. StepFits(u) /\ r # 0 /\ r \in RunIds /\ updater[u].trigger = "scheduled"
  <2>1. StepFits(u)
    BY DEF IInv, Progress
  <2>2. r # 0 /\ updater[u].trigger = "scheduled"
    BY <1>1, <2>1 DEF StepFits
  <2>3. QED
    BY <1>1, <2>1, <2>2, RunInHand
<1>3. CASE Goto(u, "cleared") /\ spent' = [spent EXCEPT ![r] = @ + 1]
  <2>1. /\ updater'[u].step = "cleared"
        /\ updater'[u].run = updater[u].run
        /\ updater'[u].trigger = updater[u].trigger
        /\ \A v \in Updaters \ {u} : updater'[v] = updater[v]
    BY <1>3, UpdaterStep DEF IInv, Steps
  <2>2. spent[r] = 0 /\ runs[r].trigger = "scheduled"
    BY <1>1, <1>2 DEF StepFits
  <2>3. approval[r] = NoToken
    BY <1>2, <2>2 DEF IInv, Approvals
  <2>4. \A v \in Updaters : Active(v)' => Active(v) /\ updater'[v].run = updater[v].run
    BY <1>1, <2>1 DEF Active
  <2>5. FreshRuns' /\ Requests' /\ Approvals' /\ Counts' /\ spent'[r] = 1
    BY <1>1, <1>2, <1>3, <2>2, <2>3, <2>4, SpendStep
  <2>6. StepFits(u)'
    BY <1>1, <1>2, <2>1, <2>5 DEF StepFits
  <2>7. QED
    BY <1>1, <2>1, <2>5, <2>6, MoveStep DEF Rest, Holding, Steps
<1>4. CASE Goto(u, "refused") /\ UNCHANGED spent
  <2>1. /\ updater'[u].step = "refused"
        /\ updater'[u].run = updater[u].run
        /\ updater'[u].trigger = updater[u].trigger
        /\ \A v \in Updaters \ {u} : updater'[v] = updater[v]
    BY <1>4, UpdaterStep DEF IInv, Steps
  <2>2. StepFits(u)'
    BY <1>1, <1>2, <1>4, <2>1 DEF StepFits
  <2>3. QED
    BY <1>1, <1>4, <2>1, <2>2, MoveStep, Frame DEF Rest, Holding, Steps
<1>5. QED
  BY <1>3, <1>4 DEF VerifyPolicy

(* The holder writes a status other than "running" and moves on or ends.   *)
LEMMA ResultStep ==
  ASSUME IInv, NEW u \in Updaters, NEW status \in Terminal,
         updater[u].step \in {"refused", "executing", "publishing"},
         Written(updater[u].run, status), HistoryAgrees',
         UNCHANGED <<request, helper, session, live, asked, approval, spent,
                     started>>,
         interrupted \subseteq interrupted',
         \/ Exit(u)
         \/ Goto(u, "publishing")
  PROVE  Rest'
<1> DEFINE r == updater[u].run
<1> USE DEF IInv
<1>1. /\ r # 0 /\ r \in RunIds /\ ~(r > created)
      /\ request[r] \notin {"authorizing", "approved"}
  <2>1. r # 0
    BY DEF Progress, StepFits
  <2>2. QED
    BY <2>1, RunInHand
<1>2. /\ updater'[u].step \in {"idle", "publishing"}
      /\ updater'[u].step # "idle" => updater'[u].run = r
      /\ \A v \in Updaters \ {u} : updater'[v] = updater[v]
  BY ExitFits, UpdaterStep DEF Steps
<1>3. status \in Status \ {"absent"} /\ status # "queued" /\ status # "running"
  BY DEF Status, Terminal
<1>4. created' = created /\ r <= created
  BY <1>1, RunInHand DEF Written
<1>5. FreshRuns'
  BY <1>1, <1>3 DEF FreshRuns, Written
<1>6. Requests' /\ Approvals'
  BY <1>1, <1>2, <1>3, WrittenKeeps
<1>7. Progress'
  <2>1. StepFits(u)'
    <3>1. CASE Exit(u)
      BY <1>4, <3>1, ExitFits
    <3>2. CASE Goto(u, "publishing")
      <4>1. updater'[u].step = "publishing" /\ updater'[u].run = r
        BY <3>2, UpdaterStep DEF Steps
      <4>2. runs'[r].status = status
        BY DEF Written
      <4>3. QED
        BY <1>1, <1>4, <4>1, <4>2 DEF StepFits
    <3>3. QED
      BY <3>1, <3>2
  <2>2. updater[u].step \in Holding
    BY DEF Holding, Steps
  <2>3. QED
    BY <1>2, <1>4, <2>1, <2>2, HolderAlone DEF Progress
<1>8. Counts'
  BY <1>3 DEF Counts, Written
<1>9. RunningIsExecuted'
  <2>1. \A q \in RunIds : Stored(q)' => Stored(q)
    BY <1>4, StoredKept
  <2>2. \A q \in RunIds : runs'[q].status = "running" => q # r /\ runs'[q] = runs[q]
    BY <1>3 DEF Written
  <2>3. QED
    BY <1>2, <2>1, <2>2 DEF RunningIsExecuted, At
<1>10. QED
  BY <1>5, <1>6, <1>7, <1>8, <1>9 DEF Rest

LEMMA RefuseOrFinishStep ==
  ASSUME IInv, NEW u \in Updaters,
         Refuse(u) \/ \E outcome \in Outcomes : FinishRun(u, outcome)
  PROVE  Rest'
<1>1. PICK status \in Terminal : Record(u, status, "publishing")
  BY SomeStatuses DEF Refuse, FinishRun
<1>2. /\ updater[u].step \in {"refused", "executing"}
      /\ UNCHANGED <<request, helper, session, live, asked, approval, spent,
                     started, interrupted>>
  BY DEF Refuse, FinishRun, At, authVars
<1>3. CASE Stored(updater[u].run)
  <2>1. Update(updater[u].run, status) /\ Goto(u, "publishing")
    BY <1>1, <1>3 DEF Record
  <2>2. Written(updater[u].run, status)
    BY <2>1, UpdateEffect DEF IInv
  <2>3. runs[updater[u].run].status \notin Terminal
    BY <1>2 DEF IInv, Progress, StepFits, Terminal
  <2>4. HistoryAgrees'
    BY <2>1, <2>3, HistoryUpdate, SomeStatuses DEF IInv
  <2>5. QED
    BY <1>2, <2>1, <2>2, <2>4, ResultStep
<1>4. CASE ~Stored(updater[u].run)
  <2>1. UNCHANGED <<runs, created, history, torn>> /\ Exit(u)
    BY <1>1, <1>4 DEF Record, storeVars
  <2>2. QED
    BY <1>2, <1>4, <2>1, QuietExit
<1>5. QED
  BY <1>3, <1>4

LEMMA PublishStep ==
  ASSUME IInv, NEW u \in Updaters, Publish(u)
  PROVE  Rest'
<1> DEFINE r == updater[u].run
<1>1. /\ updater[u].step = "publishing" /\ Exit(u)
      /\ UNCHANGED <<request, helper, session, live, asked, approval, spent,
                     started, interrupted>>
  BY DEF Publish, At, authVars
<1>2. runs[r].status \in Terminal
  BY <1>1 DEF IInv, Progress, StepFits
<1>3. CASE UNCHANGED storeVars
  <2>1. UNCHANGED <<runs, created, history, torn>>
    BY <1>3 DEF storeVars
  <2>2. QED
    BY <1>1, <2>1, QuietExit
<1>4. CASE Update(r, runs[r].status)
  <2>1. Written(r, runs[r].status)
    BY <1>4, UpdateEffect DEF IInv
  <2>2. HistoryAgrees'
    BY <1>2, <1>4, HistoryUpdate, SomeStatuses DEF IInv
  <2>3. QED
    BY <1>1, <1>2, <2>1, <2>2, ResultStep
<1>5. QED
  BY <1>3, <1>4 DEF Publish

LEMMA MarkRunningStep ==
  ASSUME IInv, NEW u \in Updaters, MarkRunning(u)
  PROVE  Rest'
<1> DEFINE r == updater[u].run
<1> USE DEF IInv
<1>1. /\ updater[u].step = "cleared"
      /\ UNCHANGED <<request, helper, session, live, asked, approval, spent,
                     interrupted>>
      /\ Record(u, "running", "executing")
  BY DEF MarkRunning, At, authVars
<1>2. /\ r # 0 /\ r \in RunIds /\ request[r] \notin {"authorizing", "approved"}
      /\ ~(r > created) /\ r <= created
  <2>1. r # 0
    BY <1>1 DEF Progress, StepFits
  <2>2. QED
    BY <1>1, <2>1, RunInHand
<1>3. runs[r].status = "queued" /\ spent[r] = 1 /\ started[r] = 0
  <2>1. runs[r].status = "queued" /\ spent[r] = 1
    BY <1>1 DEF Progress, StepFits
  <2>2. QED
    BY <1>2, <2>1 DEF Counts
<1>4. CASE Stored(r)
  <2>1. /\ Update(r, "running") /\ Goto(u, "executing")
        /\ started' = [started EXCEPT ![r] = @ + 1]
    BY <1>1, <1>4 DEF Record, MarkRunning
  <2>2. Written(r, "running")
    BY <2>1, UpdateEffect
  <2>3. /\ started'[r] = 1
        /\ \A q \in RunIds : q # r => started'[q] = started[q]
    BY <1>2, <1>3, <2>1 DEF TypeOK, ServiceTypeOK
  <2>4. /\ updater'[u].step = "executing" /\ updater'[u].run = r
        /\ updater'[u].trigger = updater[u].trigger
        /\ \A v \in Updaters \ {u} : updater'[v] = updater[v]
    BY <2>1, UpdaterStep DEF Steps
  <2>5. FreshRuns'
    BY <1>1, <1>2, <2>2, <2>3 DEF FreshRuns, Written
  <2>6. Requests' /\ Approvals'
    <3>1. "running" \in Status \ {"absent"}
      BY DEF Status
    <3>2. QED
      BY <1>1, <1>2, <2>2, <2>4, <3>1, WrittenKeeps
  <2>7. Progress'
    <3>1. StepFits(u)'
      BY <1>1, <1>2, <1>3, <2>2, <2>4 DEF StepFits, Written
    <3>2. created' = created
      BY <2>2 DEF Written
    <3>3. QED
      BY <1>1, <2>4, <3>1, <3>2, HolderAlone DEF Progress, Holding, Steps
  <2>8. Counts'
    BY <1>1, <1>3, <2>2, <2>3 DEF Counts, Written
  <2>9. HistoryAgrees'
    BY <1>3, <2>1, HistoryUpdate, SomeStatuses DEF Terminal
  <2>10. RunningIsExecuted'
    <3>1. \A q \in RunIds : Stored(q)' => Stored(q)
      BY <2>2, StoredKept DEF Written
    <3>2. QED
      BY <1>1, <2>2, <2>4, <3>1 DEF RunningIsExecuted, Written, At
  <2>11. QED
    BY <2>5, <2>6, <2>7, <2>8, <2>9, <2>10 DEF Rest
<1>5. CASE ~Stored(r)
  <2>1. UNCHANGED <<runs, created, history, torn, started>> /\ Exit(u)
    BY <1>1, <1>5 DEF Record, MarkRunning, storeVars
  <2>2. QED
    BY <1>1, <2>1, QuietExit
<1>6. QED
  BY <1>4, <1>5

LEMMA ExecuteStep ==
  ASSUME IInv, NEW u \in Updaters, Execute(u)
  PROVE  Rest'
BY AcquireLockStep, CreateScheduledStep, LoadRunStep, ConsumeApprovalStep,
   ReadPolicyStep, VerifyPolicyStep, RefuseOrFinishStep, MarkRunningStep,
   PublishStep DEF Execute

(* An invocation by hand or by the timer: an idle updater waits.           *)
LEMMA InvocationStep ==
  ASSUME IInv, NEW u \in Updaters,
         (\E r \in RunIds : Retrigger(u, r)) \/ TimerFires(u)
  PROVE  Rest'
<1> USE DEF IInv
<1>1. /\ updater[u].step = "idle"
      /\ UNCHANGED <<runs, created, history, torn, request, helper, session,
                     live, asked, approval, spent, started, interrupted>>
  BY DEF Retrigger, Invoke, TimerFires, storeVars, authVars
<1>2. /\ updater'[u].step = "waiting"
      /\ updater'[u].run \in 0..created
      /\ updater'[u].trigger = "scheduled" => updater'[u].run = 0
      /\ updater'[u].run # 0 =>
           request[updater'[u].run] \notin {"authorizing", "approved"}
      /\ \A v \in Updaters \ {u} : updater'[v] = updater[v]
  <2>1. /\ created \in Nat /\ 0 \in 0..created
        /\ 0 \in 0..MaxRuns /\ \A r \in RunIds : r \in 0..MaxRuns
    BY Parts DEF RunIds
  <2>2. CASE TimerFires(u)
    <3>1. updater'[u] = Invoked("scheduled", 0)
          /\ \A v \in Updaters \ {u} : updater'[v] = updater[v]
      BY <2>1, <2>2, InvokedType, UpdaterSet DEF TimerFires
    <3>2. QED
      BY <2>1, <3>1 DEF Invoked
  <2>3. CASE \E r \in RunIds : Retrigger(u, r)
    <3>1. PICK r \in RunIds : Retrigger(u, r)
      BY <2>3
    <3>2. updater'[u] = Invoked("manual", r)
          /\ \A v \in Updaters \ {u} : updater'[v] = updater[v]
      BY <2>1, <3>1, InvokedType, UpdaterSet DEF Retrigger, Invoke
    <3>3. QED
      BY <2>1, <3>1, <3>2 DEF Retrigger, Invoked, RunIds
  <2>4. QED
    BY <2>2, <2>3
<1>3. Requests'
  <2>1. 0 \notin RunIds
    BY DEF RunIds
  <2>2. QED
    BY <1>1, <1>2, <2>1 DEF Requests, Active
<1>4. Progress'
  <2>1. OneHolder'
    BY <1>2 DEF Progress, OneHolder, Holding
  <2>2. ASSUME NEW v \in Updaters
        PROVE  StepFits(v)'
    BY <1>1, <1>2, <2>2, Parts DEF Progress, StepFits
  <2>3. QED
    BY <2>1, <2>2 DEF Progress
<1>5. RunningIsExecuted'
  BY <1>1, <1>2 DEF RunningIsExecuted, Stored, At
<1>6. QED
  BY <1>1, <1>3, <1>4, <1>5, Frame DEF Rest

(* An updater is killed, between two steps or inside a write.              *)
LEMMA KilledStep ==
  ASSUME IInv, NEW u \in Updaters, UpdaterCrash(u) \/ CrashInUpdate(u)
  PROVE  Rest'
<1> DEFINE r == updater[u].run
<1>1. /\ Exit(u)
      /\ UNCHANGED <<request, helper, session, live, asked, approval, spent,
                     started>>
      /\ interrupted \subseteq interrupted'
      /\ updater[u].step = "executing" => r \in interrupted'
  BY DEF UpdaterCrash, CrashInUpdate, Killed, At, authVars
<1>2. CASE UpdaterCrash(u)
  <2>1. UNCHANGED <<runs, created, history, torn>>
    BY <1>2 DEF UpdaterCrash, storeVars
  <2>2. QED
    BY <1>1, <2>1, QuietExit
<1>3. CASE CrashInUpdate(u)
  <2>1. PICK status \in Terminal : UpdateTorn(r, status)
    BY <1>3, SomeStatuses DEF CrashInUpdate
  <2>2. updater[u].step \in {"refused", "executing"}
    BY <1>3 DEF CrashInUpdate, At
  <2>3. Written(r, status)
    BY <2>1, UpdateEffect DEF IInv
  <2>4. runs[r].status \notin Terminal
    BY <2>2 DEF IInv, Progress, StepFits, Terminal
  <2>5. HistoryAgrees'
    BY <2>1, <2>4, HistoryTorn DEF IInv
  <2>6. QED
    BY <1>1, <2>2, <2>3, <2>5, ResultStep
<1>4. QED
  BY <1>2, <1>3

(***************************************************************************)
(* What clears an updater, and what keeps its run one of the policy.       *)
(***************************************************************************)
(* Every write of the store is one of these.                               *)
LEMMA Writes ==
  ASSUME IInv, [Next]_vars
  PROVE  \/ runs' = runs
         \/ /\ created + 1 \in RunIds
            /\ \A q \in RunIds : q # created + 1 => runs'[q] = runs[q]
         \/ \E r \in RunIds, status \in Status :
              Written(r, status) /\ (\/ runs[r].status \notin Terminal
                                     \/ runs[r].status = status)
<1> DEFINE New == /\ created + 1 \in RunIds
                  /\ \A q \in RunIds : q # created + 1 => runs'[q] = runs[q]
           Wrote == \E r \in RunIds, status \in Status :
                      Written(r, status) /\ (\/ runs[r].status \notin Terminal
                                             \/ runs[r].status = status)
<1> SUFFICES runs' = runs \/ New \/ Wrote
  OBVIOUS
<1>1. ASSUME NEW r, NEW status \in Status,
             Update(r, status) \/ UpdateTorn(r, status),
             runs[r].status \notin Terminal \/ runs[r].status = status
      PROVE  Wrote
  BY <1>1, UpdateEffect DEF IInv, Written
<1>2. CASE UNCHANGED vars
  BY <1>2 DEF vars, storeVars
<1>3. CASE Authority
  BY <1>3, AuthorityHasEffect DEF IInv, AuthorityEffect
<1>4. ASSUME NEW t \in Tokens, NEW selection \in Selections, PostRun(t, selection)
      PROVE  New
  BY <1>4, CreateEffect, LiveSession
     DEF PostRun, AuthorizeRun, SessionValid, IInv
<1>5. ASSUME NEW r \in RunIds, StartFails(r)
      PROVE  runs' = runs \/ Wrote
  <2>1. runs[r].status \notin Terminal
    BY <1>5 DEF StartFails, IInv, Requests, Terminal
  <2>2. QED
    BY <1>1, <1>5, <2>1, SomeStatuses DEF StartFails, storeVars
<1>6. CASE Server
  BY <1>4, <1>5, <1>6
     DEF Server, HelperApproves, HelperCrash, StartTrigger, ServerCrash, storeVars
<1>7. ASSUME NEW u \in Updaters, Execute(u)
      PROVE  runs' = runs \/ New \/ Wrote
  <2>1. CASE CreateScheduled(u)
    <3>1. policy.selection \in Selections \cup {NoSelection}
      BY DEF IInv, TypeOK, AuthTypeOK, Policy
    <3>2. QED
      BY <2>1, <3>1, CreateEffect DEF CreateScheduled, IInv
  <2>2. ASSUME NEW status \in Status, NEW next, Record(u, status, next),
               updater[u].step \in {"refused", "cleared", "executing"}
        PROVE  runs' = runs \/ Wrote
    <3>1. runs[updater[u].run].status \notin Terminal
      BY <2>2 DEF IInv, Progress, StepFits, Terminal
    <3>2. QED
      BY <1>1, <2>2, <3>1 DEF Record, storeVars
  <2>3. CASE Refuse(u) \/ MarkRunning(u) \/ \E o \in Outcomes : FinishRun(u, o)
    BY <2>2, <2>3, SomeStatuses DEF Refuse, MarkRunning, FinishRun, At
  <2>4. CASE Publish(u)
    <3>1. runs[updater[u].run].status \in Status
      BY <2>4, SomeStatuses DEF Publish, At, IInv, Progress, StepFits
    <3>2. QED
      BY <1>1, <2>4, <3>1 DEF Publish, storeVars
  <2>5. QED
    BY <1>7, <2>1, <2>3, <2>4
       DEF Execute, AcquireLock, LoadRun, ConsumeApproval, ReadPolicy,
           VerifyPolicy, storeVars
<1>8. ASSUME NEW u \in Updaters, Invocation(u)
      PROVE  runs' = runs \/ Wrote
  <2>1. CASE CrashInUpdate(u)
    <3>1. runs[updater[u].run].status \notin Terminal
      BY <2>1 DEF CrashInUpdate, At, IInv, Progress, StepFits, Terminal
    <3>2. QED
      BY <1>1, <2>1, <3>1, SomeStatuses DEF CrashInUpdate
  <2>2. QED
    BY <1>8, <2>1 DEF Invocation, Retrigger, TimerFires, UpdaterCrash, storeVars
<1>9. QED
  BY <1>2, <1>3, <1>6, <1>7, <1>8 DEF Next

(* An updater is cleared by nothing else than its authorization, and stays *)
(* as it is until it begins its run or ends.                               *)
LEMMA Clears ==
  ASSUME IInv, [Next]_vars, NEW v \in Updaters, updater'[v].step = "cleared"
  PROVE  updater'[v] = updater[v] \/ ConsumeApproval(v) \/ VerifyPolicy(v)
<1> DEFINE Same == updater'[v] = updater[v]
<1> TypeOK
  BY DEF IInv
<1>1. ASSUME updater' = updater
      PROVE  Same
  BY <1>1
<1>2. ASSUME NEW u \in Updaters, NEW step \in Steps, Goto(u, step)
      PROVE  Same \/ (u = v /\ step = "cleared")
  <2>1. updater'[u].step = step /\ \A w \in Updaters \ {u} : updater'[w] = updater[w]
    BY <1>2, UpdaterStep
  <2>2. CASE u = v
    BY <2>1, <2>2
  <2>3. CASE u # v
    BY <2>1, <2>3
  <2>4. QED
    BY <2>2, <2>3
<1>3. ASSUME NEW u \in Updaters, NEW value \in Updater, value.step # "cleared",
             updater' = [updater EXCEPT ![u] = value]
      PROVE  Same
  BY <1>3, UpdaterSet
<1>4. ASSUME NEW u \in Updaters, Exit(u)
      PROVE  Same
  <2>1. Off \in Updater /\ Off.step # "cleared"
    BY OffType DEF Off
  <2>2. QED
    BY <1>3, <1>4, <2>1 DEF Exit
<1>5. ASSUME NEW u \in Updaters, NEW trigger \in {"manual", "scheduled"},
             NEW r \in 0..MaxRuns,
             updater' = [updater EXCEPT ![u] = Invoked(trigger, r)]
      PROVE  Same
  <2>1. Invoked(trigger, r) \in Updater /\ Invoked(trigger, r).step # "cleared"
    BY InvokedType DEF Invoked
  <2>2. QED
    BY <1>3, <1>5, <2>1
<1>6. \A r \in RunIds : r \in 0..MaxRuns
  BY MaxRunsAssumption DEF RunIds
<1>7. 0 \in 0..MaxRuns
  BY MaxRunsAssumption
<1>8. CASE UNCHANGED vars
  BY <1>1, <1>8 DEF vars, serviceVars
<1>9. CASE Authority
  BY <1>1, <1>9, AuthorityHasEffect DEF AuthorityEffect
<1>10. CASE Server
  <2>1. ASSUME NEW u \in Updaters, NEW r \in RunIds, StartTrigger(u, r)
        PROVE  Same
    BY <1>5, <1>6, <2>1 DEF StartTrigger, Invoke
  <2>2. QED
    BY <1>1, <1>10, <2>1
       DEF Server, PostRun, HelperApproves, HelperCrash, StartFails, ServerCrash
<1>11. ASSUME NEW u \in Updaters, Execute(u)
       PROVE  Same \/ ConsumeApproval(v) \/ VerifyPolicy(v)
  <2>1. CASE ConsumeApproval(u) \/ VerifyPolicy(u)
    <3>1. \/ Goto(u, "cleared")
          \/ Goto(u, "refused")
      BY <2>1 DEF ConsumeApproval, VerifyPolicy
    <3>2. Same \/ u = v
      BY <1>2, <3>1 DEF Steps
    <3>3. QED
      BY <2>1, <3>2
  <2>2. CASE AcquireLock(u)
    BY <1>2, <2>2 DEF AcquireLock, Goto, Steps
  <2>3. CASE CreateScheduled(u)
    <3>1. policy.selection \in Selections \cup {NoSelection}
      BY DEF IInv, TypeOK, AuthTypeOK, Policy
    <3>2. created + 1 \in 0..MaxRuns
      BY <1>6, <2>3, <3>1, CreateEffect DEF CreateScheduled
    <3>3. QED
      BY <2>3, <3>2, RunUpdaterSet DEF CreateScheduled, At
  <2>4. CASE LoadRun(u)
    BY <1>2, <1>4, <2>4 DEF LoadRun, Steps
  <2>5. CASE ReadPolicy(u)
    BY <2>5, ReadPolicyUpdater
  <2>6. ASSUME NEW status, NEW next \in Steps, next # "cleared",
               Record(u, status, next)
        PROVE  Same
    BY <1>2, <1>4, <2>6 DEF Record
  <2>7. CASE Refuse(u) \/ MarkRunning(u) \/ \E o \in Outcomes : FinishRun(u, o)
    BY <2>6, <2>7 DEF Refuse, MarkRunning, FinishRun, Steps
  <2>8. CASE Publish(u)
    BY <1>4, <2>8 DEF Publish
  <2>9. QED
    BY <1>11, <2>1, <2>2, <2>3, <2>4, <2>5, <2>7, <2>8 DEF Execute
<1>12. ASSUME NEW u \in Updaters, Invocation(u)
       PROVE  Same
  <2>1. ASSUME NEW r \in RunIds, Retrigger(u, r)
        PROVE  Same
    BY <1>5, <1>6, <2>1 DEF Retrigger, Invoke
  <2>2. CASE TimerFires(u)
    BY <1>5, <1>7, <2>2 DEF TimerFires
  <2>3. QED
    BY <1>4, <1>12, <2>1, <2>2 DEF Invocation, UpdaterCrash, CrashInUpdate, Killed
<1>13. QED
  BY <1>8, <1>9, <1>10, <1>11, <1>12 DEF Next

(* The policy and what it overtakes change together or not at all.         *)
LEMMA PolicyKept ==
  ASSUME [Next]_vars, ~PolicyChange
  PROVE  UNCHANGED <<policy, overtaken>>
<1>1. CASE UNCHANGED vars
  BY <1>1 DEF vars, authVars, serviceVars
<1>2. CASE Authority
  BY <1>2 DEF Authority, AuthorityOnly, FirstUse, Register, SignIn, Login,
              SignOut, Logout, AccountChange, SetAccount, SessionEnds, Expire
<1>3. CASE Server
  BY <1>3 DEF Server, PostRun, AuthorizeRun, HelperApproves, RecordApproval,
              HelperCrash, HelperKilled, StartTrigger, StartFails, ServerCrash,
              authVars
<1>4. ASSUME NEW u \in Updaters, Execute(u)
      PROVE  UNCHANGED <<policy, overtaken>>
  BY <1>4 DEF Execute, AcquireLock, CreateScheduled, LoadRun, ConsumeApproval,
              ConsumeRun, ReadPolicy, VerifyPolicy, Refuse, MarkRunning,
              FinishRun, Publish, authVars
<1>5. ASSUME NEW u \in Updaters, Invocation(u)
      PROVE  UNCHANGED <<policy, overtaken>>
  BY <1>5 DEF Invocation, Retrigger, TimerFires, UpdaterCrash, CrashInUpdate,
              Killed, authVars
<1>6. QED
  BY <1>1, <1>2, <1>3, <1>4, <1>5 DEF Next

(* A policy that replaces another overtakes the run that was cleared.      *)
LEMMA PolicyChangeScheduled ==
  ASSUME IInv, PolicyChange
  PROVE  Scheduled'
<1>1. PICK t \in Tokens, enabled \in BOOLEAN, selection \in Selections :
        SavePolicy(t, enabled, selection)
  BY DEF PolicyChange
<1>2. /\ UNCHANGED <<runs, updater>>
      /\ overtaken' = [overtaken EXCEPT ![policy.id + 1] = ClearedRuns]
  BY DEF PolicyChange, storeVars
<1>3. policy'.id = policy.id + 1 /\ policy.id + 1 \in 0..MaxPolicies
  BY <1>1, BoundAssumption DEF SavePolicy, IInv, TypeOK, AuthTypeOK, Policy
<1>4. overtaken'[policy'.id] = ClearedRuns
  BY <1>2, <1>3 DEF IInv, TypeOK, ServiceTypeOK
<1>5. ASSUME NEW u \in Updaters, At(u, "cleared"),
             updater[u].trigger = "scheduled"
      PROVE  ClearedRuns = {updater[u].run}
  <2>1. \A v \in Updaters : At(v, "cleared") => v = u
    BY <1>5 DEF At, IInv, Progress, OneHolder, Holding, Steps
  <2>2. QED
    BY <1>5, <2>1 DEF ClearedRuns
<1>6. QED
  BY <1>2, <1>4, <1>5 DEF IInv, Scheduled, At

LEMMA ScheduledStep ==
  ASSUME IInv, [Next]_vars
  PROVE  Scheduled'
<1> SUFFICES ASSUME ~PolicyChange, NEW u \in Updaters,
                    updater'[u].step = "cleared",
                    updater'[u].trigger = "scheduled"
             PROVE  /\ updater'[u].seen.enabled
                    /\ runs'[updater'[u].run].selection
                         = updater'[u].seen.selection
                    /\ \/ updater'[u].seen = policy'
                       \/ overtaken'[policy'.id] = {updater'[u].run}
  BY PolicyChangeScheduled DEF Scheduled, At
<1>1. UNCHANGED <<policy, overtaken>>
  BY PolicyKept
<1>2. CASE updater'[u] = updater[u]
  <2>1. updater[u].run # 0
    BY <1>2 DEF IInv, Progress, StepFits
  <2>2. updater[u].run \in RunIds /\ updater[u].run <= created
    BY <1>2, <2>1, RunInHand
  <2>3. updater[u].run # created + 1
    BY <2>2, Parts DEF IInv, RunIds
  <2>4. runs'[updater[u].run].selection = runs[updater[u].run].selection
    BY <2>2, <2>3, Writes DEF Written
  <2>5. QED
    BY <1>1, <1>2, <2>4 DEF IInv, Scheduled, At
<1>3. CASE ConsumeApproval(u)
  BY <1>3, UpdaterStep DEF ConsumeApproval, IInv, Steps
<1>4. CASE VerifyPolicy(u)
  <2>1. ~Goto(u, "refused")
    BY UpdaterStep DEF IInv, Steps
  <2>2. PolicyAccepts(u) /\ Goto(u, "cleared") /\ runs' = runs
    BY <1>4, <2>1 DEF VerifyPolicy, storeVars
  <2>3. updater'[u].run = updater[u].run /\ updater'[u].seen = updater[u].seen
    BY <2>2, UpdaterStep DEF IInv, Steps
  <2>4. QED
    BY <1>1, <2>2, <2>3 DEF PolicyAccepts
<1>5. QED
  BY <1>2, <1>3, <1>4, Clears

(***************************************************************************)
(* The invariant.                                                          *)
(***************************************************************************)
LEMMA InitInvariant == Init => IInv
<1> SUFFICES ASSUME Init PROVE IInv
  OBVIOUS
<1>1. /\ created = 0 /\ created \in 0..MaxRuns
      /\ \A r \in RunIds : r \in Int /\ r > 0
  BY MaxRunsAssumption DEF Init, StoreInit, RunIds
<1>2. StoreTypeOK
  BY <1>1 DEF Init, StoreInit, StoreTypeOK, RunRecord, Status
<1>3. AuthTypeOK
  BY MaxRunsAssumption DEF Init, AuthInit, AuthTypeOK, Account, Roles, Viewer,
                           Policy, Idle
<1>4. ServiceTypeOK
  BY FaultBoundAssumption, BoundAssumption, OffType
     DEF Init, ServiceInit, ServiceTypeOK, Stages
<1>5. FreshRuns
  BY <1>1 DEF Init, StoreInit, AuthInit, ServiceInit, FreshRuns
<1>6. Requests
  BY <1>1 DEF Init, AuthInit, ServiceInit, Requests, Idle
<1>7. Approvals
  BY DEF Init, AuthInit, Approvals
<1>8. Progress
  BY <1>1 DEF Init, ServiceInit, Progress, OneHolder, StepFits, Off, Holding
<1>9. Counts
  BY DEF Init, AuthInit, ServiceInit, Counts
<1>10. HistoryAgrees
  BY DEF Init, StoreInit, HistoryAgrees, Terminal
<1>11. RunningIsExecuted
  BY DEF Init, StoreInit, RunningIsExecuted
<1>12. Scheduled
  BY DEF Init, ServiceInit, Scheduled, At, Off
<1>13. QED
  BY <1>2, <1>3, <1>4, <1>5, <1>6, <1>7, <1>8, <1>9, <1>10, <1>11, <1>12
     DEF IInv, TypeOK

LEMMA NextInvariant == IInv /\ [Next]_vars => IInv'
<1> SUFFICES ASSUME IInv, [Next]_vars PROVE IInv'
  OBVIOUS
<1>1. TypeOK'
  BY TypeStep
<1>2. Rest'
  <2>1. CASE UNCHANGED vars
    BY <2>1, Frame DEF Rest, vars, storeVars, authVars, serviceVars
  <2>2. ASSUME NEW u \in Updaters, Invocation(u)
        PROVE  Rest'
    BY <2>2, InvocationStep, KilledStep DEF Invocation
  <2>3. QED
    BY <2>1, <2>2, AuthorityStep, ServerStep, ExecuteStep DEF Next
<1>3. Scheduled'
  BY ScheduledStep
<1>4. QED
  BY <1>1, <1>2, <1>3 DEF Rest, IInv

(* IInv holds in every reachable state of the service.                     *)
THEOREM Invariance == Spec => []IInv
BY InitInvariant, NextInvariant, PTL DEF Spec

(* Every variable keeps its type, for all constants the code may have.     *)
THEOREM TypeCorrect == Spec => []TypeOK
<1>1. IInv => TypeOK
  BY DEF IInv
<1>2. QED
  BY <1>1, Invariance, PTL

(* Whatever crashes and whatever is invoked again, an approval or a policy *)
(* starts a run once.                                                      *)
THEOREM ApprovalsAreOneUse == Spec => []OneUseApproval
<1>1. IInv => OneUseApproval
  BY DEF IInv, Counts, OneUseApproval
<1>2. QED
  BY <1>1, Invariance, PTL

(* The log of ended runs never contradicts the list.                       *)
THEOREM LogAgreesWithList == Spec => []HistoryAgrees
<1>1. IInv => HistoryAgrees
  BY DEF IInv
<1>2. QED
  BY <1>1, Invariance, PTL

(* Commands of two runs are never executed side by side, and a run stored  *)
(* as running is being executed or was cut off.                            *)
THEOREM ExecutionIsExclusive == Spec => []OneExecutor
<1>1. IInv => OneExecutor
  BY DEF IInv, Progress, OneHolder, OneExecutor, At, Holding, Steps
<1>2. QED
  BY <1>1, Invariance, PTL

(***************************************************************************)
(* Action properties.                                                      *)
(***************************************************************************)
(* No step replaces a result: the updaters that reach a run's record do so *)
(* only while it is open, or repeat its status.                            *)
THEOREM ResultsAreFinal == Spec => TerminalIsFinal
<1> DEFINE Kept == \A r \in RunIds : runs[r].status \in Terminal
                                       => runs'[r].status = runs[r].status
<1>1. IInv /\ [Next]_vars => [Kept]_vars
  <2> SUFFICES ASSUME IInv, [Next]_vars, NEW r \in RunIds,
                      runs[r].status \in Terminal
               PROVE  runs'[r].status = runs[r].status
    OBVIOUS
  <2>1. r # created + 1
    <3>1. ~(r > created)
      BY DEF IInv, FreshRuns, Terminal
    <3>2. QED
      BY <3>1, Parts DEF IInv
  <2>2. QED
    BY <2>1, Writes DEF Written
<1>2. QED
  BY <1>1, Invariance, PTL DEF Spec, TerminalIsFinal

(* Every authorization to start is one of these.                           *)
LEMMA Spends ==
  ASSUME IInv, [Next]_vars
  PROVE  \/ spent' = spent
         \/ \E u \in Updaters :
              /\ updater[u].run \in RunIds
              /\ \A r \in RunIds : r # updater[u].run => spent'[r] = spent[r]
              /\ \/ ConsumeApproval(u) /\ ConsumeRun(updater[u].run)
                 \/ VerifyPolicy(u)
<1> DEFINE Spend(u) == /\ updater[u].run \in RunIds
                       /\ \A r \in RunIds : r # updater[u].run
                                              => spent'[r] = spent[r]
                       /\ \/ ConsumeApproval(u) /\ ConsumeRun(updater[u].run)
                          \/ VerifyPolicy(u)
<1>1. CASE UNCHANGED vars
  BY <1>1 DEF vars, authVars
<1>2. CASE Authority
  BY <1>2, AuthorityHasEffect DEF IInv, AuthorityEffect
<1>3. CASE Server
  BY <1>3 DEF Server, PostRun, AuthorizeRun, HelperApproves, RecordApproval,
              HelperCrash, HelperKilled, StartTrigger, StartFails, ServerCrash,
              authVars
<1>4. ASSUME NEW u \in Updaters, Execute(u)
      PROVE  spent' = spent \/ Spend(u)
  <2>1. CASE ConsumeApproval(u) \/ VerifyPolicy(u)
    <3>1. updater[u].run \in RunIds
      <4>1. updater[u].step \in {"authorizing", "verifying"}
        BY <2>1 DEF ConsumeApproval, VerifyPolicy, At
      <4>2. updater[u].run # 0
        BY <4>1 DEF IInv, Progress, StepFits
      <4>3. QED
        BY <4>1, <4>2, RunInHand
    <3>2. spent \in [RunIds -> Nat]
      BY DEF IInv, TypeOK, AuthTypeOK
    <3>3. QED
      BY <2>1, <3>1, <3>2 DEF ConsumeApproval, ConsumeRun, VerifyPolicy, authVars
  <2>2. QED
    BY <1>4, <2>1
       DEF Execute, AcquireLock, CreateScheduled, LoadRun, ReadPolicy, Refuse,
           MarkRunning, FinishRun, Publish, authVars
<1>5. ASSUME NEW u \in Updaters, Invocation(u)
      PROVE  spent' = spent
  BY <1>5 DEF Invocation, Retrigger, TimerFires, UpdaterCrash, CrashInUpdate,
              Killed, authVars
<1>6. QED
  BY <1>1, <1>2, <1>3, <1>4, <1>5 DEF Next

(* An approval is consumed only while its own session is in force.         *)
THEOREM RevocationIsEffective == Spec => RevocationBlocks
<1> DEFINE InForce(r) ==
      runs[r].trigger = "manual" /\ spent'[r] # spent[r] =>
        /\ asked[r] \in live
        /\ session[asked[r]].user = runs[r].by
        /\ account[runs[r].by].credential = session[asked[r]].credential
        /\ account[runs[r].by].role >= Operator
<1>1. IInv /\ [Next]_vars => [\A r \in RunIds : InForce(r)]_vars
  <2> SUFFICES ASSUME IInv, [Next]_vars, NEW r \in RunIds,
                      runs[r].trigger = "manual", spent'[r] # spent[r]
               PROVE  /\ asked[r] \in live
                      /\ session[asked[r]].user = runs[r].by
                      /\ account[runs[r].by].credential
                           = session[asked[r]].credential
                      /\ account[runs[r].by].role >= Operator
    OBVIOUS
  <2>1. PICK u \in Updaters :
          /\ updater[u].run = r
          /\ \/ ConsumeApproval(u) /\ ConsumeRun(r)
             \/ VerifyPolicy(u)
    BY Spends
  <2>2. ~VerifyPolicy(u)
    BY <2>1 DEF VerifyPolicy, At, IInv, Progress, StepFits
  <2>3. approval[r] # NoToken /\ SessionValid(approval[r], Operator)
    BY <2>1, <2>2 DEF ConsumeRun, Approved
  <2>4. approval[r] = asked[r] /\ asked[r] # NoToken
        /\ session[asked[r]].user = runs[r].by
    BY <2>3 DEF IInv, Approvals
  <2>5. QED
    BY <2>3, <2>4 DEF SessionValid
<1>2. QED
  BY <1>1, Invariance, PTL DEF Spec, RevocationBlocks

(* The commands of a run are begun by an updater that was cleared for it.  *)
LEMMA Begins ==
  ASSUME IInv, [Next]_vars, NEW r \in RunIds, started'[r] # started[r]
  PROVE  \E u \in Updaters : At(u, "cleared") /\ updater[u].run = r
<1>1. CASE UNCHANGED vars
  BY <1>1 DEF vars, serviceVars
<1>2. CASE Authority
  BY <1>2, AuthorityHasEffect DEF IInv, AuthorityEffect
<1>3. CASE Server
  BY <1>3 DEF Server, PostRun, HelperApproves, HelperCrash, StartTrigger,
              StartFails, ServerCrash
<1>4. ASSUME NEW u \in Updaters, Execute(u)
      PROVE  At(u, "cleared") /\ updater[u].run = r
  <2>1. CASE MarkRunning(u)
    BY <2>1 DEF MarkRunning, IInv, TypeOK, ServiceTypeOK
  <2>2. QED
    BY <1>4, <2>1
       DEF Execute, AcquireLock, CreateScheduled, LoadRun, ConsumeApproval,
           ReadPolicy, VerifyPolicy, Refuse, FinishRun, Publish
<1>5. ASSUME NEW u \in Updaters, Invocation(u)
      PROVE  FALSE
  BY <1>5 DEF Invocation, Retrigger, TimerFires, UpdaterCrash, CrashInUpdate,
              Killed
<1>6. QED
  BY <1>1, <1>2, <1>3, <1>4, <1>5 DEF Next

(* Whatever is saved between an updater's look at the policy and its first *)
(* command, a policy in force is outrun by one scheduled run at most, that *)
(* of the updater which holds the lock and had made its check; every other *)
(* scheduled run that begins is for exactly the components of the policy.  *)
THEOREM ReplacedPoliciesStop == Spec => ReplacedPolicyStops
<1> DEFINE Stops == \A r \in RunIds :
      runs[r].trigger = "scheduled" /\ started'[r] # started[r] =>
        \/ policy.enabled /\ runs[r].selection = policy.selection
        \/ overtaken[policy.id] = {r}
<1>1. IInv /\ [Next]_vars => [Stops]_vars
  <2> SUFFICES ASSUME IInv, [Next]_vars, NEW r \in RunIds,
                      runs[r].trigger = "scheduled", started'[r] # started[r]
               PROVE  \/ policy.enabled /\ runs[r].selection = policy.selection
                      \/ overtaken[policy.id] = {r}
    OBVIOUS
  <2>1. PICK u \in Updaters : At(u, "cleared") /\ updater[u].run = r
    BY Begins
  <2>2. updater[u].trigger = "scheduled"
    BY <2>1 DEF At, IInv, Progress, StepFits
  <2>3. QED
    BY <2>1, <2>2 DEF IInv, Scheduled
<1>2. QED
  BY <1>1, Invariance, PTL DEF Spec, ReplacedPolicyStops

(***************************************************************************)
(* The service implements RunLifecycle: what each write, each permit and   *)
(* each end of an execution is in terms of the abstract variables.         *)
(***************************************************************************)
LEMMA StoreUnwritten ==
  ASSUME runs' = runs
  PROVE  Phase' = Phase /\ Manual' = Manual
BY DEF Phase, Manual

LEMMA PhaseWritten ==
  ASSUME NEW r, NEW status, Written(r, status)
  PROVE  /\ r \in RunIds
         /\ Phase' = [Phase EXCEPT ![r] = status]
         /\ Manual' = Manual
BY DEF Written, Phase, Manual

LEMMA PhaseCreated ==
  ASSUME IInv, NEW trigger \in {"manual", "scheduled"},
         NEW by \in Users \cup {System},
         NEW selection \in Selections \cup {NoSelection},
         Create(trigger, by, selection)
  PROVE  /\ created + 1 \in RunIds
         /\ Phase[created + 1] = "absent"
         /\ Phase' = [Phase EXCEPT ![created + 1] = "queued"]
         /\ Manual' = Manual \cup {created + 1} \/ Manual' = Manual
<1>1. /\ created + 1 \in RunIds
      /\ runs'[created + 1].trigger = trigger
      /\ runs'[created + 1].status = "queued"
      /\ \A r \in RunIds : r # created + 1 => runs'[r] = runs[r]
  BY CreateEffect DEF IInv
<1>2. created + 1 > created
  BY Parts DEF IInv
<1>3. /\ runs[created + 1].status = "absent"
      /\ runs[created + 1].trigger = "scheduled"
  BY <1>1, <1>2 DEF IInv, FreshRuns
<1>4. Phase' = [Phase EXCEPT ![created + 1] = "queued"]
  BY <1>1 DEF Phase
<1>5. Manual' = Manual \cup {created + 1} \/ Manual' = Manual
  BY <1>1, <1>3 DEF Manual
<1>6. QED
  BY <1>1, <1>3, <1>4, <1>5 DEF Phase

LEMMA PermitsKept ==
  ASSUME UNCHANGED <<approval, spent>>
  PROVE  Permits' = Permits
BY DEF Permits, Permit

LEMMA PermitUsed ==
  ASSUME TypeOK, NEW r \in RunIds, spent' = [spent EXCEPT ![r] = @ + 1],
         \A q \in RunIds : q # r => approval'[q] = approval[q]
  PROVE  Permits' = [Permits EXCEPT ![r] = "used"]
<1>1. spent \in [RunIds -> Nat] /\ spent[r] \in Nat
  BY DEF TypeOK, AuthTypeOK
<1>2. spent'[r] > 0 /\ \A q \in RunIds : q # r => spent'[q] = spent[q]
  BY <1>1
<1>3. Permit(r)' = "used"
  BY <1>2 DEF Permit
<1>4. \A q \in RunIds : q # r => Permit(q)' = Permit(q)
  BY <1>2 DEF Permit
<1>5. QED
  BY <1>3, <1>4 DEF Permits

LEMMA OnlyOne ==
  ASSUME NEW S, NEW u \in S, \A v \in S : v = u
  PROVE  S # {} /\ (CHOOSE v \in S : TRUE) = u
OBVIOUS

LEMMA ActiveIs ==
  ASSUME IInv
  PROVE  /\ \A u \in Updaters : At(u, "executing") => ActiveRun = updater[u].run
         /\ (\A u \in Updaters : ~At(u, "executing")) => ActiveRun = 0
<1>1. ASSUME NEW u \in Updaters, At(u, "executing")
      PROVE  ActiveRun = updater[u].run
  <2>1. \A v \in Executing : v = u
    BY <1>1 DEF Executing, IInv, Progress, OneHolder, At, Holding, Steps
  <2>2. u \in Executing
    BY <1>1 DEF Executing
  <2>3. QED
    BY <2>1, <2>2, OnlyOne DEF ActiveRun
<1>2. (\A u \in Updaters : ~At(u, "executing")) => Executing = {}
  BY DEF Executing
<1>3. QED
  BY <1>1, <1>2 DEF ActiveRun

(* No execution begins or ends in a step of updaters that do neither.      *)
LEMMA ActiveKept ==
  ASSUME IInv,
         \A u \in Updaters :
           updater[u].step = "executing" \/ updater'[u].step = "executing"
             => /\ updater'[u].step = updater[u].step
                /\ updater'[u].run = updater[u].run
  PROVE  ActiveRun' = ActiveRun
<1>1. Executing' = Executing
  BY DEF Executing, At
<1>2. CASE Executing = {}
  BY <1>1, <1>2 DEF ActiveRun
<1>3. CASE Executing # {}
  <2>1. (CHOOSE u \in Executing : TRUE) \in Executing
    BY <1>3
  <2>2. \A u \in Executing : updater'[u].run = updater[u].run
    BY DEF Executing, At
  <2>3. QED
    BY <1>1, <1>3, <2>1, <2>2 DEF ActiveRun
<1>4. QED
  BY <1>2, <1>3

LEMMA ActiveBegun ==
  ASSUME IInv, NEW u \in Updaters, updater[u].step \in Holding \ {"executing"},
         updater'[u].step = "executing", updater'[u].run = updater[u].run,
         \A v \in Updaters \ {u} : updater'[v] = updater[v]
  PROVE  ActiveRun = 0 /\ ActiveRun' = updater[u].run
<1>1. \A v \in Updaters : ~At(v, "executing")
  BY DEF IInv, Progress, OneHolder, At, Holding, Steps
<1>2. u \in Executing' /\ \A v \in Executing' : v = u
  BY <1>1 DEF Executing, At
<1>3. Executing' # {} /\ (CHOOSE v \in Executing' : TRUE) = u
  BY <1>2, OnlyOne
<1>4. ActiveRun' = updater'[u].run
  BY <1>3 DEF ActiveRun
<1>5. QED
  BY <1>1, <1>4, ActiveIs

LEMMA ActiveEnded ==
  ASSUME IInv, NEW u \in Updaters, updater[u].step = "executing",
         updater'[u].step # "executing",
         \A v \in Updaters \ {u} : updater'[v] = updater[v]
  PROVE  /\ ActiveRun = updater[u].run /\ ActiveRun # 0
         /\ ActiveRun' = 0
<1>1. ActiveRun = updater[u].run
  BY ActiveIs DEF At
<1>2. updater[u].run # 0
  BY DEF IInv, Progress, StepFits
<1>3. \A v \in Updaters \ {u} : ~At(v, "executing")
  BY DEF IInv, Progress, OneHolder, At, Holding, Steps
<1>4. Executing' = {}
  BY <1>3 DEF Executing, At
<1>5. QED
  BY <1>1, <1>2, <1>4 DEF ActiveRun

(* A step of the lifecycle, or none.                                       *)
Maps == [Lifecycle!Next]_(Lifecycle!vars)

LEMMA Stutters ==
  ASSUME IInv, runs' = runs, UNCHANGED <<approval, spent>>,
         \A u \in Updaters :
           updater[u].step = "executing" \/ updater'[u].step = "executing"
             => /\ updater'[u].step = updater[u].step
                /\ updater'[u].run = updater[u].run
  PROVE  Maps
BY StoreUnwritten, PermitsKept, ActiveKept DEF Maps, Lifecycle!vars

(* An operation of the authority withdraws permits, or does nothing.       *)
LEMMA AuthorityMaps ==
  ASSUME IInv, Authority
  PROVE  Maps
<1> DEFINE R == {r \in RunIds : Permit(r) = "given" /\ approval'[r] = NoToken}
<1>1. AuthorityEffect
  BY AuthorityHasEffect DEF IInv
<1>2. /\ Phase' = Phase /\ Manual' = Manual
      /\ ActiveRun' = ActiveRun
  BY <1>1, StoreUnwritten, ActiveKept DEF AuthorityEffect
<1>3. \A r \in R : Permits[r] = "given"
  BY DEF Permits
<1>4. Permits' = [r \in RunIds |-> IF r \in R THEN "none" ELSE Permits[r]]
  <2>1. ASSUME NEW r \in RunIds
        PROVE  Permit(r)' = IF r \in R THEN "none" ELSE Permit(r)
    <3>1. spent'[r] = spent[r] /\ approval'[r] \in {approval[r], NoToken}
      BY <1>1 DEF AuthorityEffect
    <3>2. QED
      BY <3>1 DEF Permit
  <2>2. QED
    BY <2>1 DEF Permits
<1>5. R \in SUBSET RunIds
  OBVIOUS
<1> HIDE DEF R
<1>6. Lifecycle!Withdraw(R)
  BY <1>2, <1>3, <1>4 DEF Lifecycle!Withdraw
<1>7. QED
  BY <1>5, <1>6 DEF Maps, Lifecycle!Next

LEMMA ServerMaps ==
  ASSUME IInv, Server
  PROVE  Maps
<1>1. ASSUME NEW t \in Tokens, NEW selection \in Selections, PostRun(t, selection)
      PROVE  Maps
  <2>1. t \in live /\ Create("manual", session[t].user, selection)
    BY <1>1 DEF PostRun, AuthorizeRun, SessionValid
  <2>2. session[t].user \in Users \cup {System}
        /\ selection \in Selections \cup {NoSelection}
    BY <2>1, LiveSession DEF IInv
  <2>3. /\ created + 1 \in RunIds
        /\ Phase[created + 1] = "absent"
        /\ Phase' = [Phase EXCEPT ![created + 1] = "queued"]
        /\ Manual' = Manual \cup {created + 1} \/ Manual' = Manual
    BY <2>1, <2>2, PhaseCreated
  <2>4. Permits' = Permits /\ ActiveRun' = ActiveRun
    BY <1>1, PermitsKept, ActiveKept DEF PostRun, AuthorizeRun
  <2>5. Lifecycle!Ask(created + 1)
    BY <2>3, <2>4 DEF Lifecycle!Ask
  <2>6. QED
    BY <2>3, <2>5 DEF Maps, Lifecycle!Next
<1>2. CASE HelperApproves
  <2>0. PICK r : r = helper.run
    OBVIOUS
  <2>1. /\ ~LockFree
        /\ approval' = [approval EXCEPT ![r] = helper.token]
        /\ UNCHANGED <<runs, spent, updater>>
    BY <1>2, <2>0 DEF HelperApproves, RecordApproval, storeVars
  <2>2. helper \in [run : 0..MaxRuns, token : Tokens \cup {NoToken}]
    BY DEF IInv, TypeOK, AuthTypeOK
  <2>3. r # 0 /\ helper.token # NoToken
    BY <2>0, <2>1, <2>2 DEF IInv, Requests, LockFree, Idle
  <2>4. r \in RunIds
    BY <2>0, <2>2, <2>3, MaxRunsAssumption DEF RunIds
  <2>5. /\ runs[r].trigger = "manual"
        /\ approval[r] = NoToken /\ spent[r] = 0
    BY <2>0, <2>4 DEF IInv, Requests
  <2>6. approval'[r] # NoToken /\ \A q \in RunIds : q # r => approval'[q] = approval[q]
    BY <2>1, <2>3, <2>4 DEF IInv, TypeOK, AuthTypeOK
  <2>7. Permit(r) = "none" /\ Permit(r)' = "given"
    BY <2>1, <2>5, <2>6 DEF Permit
  <2>8. \A q \in RunIds : q # r => Permit(q)' = Permit(q)
    BY <2>1, <2>6 DEF Permit
  <2>9. Permits[r] = "none" /\ Permits' = [Permits EXCEPT ![r] = "given"]
    BY <2>4, <2>7, <2>8 DEF Permits
  <2>10. r \in Manual
    BY <2>4, <2>5 DEF Manual
  <2>11. Phase' = Phase /\ Manual' = Manual /\ ActiveRun' = ActiveRun
    BY <2>1, StoreUnwritten, ActiveKept
  <2>12. Lifecycle!Give(r)
    BY <2>9, <2>10, <2>11 DEF Lifecycle!Give
  <2>13. QED
    BY <2>4, <2>12 DEF Maps, Lifecycle!Next
<1>3. ASSUME NEW r \in RunIds, StartFails(r)
      PROVE  Maps
  <2>1. UNCHANGED <<approval, spent, updater>> /\ request[r] = "approved"
    BY <1>3 DEF StartFails, authVars
  <2>2. CASE Update(r, "failed")
    <3>1. /\ Phase' = [Phase EXCEPT ![r] = "failed"]
          /\ Manual' = Manual
      BY <2>2, UpdateEffect, PhaseWritten DEF IInv
    <3>2. Permits' = Permits /\ ActiveRun' = ActiveRun
      BY <2>1, PermitsKept, ActiveKept
    <3>3. Phase[r] = "queued"
      BY <2>1 DEF IInv, Requests, Phase
    <3>4. Lifecycle!Refuse(r, "failed")
      BY <3>1, <3>2, <3>3 DEF Lifecycle!Refuse
    <3>5. QED
      BY <3>4 DEF Maps, Lifecycle!Next
  <2>3. CASE UNCHANGED storeVars
    BY <2>1, <2>3, Stutters DEF storeVars
  <2>4. QED
    BY <1>3, <2>2, <2>3 DEF StartFails
<1>4. CASE HelperCrash \/ \E r \in RunIds : ServerCrash(r)
  BY <1>4, Stutters DEF HelperCrash, HelperKilled, ServerCrash, storeVars, authVars
<1>5. ASSUME NEW u \in Updaters, NEW r \in RunIds, StartTrigger(u, r)
      PROVE  Maps
  <2>1. /\ UNCHANGED <<runs, approval, spent>>
        /\ updater[u].step = "idle"
        /\ updater' = [updater EXCEPT ![u] = Invoked("manual", r)]
    BY <1>5 DEF StartTrigger, Invoke, storeVars, authVars
  <2>2. r \in 0..MaxRuns
    BY Parts DEF IInv, RunIds
  <2>3. /\ updater'[u] = Invoked("manual", r)
        /\ \A v \in Updaters \ {u} : updater'[v] = updater[v]
    BY <2>1, <2>2, InvokedType, UpdaterSet DEF IInv
  <2>4. QED
    BY <2>1, <2>3, Stutters DEF Invoked
<1>6. QED
  BY <1>1, <1>2, <1>3, <1>4, <1>5 DEF Server

(* An updater that neither begins nor ends an execution, and writes no run.*)
LEMMA MoveMaps ==
  ASSUME IInv, NEW u \in Updaters,
         updater[u].step # "executing", updater'[u].step # "executing",
         \A v \in Updaters \ {u} : updater'[v] = updater[v],
         UNCHANGED <<runs, approval, spent>>
  PROVE  Maps
BY Stutters

(* The start of a run is authorized.                                       *)
LEMMA UseMaps ==
  ASSUME IInv, NEW u \in Updaters,
         updater[u].step \in {"authorizing", "verifying"},
         Goto(u, "cleared"), runs' = runs,
         spent' = [spent EXCEPT ![updater[u].run] = @ + 1],
         \A q \in RunIds : q # updater[u].run => approval'[q] = approval[q],
         spent[updater[u].run] = 0,
         (runs[updater[u].run].trigger = "manual")
           <=> (approval[updater[u].run] # NoToken)
  PROVE  Maps
<1> DEFINE r == updater[u].run
<1>1. runs[r].status = "queued" /\ r # 0
  BY DEF IInv, Progress, StepFits
<1>2. r \in RunIds
  BY <1>1, RunInHand
<1>3. Permits' = [Permits EXCEPT ![r] = "used"]
  BY <1>2, PermitUsed DEF IInv
<1>4. Permits[r] = IF r \in Manual THEN "given" ELSE "none"
  BY <1>2 DEF Permits, Permit, Manual
<1>5. Phase[r] = "queued" /\ Phase' = Phase /\ Manual' = Manual
  BY <1>1, <1>2, StoreUnwritten DEF Phase
<1>6. ActiveRun' = ActiveRun
  BY UpdaterStep, ActiveKept DEF IInv, Steps
<1>7. Lifecycle!Use(r)
  BY <1>3, <1>4, <1>5, <1>6 DEF Lifecycle!Use
<1>8. QED
  BY <1>2, <1>7 DEF Maps, Lifecycle!Next

(* A write of the run in hand that ends it, or the end of a process whose  *)
(* run is stored no more: refused, completed or given up.                  *)
LEMMA ResultMaps ==
  ASSUME IInv, NEW u \in Updaters, NEW status \in Terminal,
         UNCHANGED <<approval, spent>>,
         updater[u].step = "executing" \/ /\ updater[u].step = "refused"
                                          /\ status = "blocked",
         Exit(u) \/ Goto(u, "publishing"),
         Written(updater[u].run, status) \/ runs' = runs
  PROVE  Maps
<1> DEFINE r == updater[u].run
<1>1. /\ updater'[u].step \in {"idle", "publishing"}
      /\ \A v \in Updaters \ {u} : updater'[v] = updater[v]
  BY ExitFits, UpdaterStep DEF IInv, Steps
<1>2. Permits' = Permits
  BY PermitsKept
<1>3. CASE updater[u].step = "executing"
  <2>1. ActiveRun = r /\ ActiveRun # 0 /\ ActiveRun' = 0
    BY <1>1, <1>3, ActiveEnded
  <2>2. CASE Written(r, status)
    <3>1. Phase' = [Phase EXCEPT ![r] = status] /\ Manual' = Manual
      BY <2>2, PhaseWritten
    <3>2. status \in Lifecycle!Results
      BY DEF Terminal, Lifecycle!Results
    <3>3. Lifecycle!End(status)
      BY <1>2, <2>1, <3>1 DEF Lifecycle!End
    <3>4. QED
      BY <3>2, <3>3 DEF Maps, Lifecycle!Next
  <2>3. CASE runs' = runs
    <3>1. Lifecycle!Abandon
      BY <1>2, <2>1, <2>3, StoreUnwritten DEF Lifecycle!Abandon
    <3>2. QED
      BY <3>1 DEF Maps, Lifecycle!Next
  <2>4. QED
    BY <2>2, <2>3
<1>4. CASE updater[u].step = "refused" /\ status = "blocked"
  <2>1. ActiveRun' = ActiveRun
    BY <1>1, <1>4, ActiveKept
  <2>2. CASE Written(r, status)
    <3>1. /\ r \in RunIds
          /\ Phase' = [Phase EXCEPT ![r] = "blocked"] /\ Manual' = Manual
      BY <1>4, <2>2, PhaseWritten
    <3>2. Phase[r] = "queued"
      BY <1>4, <3>1 DEF IInv, Progress, StepFits, Phase
    <3>3. Lifecycle!Refuse(r, "blocked")
      BY <1>2, <2>1, <3>1, <3>2 DEF Lifecycle!Refuse
    <3>4. QED
      BY <3>1, <3>3 DEF Maps, Lifecycle!Next
  <2>3. CASE runs' = runs
    BY <1>1, <1>4, <2>3, MoveMaps
  <2>4. QED
    BY <2>2, <2>3
<1>5. QED
  BY <1>3, <1>4

LEMMA MarkRunningMaps ==
  ASSUME IInv, NEW u \in Updaters, MarkRunning(u)
  PROVE  Maps
<1> DEFINE r == updater[u].run
<1>1. /\ updater[u].step = "cleared" /\ UNCHANGED <<approval, spent>>
      /\ Record(u, "running", "executing")
  BY DEF MarkRunning, At, authVars
<1>2. runs[r].status = "queued" /\ spent[r] = 1
  BY <1>1 DEF IInv, Progress, StepFits
<1>3. CASE Stored(r)
  <2>1. Update(r, "running") /\ Goto(u, "executing")
    BY <1>1, <1>3 DEF Record
  <2>2. /\ r \in RunIds
        /\ Phase' = [Phase EXCEPT ![r] = "running"] /\ Manual' = Manual
    BY <2>1, UpdateEffect, PhaseWritten DEF IInv
  <2>3. /\ updater'[u].step = "executing" /\ updater'[u].run = r
        /\ \A v \in Updaters \ {u} : updater'[v] = updater[v]
    BY <2>1, UpdaterStep DEF IInv, Steps
  <2>4. ActiveRun = 0 /\ ActiveRun' = r
    BY <1>1, <2>3, ActiveBegun DEF Holding, Steps
  <2>5. Phase[r] = "queued" /\ Permits[r] = "used"
    BY <1>2, <2>2 DEF Phase, Permits, Permit
  <2>6. Permits' = Permits
    BY <1>1, PermitsKept
  <2>7. Lifecycle!Begin(r)
    BY <2>2, <2>4, <2>5, <2>6 DEF Lifecycle!Begin
  <2>8. QED
    BY <2>2, <2>7 DEF Maps, Lifecycle!Next
<1>4. CASE ~Stored(r)
  <2>1. runs' = runs /\ Exit(u)
    BY <1>1, <1>4 DEF Record, storeVars
  <2>2. QED
    BY <1>1, <2>1, ExitFits, MoveMaps
<1>5. QED
  BY <1>3, <1>4

LEMMA ExecuteMaps ==
  ASSUME IInv, NEW u \in Updaters, Execute(u)
  PROVE  Maps
<1> DEFINE r == updater[u].run
<1>1. CASE AcquireLock(u)
  BY <1>1, UpdaterStep, MoveMaps
     DEF AcquireLock, Goto, IInv, Steps, storeVars, authVars
<1>2. CASE CreateScheduled(u)
  <2>1. /\ Create("scheduled", System, policy.selection)
        /\ updater[u].step = "locked"
        /\ updater' = [updater EXCEPT ![u].run = created + 1]
        /\ UNCHANGED <<approval, spent>>
    BY <1>2 DEF CreateScheduled, At, authVars
  <2>2. policy.selection \in Selections \cup {NoSelection}
    BY DEF IInv, TypeOK, AuthTypeOK, Policy
  <2>3. /\ created + 1 \in RunIds
        /\ Phase[created + 1] = "absent"
        /\ Phase' = [Phase EXCEPT ![created + 1] = "queued"]
        /\ Manual' = Manual \cup {created + 1} \/ Manual' = Manual
    BY <2>1, <2>2, PhaseCreated
  <2>4. created + 1 \in 0..MaxRuns
    BY <2>3, Parts DEF IInv, RunIds
  <2>5. ActiveRun' = ActiveRun
    BY <2>1, <2>4, RunUpdaterSet, ActiveKept DEF IInv
  <2>6. Lifecycle!Ask(created + 1)
    BY <2>1, <2>3, <2>5, PermitsKept DEF Lifecycle!Ask
  <2>7. QED
    BY <2>3, <2>6 DEF Maps, Lifecycle!Next
<1>3. CASE LoadRun(u)
  <2>1. /\ updater[u].step = "locked" /\ UNCHANGED <<runs, approval, spent>>
        /\ Goto(u, "authorizing") \/ Exit(u)
    BY <1>3 DEF LoadRun, At, storeVars, authVars
  <2>2. QED
    BY <2>1, UpdaterStep, ExitFits, MoveMaps DEF IInv, Steps
<1>4. CASE ConsumeApproval(u)
  <2>1. /\ updater[u].step = "authorizing" /\ updater[u].trigger = "manual"
        /\ runs' = runs
    BY <1>4 DEF ConsumeApproval, At, storeVars
  <2>2. runs[r].trigger = "manual" /\ r # 0
    BY <2>1 DEF IInv, Progress, StepFits
  <2>3. r \in RunIds
    BY <2>1, <2>2, RunInHand
  <2>4. CASE ConsumeRun(r) /\ Goto(u, "cleared")
    <3>1. approval[r] # NoToken /\ spent[r] = 0
      BY <2>3, <2>4 DEF ConsumeRun, Approved, IInv, Approvals
    <3>2. \A q \in RunIds : q # r => approval'[q] = approval[q]
      BY <2>3, <2>4 DEF ConsumeRun, IInv, TypeOK, AuthTypeOK
    <3>3. QED
      BY <2>1, <2>2, <2>4, <3>1, <3>2, UseMaps DEF ConsumeRun
  <2>5. CASE Goto(u, "refused") /\ UNCHANGED authVars
    BY <2>1, <2>5, UpdaterStep, MoveMaps DEF IInv, Steps, authVars
  <2>6. QED
    BY <1>4, <2>4, <2>5 DEF ConsumeApproval
<1>5. CASE ReadPolicy(u)
  BY <1>5, ReadPolicyUpdater, MoveMaps DEF ReadPolicy, At, IInv, storeVars, authVars
<1>6. CASE VerifyPolicy(u)
  <2>1. /\ updater[u].step = "verifying"
        /\ UNCHANGED <<runs, approval>>
    BY <1>6 DEF VerifyPolicy, At, storeVars
  <2>2. /\ runs[r].trigger = "scheduled" /\ r # 0 /\ spent[r] = 0
    BY <2>1 DEF IInv, Progress, StepFits
  <2>3. r \in RunIds
    BY <2>1, <2>2, RunInHand
  <2>4. approval[r] = NoToken
    BY <2>2, <2>3 DEF IInv, Approvals
  <2>5. CASE Goto(u, "cleared") /\ spent' = [spent EXCEPT ![r] = @ + 1]
    BY <2>1, <2>2, <2>4, <2>5, UseMaps
  <2>6. CASE Goto(u, "refused") /\ UNCHANGED spent
    BY <2>1, <2>6, UpdaterStep, MoveMaps DEF IInv, Steps
  <2>7. QED
    BY <1>6, <2>5, <2>6 DEF VerifyPolicy
<1>7. CASE Refuse(u)
  <2>1. updater[u].step = "refused" /\ Record(u, "blocked", "publishing")
    BY <1>7 DEF Refuse, At
  <2>2. Written(r, "blocked") \/ runs' = runs
    BY <2>1, UpdateEffect DEF Record, IInv, storeVars
  <2>3. QED
    BY <1>7, <2>1, <2>2, SomeStatuses, ResultMaps DEF Refuse, Record, authVars
<1>8. CASE MarkRunning(u)
  BY <1>8, MarkRunningMaps
<1>9. ASSUME NEW outcome \in Outcomes, FinishRun(u, outcome)
      PROVE  Maps
  <2>1. updater[u].step = "executing" /\ Record(u, outcome, "publishing")
    BY <1>9 DEF FinishRun, At
  <2>2. Written(r, outcome) \/ runs' = runs
    BY <2>1, UpdateEffect DEF Record, IInv, storeVars
  <2>3. QED
    BY <1>9, <2>1, <2>2, SomeStatuses, ResultMaps DEF FinishRun, Record, authVars
<1>10. CASE Publish(u)
  <2>1. /\ updater[u].step = "publishing" /\ Exit(u)
        /\ UNCHANGED <<approval, spent>>
    BY <1>10 DEF Publish, At, authVars
  <2>2. Phase' = Phase /\ Manual' = Manual
    <3>1. CASE UNCHANGED storeVars
      BY <3>1, StoreUnwritten DEF storeVars
    <3>2. CASE Update(r, runs[r].status)
      <4>1. r \in RunIds /\ Phase' = [Phase EXCEPT ![r] = runs[r].status]
            /\ Manual' = Manual
        BY <3>2, UpdateEffect, PhaseWritten DEF IInv
      <4>2. QED
        BY <4>1 DEF Phase
    <3>3. QED
      BY <1>10, <3>1, <3>2 DEF Publish
  <2>3. ActiveRun' = ActiveRun
    BY <2>1, ExitFits, ActiveKept
  <2>4. QED
    BY <2>1, <2>2, <2>3, PermitsKept DEF Maps, Lifecycle!vars
<1>11. QED
  BY <1>1, <1>2, <1>3, <1>4, <1>5, <1>6, <1>7, <1>8, <1>9, <1>10 DEF Execute

LEMMA InvocationMaps ==
  ASSUME IInv, NEW u \in Updaters, Invocation(u)
  PROVE  Maps
<1>1. ASSUME NEW trigger \in {"manual", "scheduled"}, NEW r \in 0..MaxRuns,
             updater[u].step = "idle",
             updater' = [updater EXCEPT ![u] = Invoked(trigger, r)],
             UNCHANGED <<runs, approval, spent>>
      PROVE  Maps
  BY <1>1, InvokedType, UpdaterSet, MoveMaps DEF Invoked, IInv
<1>2. ASSUME NEW r \in RunIds, Retrigger(u, r)
      PROVE  Maps
  <2>1. r \in 0..MaxRuns
    BY Parts DEF IInv, RunIds
  <2>2. QED
    BY <1>1, <1>2, <2>1 DEF Retrigger, Invoke, storeVars, authVars
<1>3. CASE TimerFires(u)
  <2>1. /\ updater[u].step = "idle"
        /\ updater' = [updater EXCEPT ![u] = Invoked("scheduled", 0)]
        /\ UNCHANGED <<runs, approval, spent>>
    BY <1>3 DEF TimerFires, storeVars, authVars
  <2>2. 0 \in 0..MaxRuns
    BY MaxRunsAssumption
  <2>3. QED
    BY <1>1, <2>1, <2>2
<1>4. CASE UpdaterCrash(u)
  <2>1. Exit(u) /\ UNCHANGED <<runs, approval, spent>>
    BY <1>4 DEF UpdaterCrash, Killed, storeVars, authVars
  <2>2. CASE updater[u].step = "executing"
    BY <2>1, <2>2, SomeStatuses, ResultMaps
  <2>3. CASE updater[u].step # "executing"
    BY <2>1, <2>3, ExitFits, MoveMaps
  <2>4. QED
    BY <2>2, <2>3
<1>5. CASE CrashInUpdate(u)
  <2>1. Exit(u) /\ UNCHANGED <<approval, spent>>
    BY <1>5 DEF CrashInUpdate, Killed, authVars
  <2>2. CASE updater[u].step = "refused" /\ UpdateTorn(updater[u].run, "blocked")
    BY <2>1, <2>2, UpdateEffect, SomeStatuses, ResultMaps DEF IInv
  <2>3. ASSUME NEW o \in Outcomes, updater[u].step = "executing",
               UpdateTorn(updater[u].run, o)
        PROVE  Maps
    BY <2>1, <2>3, UpdateEffect, SomeStatuses, ResultMaps DEF IInv
  <2>4. QED
    BY <1>5, <2>2, <2>3 DEF CrashInUpdate, At
<1>6. QED
  BY <1>2, <1>3, <1>4, <1>5 DEF Invocation

LEMMA InitMaps == Init => Lifecycle!Init
<1> SUFFICES ASSUME Init PROVE Lifecycle!Init
  OBVIOUS
<1>1. Phase = [r \in RunIds |-> "absent"] /\ Manual = {}
  BY DEF Init, StoreInit, Phase, Manual
<1>2. Permits = [r \in RunIds |-> "none"]
  BY DEF Init, AuthInit, Permits, Permit
<1>3. ActiveRun = 0
  BY DEF Init, ServiceInit, ActiveRun, Executing, At, Off
<1>4. QED
  BY <1>1, <1>2, <1>3 DEF Lifecycle!Init

LEMMA NextMaps == IInv /\ [Next]_vars => [Lifecycle!Next]_(Lifecycle!vars)
<1> SUFFICES ASSUME IInv, [Next]_vars PROVE Maps
  BY DEF Maps
<1>1. CASE UNCHANGED vars
  BY <1>1, Stutters DEF vars, storeVars, authVars, serviceVars
<1>2. QED
  BY <1>1, AuthorityMaps, ServerMaps, ExecuteMaps, InvocationMaps DEF Next

(* Whatever processes carry a run out, are killed or are invoked again, it *)
(* is asked for, permitted, begun and ended as RunLifecycle says.          *)
THEOREM Refinement == Spec => ImplementsLifecycle
BY InitMaps, NextMaps, Invariance, PTL
   DEF Spec, ImplementsLifecycle, Lifecycle!Spec
=============================================================================
