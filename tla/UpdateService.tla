---------------------------- MODULE UpdateService ----------------------------
(***************************************************************************)
(* How an update run is asked for, approved, started and carried out:      *)
(*                                                                         *)
(*   - the management server (internal/ade/server.go) has the helper       *)
(*     authorize a run, then starts the privileged trigger for it;         *)
(*   - the trigger and the daily timer run `ade environment update` under  *)
(*     one flock (deploy/agent-environment/ade-environment-update.wrapper);*)
(*   - UpdateCoordinator.execute (ade/environment.py, by ade/cli.py;       *)
(*     internal/ade/environment_runtime.go, by cmd/ade/main.go) reads the  *)
(*     run, has it authorized, and carries it out.                         *)
(*                                                                         *)
(* One updater is one such process.  What the commands of a run do is the  *)
(* subject of UpdateExecution; here a run ends in some terminal status.    *)
(* A crash is any kill of the updater: power, SIGKILL, TimeoutStartSec.    *)
(***************************************************************************)
EXTENDS EnvironmentAuthority

CONSTANTS
  Updaters,   \* the updater processes that may exist at a time
  MaxCrashes, \* bound: how many processes are killed
  MaxTimers,  \* bound: how often the daily timer fires
  MaxRetries  \* bound: how often the trigger is invoked again by hand

ASSUME FaultBoundAssumption ==
  MaxCrashes \in Nat /\ MaxTimers \in Nat /\ MaxRetries \in Nat

VARIABLES
  request,     \* where the server is with the request that created each run
  updater,     \* each updater process
  started,     \* history variable: how often each run's commands were begun
  interrupted, \* history variable: runs whose updater was killed in mid-run
  overtaken,   \* history variable: the scheduled runs each policy came too
               \* late for, since their updater had made its check
  budget       \* what is left of each bound on faults and invocations

serviceVars ==
  <<request, updater, started, interrupted, overtaken, budget>>
vars == <<storeVars, authVars, serviceVars>>

Stages == {"none", "authorizing", "approved", "answered"}

Steps == {"idle", "waiting", "locked", "authorizing", "verifying", "refused",
          "cleared", "executing", "publishing"}

(* The steps taken with the updater lock held.                             *)
Holding == Steps \ {"idle", "waiting"}

Updater == [step : Steps, trigger : {"manual", "scheduled"}, run : 0..MaxRuns,
            seen : Policy]

ServiceTypeOK ==
  /\ request \in [RunIds -> Stages]
  /\ updater \in [Updaters -> Updater]
  /\ started \in [RunIds -> Nat]
  /\ interrupted \subseteq RunIds
  /\ overtaken \in [0..MaxPolicies -> SUBSET RunIds]
  /\ budget \in [crashes : Nat, timers : Nat, retries : Nat]

TypeOK == StoreTypeOK /\ AuthTypeOK /\ ServiceTypeOK

NoPolicy == [id |-> 0, enabled |-> FALSE, selection |-> NoSelection]

Off == [step |-> "idle", trigger |-> "manual", run |-> 0, seen |-> NoPolicy]

Invoked(trigger, r) ==
  [step |-> "waiting", trigger |-> trigger, run |-> r, seen |-> NoPolicy]

ServiceInit ==
  /\ request = [r \in RunIds |-> "none"]
  /\ updater = [u \in Updaters |-> Off]
  /\ started = [r \in RunIds |-> 0]
  /\ interrupted = {}
  /\ overtaken = [p \in 0..MaxPolicies |-> {}]
  /\ budget = [crashes |-> MaxCrashes, timers |-> MaxTimers,
               retries |-> MaxRetries]

Init == StoreInit /\ AuthInit /\ ServiceInit

(* MaxRuns bounds new requests, never the scheduled run still to come of a *)
(* timer that has fired.                                                   *)
Room ==
  IF \E u \in Updaters : /\ updater[u].step # "idle"
                         /\ updater[u].trigger = "scheduled"
                         /\ updater[u].run = 0
  THEN created + 1 < MaxRuns
  ELSE created < MaxRuns

(***************************************************************************)
(* The management server: POST /api/v1/update-runs.                        *)
(***************************************************************************)
PostRun(t, selection) ==
  /\ Room
  /\ AuthorizeRun(t, selection)
  /\ request' = [request EXCEPT ![created + 1] = "authorizing"]
  /\ UNCHANGED <<updater, started, interrupted, overtaken, budget>>

HelperApproves ==
  /\ RecordApproval
  /\ request' = [request EXCEPT ![helper.run] = "approved"]
  /\ UNCHANGED <<storeVars, updater, started, interrupted, overtaken, budget>>

(* The helper is killed: the server answers 503 and starts no updater.     *)
HelperCrash ==
  /\ budget.crashes > 0
  /\ HelperKilled
  /\ request' = [request EXCEPT ![helper.run] = "answered"]
  /\ budget' = [budget EXCEPT !.crashes = @ - 1]
  /\ UNCHANGED <<storeVars, updater, started, interrupted, overtaken>>

Invoke(u, r) ==
  /\ updater[u].step = "idle"
  /\ updater' = [updater EXCEPT ![u] = Invoked("manual", r)]

StartTrigger(u, r) ==
  /\ request[r] = "approved"
  /\ Invoke(u, r)
  /\ request' = [request EXCEPT ![r] = "answered"]
  /\ UNCHANGED <<storeVars, authVars, started, interrupted, overtaken, budget>>

(* The trigger could not be started: FailRun, whatever the run's status.   *)
StartFails(r) ==
  /\ request[r] = "approved"
  /\ budget.crashes > 0
  /\ IF Stored(r) THEN Update(r, "failed") ELSE UNCHANGED storeVars
  /\ request' = [request EXCEPT ![r] = "answered"]
  /\ budget' = [budget EXCEPT !.crashes = @ - 1]
  /\ UNCHANGED <<authVars, updater, started, interrupted, overtaken>>

(* The server dies, or gives up on the helper, before it starts a trigger. *)
ServerCrash(r) ==
  /\ request[r] = "approved"
  /\ budget.crashes > 0
  /\ request' = [request EXCEPT ![r] = "answered"]
  /\ budget' = [budget EXCEPT !.crashes = @ - 1]
  /\ UNCHANGED <<storeVars, authVars, updater, started,
                 interrupted, overtaken>>

(***************************************************************************)
(* Invocations of the updater.                                             *)
(***************************************************************************)
(* The trigger is invoked by hand, for any run.  That its request has been *)
(* answered is an assumption on the person who does: neither the script nor*)
(* the sudoers rule asks for more than an id.                              *)
Retrigger(u, r) ==
  /\ r \in 1..created
  /\ request[r] \in {"none", "answered"}
  /\ budget.retries > 0
  /\ Invoke(u, r)
  /\ budget' = [budget EXCEPT !.retries = @ - 1]
  /\ UNCHANGED <<storeVars, authVars, request, started,
                 interrupted, overtaken>>

(* systemd starts the oneshot unit unless it is still active.              *)
TimerFires(u) ==
  /\ budget.timers > 0 /\ Room
  /\ updater[u].step = "idle"
  /\ \A v \in Updaters : updater[v].step # "idle" => updater[v].trigger = "manual"
  /\ updater' = [updater EXCEPT ![u] = Invoked("scheduled", 0)]
  /\ budget' = [budget EXCEPT !.timers = @ - 1]
  /\ UNCHANGED <<storeVars, authVars, request, started,
                 interrupted, overtaken>>

(* Mutant: the invocation does not wait for the lock.                      *)
AcquireLockNoWait(u) ==
  /\ updater[u].step = "waiting"
  /\ updater' = [updater EXCEPT ![u].step = "locked"]
  /\ UNCHANGED <<storeVars, authVars, request, started,
                 interrupted, overtaken, budget>>

(* flock /run/lock/agent-environment-update.lock                           *)
AcquireLock(u) ==
  /\ updater[u].step = "waiting"
  /\ \A v \in Updaters : updater[v].step \notin Holding
  /\ updater' = [updater EXCEPT ![u].step = "locked"]
  /\ UNCHANGED <<storeVars, authVars, request, started,
                 interrupted, overtaken, budget>>

(***************************************************************************)
(* One updater, with the lock held: main's update operation and Execute.   *)
(***************************************************************************)
At(u, step) == updater[u].step = step
Goto(u, step) == updater' = [updater EXCEPT ![u].step = step]
Exit(u) == updater' = [updater EXCEPT ![u] = Off]

(* A scheduled invocation creates its run from the policy it reads.        *)
CreateScheduled(u) ==
  /\ At(u, "locked") /\ updater[u].run = 0
  /\ Create("scheduled", System, policy.selection)
  /\ updater' = [updater EXCEPT ![u].run = created + 1]
  /\ UNCHANGED <<authVars, request, started, interrupted, overtaken, budget>>

(* Execute begins: the run must exist, have the invocation's trigger and   *)
(* be queued; otherwise the process ends with an error and changes nothing.*)
Startable(u) ==
  /\ Stored(updater[u].run)
  /\ runs[updater[u].run].trigger = updater[u].trigger
  /\ runs[updater[u].run].status = "queued"

(* Mutant: a run that cannot be started leaves its process with the lock.  *)
LoadRunHangs(u) ==
  /\ At(u, "locked") /\ updater[u].run # 0
  /\ Startable(u)
  /\ Goto(u, "authorizing")
  /\ UNCHANGED <<storeVars, authVars, request, started,
                 interrupted, overtaken, budget>>

LoadRun(u) ==
  /\ At(u, "locked") /\ updater[u].run # 0
  /\ IF Startable(u) THEN Goto(u, "authorizing") ELSE Exit(u)
  /\ UNCHANGED <<storeVars, authVars, request, started,
                 interrupted, overtaken, budget>>

(* A manual run: ConsumeRun decides, under the authorization lock.         *)
ConsumeApproval(u) ==
  /\ At(u, "authorizing") /\ updater[u].trigger = "manual"
  /\ LockFree
  /\ \/ ConsumeRun(updater[u].run) /\ Goto(u, "cleared")
     \/ /\ ~Approved(updater[u].run)
        /\ Goto(u, "refused")
        /\ UNCHANGED authVars
  /\ UNCHANGED <<storeVars, request, started, interrupted, overtaken, budget>>

(* A scheduled run: Execute reads the policy file once...                  *)
ReadPolicy(u) ==
  /\ At(u, "authorizing") /\ updater[u].trigger = "scheduled"
  /\ updater' = [updater EXCEPT ![u] = [@ EXCEPT !.step = "verifying",
                                                  !.seen = policy]]
  /\ UNCHANGED <<storeVars, authVars, request, started,
                 interrupted, overtaken, budget>>

(* Mutant: an enabled policy that did not change accepts any run.          *)
PolicyEnabled(u) == updater[u].seen = policy /\ policy.enabled

(* ... VerifyPolicy reads it again, and the run must match what was read.  *)
PolicyAccepts(u) ==
  /\ updater[u].seen = policy
  /\ policy.enabled
  /\ runs[updater[u].run].selection = updater[u].seen.selection

VerifyPolicy(u) ==
  /\ At(u, "verifying")
  /\ \/ /\ PolicyAccepts(u)
        /\ Goto(u, "cleared")
        /\ spent' = [spent EXCEPT ![updater[u].run] = @ + 1]
     \/ /\ ~PolicyAccepts(u)
        /\ Goto(u, "refused")
        /\ UNCHANGED spent
  /\ UNCHANGED <<account, session, live, approval, policy, helper, asked>>
  /\ UNCHANGED <<storeVars, request, started, interrupted, overtaken, budget>>

(* Every write of the run fails, and ends the process, once newer runs     *)
(* have displaced it from the store.                                       *)
Record(u, status, next) ==
  IF Stored(updater[u].run)
  THEN Update(updater[u].run, status) /\ Goto(u, next)
  ELSE UNCHANGED storeVars /\ Exit(u)

(* Mutant: a status that is none of the terminal ones.                     *)
RefuseAsRefused(u) ==
  /\ At(u, "refused")
  /\ Record(u, "refused", "publishing")
  /\ UNCHANGED <<authVars, request, started, interrupted, overtaken, budget>>

Refuse(u) ==
  /\ At(u, "refused")
  /\ Record(u, "blocked", "publishing")
  /\ UNCHANGED <<authVars, request, started, interrupted, overtaken, budget>>

MarkRunning(u) ==
  /\ At(u, "cleared")
  /\ Record(u, "running", "executing")
  /\ started' = IF Stored(updater[u].run)
                THEN [started EXCEPT ![updater[u].run] = @ + 1] ELSE started
  /\ UNCHANGED <<authVars, request, interrupted, overtaken, budget>>

Outcomes == Terminal \ {"blocked"}

FinishRun(u, outcome) ==
  /\ At(u, "executing")
  /\ Record(u, outcome, "publishing")
  /\ UNCHANGED <<authVars, request, started, interrupted, overtaken, budget>>

(* Mutant: the update after publication writes a status of its own.        *)
PublishCompletes(u) ==
  /\ At(u, "publishing")
  /\ UNCHANGED storeVars \/ Update(updater[u].run, "completed")
  /\ Exit(u)
  /\ UNCHANGED <<authVars, request, started, interrupted, overtaken, budget>>

(* PublishSnapshot; when it has a result, the run is updated once more.    *)
Publish(u) ==
  /\ At(u, "publishing")
  /\ \/ UNCHANGED storeVars
     \/ Update(updater[u].run, runs[updater[u].run].status)
  /\ Exit(u)
  /\ UNCHANGED <<authVars, request, started, interrupted, overtaken, budget>>

(* An updater is killed; the kernel releases its locks.                    *)
Killed(u) ==
  /\ budget.crashes > 0
  /\ Exit(u)
  /\ budget' = [budget EXCEPT !.crashes = @ - 1]
  /\ interrupted' = IF At(u, "executing")
                    THEN interrupted \cup {updater[u].run} ELSE interrupted
  /\ UNCHANGED <<authVars, request, started, overtaken>>

UpdaterCrash(u) ==
  /\ ~At(u, "idle")
  /\ Killed(u)
  /\ UNCHANGED storeVars

(* The kill falls inside Update, between the rename and the log line.      *)
CrashInUpdate(u) ==
  /\ \/ At(u, "refused") /\ UpdateTorn(updater[u].run, "blocked")
     \/ At(u, "executing") /\ \E o \in Outcomes : UpdateTorn(updater[u].run, o)
  /\ Killed(u)

(***************************************************************************)
(* Users, root and time: the operations of the authority.                  *)
(***************************************************************************)
Faulty(crashed) ==
  IF crashed
  THEN budget.crashes > 0 /\ budget' = [budget EXCEPT !.crashes = @ - 1]
  ELSE UNCHANGED budget

AuthorityOnly ==
  UNCHANGED <<storeVars, request, updater, started, interrupted, overtaken>>

(* The scheduled runs that nothing but a kill keeps from their commands.   *)
ClearedRuns ==
  {updater[u].run : u \in {v \in Updaters : /\ At(v, "cleared")
                                           /\ updater[v].trigger = "scheduled"}}

FirstUse ==
  \E u \in Users, t \in Tokens, crashed \in BOOLEAN :
    Register(u, t, crashed) /\ Faulty(crashed) /\ AuthorityOnly

SignIn ==
  \E u \in Users, t \in Tokens :
    Login(u, t) /\ Faulty(FALSE) /\ AuthorityOnly

SignOut == \E t \in Tokens : Logout(t) /\ Faulty(FALSE) /\ AuthorityOnly

AccountChange ==
  \E u \in Users, role \in Roles, crashed \in BOOLEAN :
    SetAccount(u, role, crashed) /\ Faulty(crashed) /\ AuthorityOnly

SessionEnds == \E t \in Tokens : Expire(t) /\ Faulty(FALSE) /\ AuthorityOnly

PolicyChange ==
  \E t \in Tokens, enabled \in BOOLEAN, selection \in Selections :
    /\ SavePolicy(t, enabled, selection)
    /\ overtaken' = [overtaken EXCEPT ![policy.id + 1] = ClearedRuns]
    /\ UNCHANGED <<storeVars, request, updater, started, interrupted, budget>>

(***************************************************************************)
(* The specification.                                                      *)
(***************************************************************************)
Authority ==
  FirstUse \/ SignIn \/ SignOut \/ AccountChange \/ SessionEnds \/ PolicyChange

Server ==
  \/ \E t \in Tokens, selection \in Selections : PostRun(t, selection)
  \/ HelperApproves
  \/ HelperCrash
  \/ \E u \in Updaters, r \in RunIds : StartTrigger(u, r)
  \/ \E r \in RunIds : StartFails(r) \/ ServerCrash(r)

(* The steps an updater takes by itself once it has been invoked.          *)
Execute(u) ==
  \/ AcquireLock(u)
  \/ CreateScheduled(u)
  \/ LoadRun(u)
  \/ ConsumeApproval(u)
  \/ ReadPolicy(u)
  \/ VerifyPolicy(u)
  \/ Refuse(u)
  \/ MarkRunning(u)
  \/ \E outcome \in Outcomes : FinishRun(u, outcome)
  \/ Publish(u)

Invocation(u) ==
  \/ \E r \in RunIds : Retrigger(u, r)
  \/ TimerFires(u)
  \/ UpdaterCrash(u)
  \/ CrashInUpdate(u)

Next ==
  \/ Authority
  \/ Server
  \/ \E u \in Updaters : Execute(u) \/ Invocation(u)

Spec == Init /\ [][Next]_vars

(* The helper has a 30 s limit and the server's handler runs to its end;   *)
(* flock wakes a waiter when the holder ends, and a holder ends because    *)
(* every command it runs has a timeout.  Nothing makes users or timers act.*)
Fairness ==
  /\ WF_vars(HelperApproves)
  /\ WF_vars(\E u \in Updaters, r \in RunIds : StartTrigger(u, r))
  /\ \A u \in Updaters : WF_vars(Execute(u))

FairSpec == Spec /\ Fairness

(***************************************************************************)
(* Properties.                                                             *)
(***************************************************************************)
(* "It consumes each approval once" (deploy README): whatever is killed or *)
(* invoked again, a run is authorized to start at most once, by an         *)
(* approval or by the policy, and begun at most as often.                  *)
OneUseApproval ==
  \A r \in RunIds :
    /\ spent[r] <= 1
    /\ started[r] <= spent[r]

(* The store's Update has no guard on the status it replaces, yet an ended *)
(* run keeps its result: neither a second invocation, nor FailRun by the   *)
(* server, nor a publication update rewrites it.                           *)
TerminalIsFinal ==
  [][\A r \in RunIds :
       runs[r].status \in Terminal => runs'[r].status = runs[r].status]_vars

(* "Revocation or expiry blocks pending manual runs": when an approval is  *)
(* consumed, the very session that asked for the run is neither signed out *)
(* nor expired, and its account has not been set since it was issued, even *)
(* if SetAccount died before it could delete the session.                  *)
RevocationBlocks ==
  [][\A r \in RunIds :
       runs[r].trigger = "manual" /\ spent'[r] # spent[r] =>
         /\ asked[r] \in live
         /\ session[asked[r]].user = runs[r].by
         /\ account[runs[r].by].credential = session[asked[r]].credential
         /\ account[runs[r].by].role >= Operator]_vars

(* The policy "stops ... when an admin disables or replaces it" (deploy    *)
(* README), although a scheduled run carries the components of the policy  *)
(* at its creation and is begun some writes after the last look at it: the *)
(* commands of a scheduled run begin only for exactly the components of    *)
(* the policy in force, unless this policy was saved after the updater's   *)
(* check, and no other run outruns the same policy.                        *)
ReplacedPolicyStops ==
  [][\A r \in RunIds :
       runs[r].trigger = "scheduled" /\ started'[r] # started[r] =>
         \/ policy.enabled /\ runs[r].selection = policy.selection
         \/ overtaken[policy.id] = {r}]_vars

(* The log and the list never disagree on how a run ended, and an ended    *)
(* run is missing from the log only if its writer died in between.         *)
HistoryAgrees ==
  \A r \in RunIds :
    /\ \A i \in 1..Len(history[r]) : history[r][i] = runs[r].status
    /\ runs[r].status \in Terminal /\ r \notin torn => history[r] # <<>>

(* A run that is still stored as running is the run of the one updater     *)
(* that is executing, or of one that was killed.                           *)
RunningIsExecuted ==
  \A r \in RunIds :
    Stored(r) /\ runs[r].status = "running" =>
      \/ r \in interrupted
      \/ \E u \in Updaters : At(u, "executing") /\ updater[u].run = r

(* Commands are run by one updater at a time.                              *)
OneExecutor ==
  /\ \A u, v \in Updaters :
       At(u, "executing") /\ At(v, "executing") => u = v
  /\ RunningIsExecuted

(***************************************************************************)
(* The inductive invariant behind these properties.                        *)
(***************************************************************************)
Active(u) == updater[u].step # "idle"

(* Nothing is known of a run before it is created.                         *)
FreshRuns ==
  \A r \in RunIds :
    /\ runs[r].status = "absent" <=> r > created
    /\ r > created => /\ runs[r].trigger = "scheduled"
                      /\ request[r] = "none"
                      /\ asked[r] = NoToken /\ approval[r] = NoToken
                      /\ spent[r] = 0 /\ started[r] = 0

(* The helper works on the newest request, and until the server has        *)
(* answered a request no updater touches its run.                          *)
Requests ==
  /\ helper.run = 0 <=> helper.token = NoToken
  /\ \A r \in RunIds :
       /\ request[r] = "authorizing" <=> helper.run = r
       /\ request[r] \in {"authorizing", "approved"} =>
            /\ runs[r].trigger = "manual"
            /\ runs[r].status = "queued"
            /\ \A u \in Updaters : Active(u) => updater[u].run # r
       /\ request[r] = "authorizing" =>
            helper.token = asked[r] /\ approval[r] = NoToken /\ spent[r] = 0

(* A session keeps the credential it was issued for, and an approval is    *)
(* the unspent word of the session that asked for the run.                 *)
Approvals ==
  /\ \A t \in live : session[t] # NoCredential
  /\ \A r \in RunIds :
       /\ asked[r] # NoToken => /\ session[asked[r]] # NoCredential
                                /\ session[asked[r]].user = runs[r].by
       /\ approval[r] # NoToken => /\ approval[r] = asked[r]
                                   /\ runs[r].trigger = "manual"
                                   /\ spent[r] = 0

(* One updater is past the lock, and its step tells how far its run is.    *)
OneHolder ==
  \A u, v \in Updaters :
    updater[u].step \in Holding /\ updater[v].step \in Holding => u = v

StepFits(u) ==
  LET r    == updater[u].run
      step == updater[u].step
  IN /\ r <= created
     /\ step = "waiting" /\ updater[u].trigger = "scheduled" => r = 0
     /\ step \notin {"idle", "waiting", "locked"} => r # 0
     /\ step \in {"authorizing", "verifying", "refused", "cleared"}
          => /\ runs[r].status = "queued"
             /\ runs[r].trigger = updater[u].trigger
     /\ /\ step \in {"locked", "authorizing", "verifying"}
        /\ updater[u].trigger = "scheduled" /\ r # 0
        => spent[r] = 0 /\ runs[r].trigger = "scheduled"
     /\ step = "verifying" => updater[u].trigger = "scheduled"
     /\ step \in {"cleared", "executing"} => spent[r] = 1
     /\ step = "executing" => runs[r].status = "running"
     /\ step = "publishing" => runs[r].status \in Terminal

Progress == OneHolder /\ \A u \in Updaters : StepFits(u)

Counts ==
  \A r \in RunIds :
    /\ spent[r] <= 1
    /\ started[r] <= spent[r]
    /\ runs[r].status = "queued" => started[r] = 0

(* A run that was cleared is for the policy that its updater saw, which is *)
(* still in force or was replaced by one that came too late for this run   *)
(* and for no other.                                                       *)
Scheduled ==
  \A u \in Updaters :
    At(u, "cleared") /\ updater[u].trigger = "scheduled" =>
      /\ updater[u].seen.enabled
      /\ runs[updater[u].run].selection = updater[u].seen.selection
      /\ \/ updater[u].seen = policy
         \/ overtaken[policy.id] = {updater[u].run}

IInv ==
  /\ TypeOK
  /\ FreshRuns
  /\ Requests
  /\ Approvals
  /\ Progress
  /\ Counts
  /\ HistoryAgrees
  /\ RunningIsExecuted
  /\ Scheduled

(* What RunLifecycle speaks of, in terms of the service.                   *)
Phase  == [r \in RunIds |-> runs[r].status]
Manual == {r \in RunIds : runs[r].trigger = "manual"}

Permit(r) ==
  IF spent[r] > 0 THEN "used"
  ELSE IF approval[r] # NoToken THEN "given" ELSE "none"

Permits == [r \in RunIds |-> Permit(r)]

Executing == {u \in Updaters : At(u, "executing")}

ActiveRun ==
  IF Executing = {} THEN 0 ELSE updater[CHOOSE u \in Executing : TRUE].run

Lifecycle == INSTANCE RunLifecycle WITH
  Runs   <- RunIds,
  NoRun  <- 0,
  phase  <- Phase,
  manual <- Manual,
  permit <- Permits,
  active <- ActiveRun

(* The service keeps the promises of RunLifecycle.                         *)
ImplementsLifecycle == Lifecycle!Spec

(* Without faults every queued run is decided, or displaced from the store *)
(* by newer runs, however updaters contend for the lock.                   *)
EveryRunSettles ==
  \A r \in RunIds :
    runs[r].status = "queued" ~> runs[r].status \in Terminal \/ ~Stored(r)

(* "The updater ... records a completed, partial-failure, failed, or       *)
(* blocked result" (deploy README): a run that was begun ends in a result. *)
EveryStartedRunIsRecorded ==
  \A r \in RunIds :
    runs[r].status = "running" ~> runs[r].status \in Terminal \/ ~Stored(r)
=============================================================================
