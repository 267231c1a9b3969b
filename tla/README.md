# A TLA+ model of the agent development environment

This directory specifies what the repository runs: updates of a machine's
components, deployments of local commits, installations of the runtime, and the
jobs and services beside them. Every part is modelled with its failures: kills
between two steps, lost answers, overlapping processes, and people who edit the
same files.

Contents: [two implementations](#two-implementations),
[the system](#the-system), [the modules](#the-modules), [the runs](#the-runs),
[the proofs](#the-proofs),
[five disagreements](#five-disagreements-between-documentation-and-code),
[what is not modelled](#what-is-not-modelled).

## Two implementations

Production is the Go runtime, `cmd/ade` with `internal/ade`, and the shell
scripts in `deploy/agent-environment`. The Python package `ade` is its
predecessor. It is kept for the behaviour tests (`ade/cli.py:1`,
`README.md:34`, `docs/ade-runtime.md:158`), and the Go code is a port of it,
mostly function by function. `map` in `PROJECT.json` names the Python lines
where both do the same, and Go or shell lines where only these have the
behaviour: account registration, the server, the trigger and its units, the
index of Linear issues, and local deployments.

Where the two differ and it matters, the model has both:

| Subject | Python | Go | In the model |
|---|---|---|---|
| a command of a run times out | raises, and the loop ends | failed, and rolled back | both outcomes (`ExecutionLoop`) |
| the order cannot be computed | a failed run | an error that leaves the run running | a failed run (`Begin`), or a kill (`ExecutionLoop`) |
| an apply reads the Workflow Pack | once | for the plan and again for the stage | `Recapturing`, the processes that read twice (`Generations`) |
| the map of synchronised issues | read from its file | kept in memory | `Remembering`, the runs that keep it (`PlaneLinearSync`) |
| the backup that attach writes | once, whole | first without the original text | Python's; the Go variant is a listed hazard (`HostAttach`) |
| trending pages | a `TrendingService` per CLI call | one in the server | one that several threads share (`TrendingCache`) |
| a supervisor gets SIGINT | stops its child | passes it on | Python's (`SharedService`) |

## The system

`PROJECT.json` lists the hazards one by one at their lines.

| Part | State | Operations | What is hard | What makes it correct |
|---|---|---|---|---|
| Update-run store (`ade/environment.py` 414-500) | `runs.json`, the 100 newest runs; `runs.jsonl`, a line per ended run | `create`, `update`, `get`, `list`, each under `.runs.lock` | `update` has no condition on the status it replaces; runs are dropped whatever their status; the log line comes after the rename | list and log agree; a result is never replaced |
| Authorization store (`ade/environment_auth.py`, entered by `agent-environment-authorize`) | `accounts.json`, `sessions.json` with one-use approvals, `policy.json`, under one lock | `register`, `login`, `logout`, `set_account`, `save_policy`, `authorize_run`, `consume_run`, expiry | a run is visible before it is approved; two files are written one after the other | an approval is used once, and only while its session is in force |
| Server and updater (`internal/ade/server.go` 435-472, `UpdateCoordinator`, trigger, timer, wrapper) | the processes, one `flock` | a request, the trigger, `create_run`, `execute` | a kill between any two steps; a trigger repeated; the policy read three times | one updater at a time; a replaced policy starts no more runs; queued runs settle |
| Component order and loop (`_component_order`, `execute`) | none; the result of a run | ordering, commands, health probes, rollbacks | failures reach dependants at a distance; a timeout in the middle | dependencies first; no command after a failed prerequisite; a true verdict |
| Component allowlist | the manifest, edited by root | the checks of a request, a policy, a run | checked under one manifest, used under another | what was accepted is carried out whole, unless the manifest was edited |
| Plane and Linear (`ade/sync.py`) | `mappings.json`, Linear's issues, a lock | list, update, find by marker, create, save | an answer or a write lost between Linear and the file; listings cut short | one Linear issue per Plane issue; no older version; convergence |
| Runtime generations (`ade/core.py`) | releases, stages, `current`, `update.lock` | plan, apply, rollback | files are captured one by one, twice; kills around the rename | what is applied is what was shown; a stack of generations |
| Host attachment (`ade/hosts.py`) | a host's config, its backup, links to skills | `attach --apply` | people edit the config meanwhile; a link fails half-way | edits survive, the backup is the original, all or nothing |
| Web artifacts (`ade/publish.py`, `ade/environment_artifacts.py`) | published directories, a `flock` | publish, delete, list | two renames, without content in between; parallel uploads | old or new contents; the last contents are kept |
| Trending pages (`ade/trending.py`) | a cache, a lock per key | get | threads wait for the one that fetches, which may fail | no needless fetch; every request ends |
| Shared providers (`supervise`, `ade/cli.py` 57-89) | a child, an endpoint | supervise, signals | a signal at every step; two supervisors | no child is left behind; it ends when told to |
| Efficiency experiment (`scripts/codex_efficiency.py`) | trials, the person's Codex config | trials, decision, cleanup | interrupts, partial batteries, edits of the config | a sound decision; no edit is lost |
| Local deployments (`server.go` 672-757, `agent-environment-local-deploy*`) | HEAD, a status file per commit, the installed paths, the server | monitor, trigger, worker with switch, health check and restore | the worker restarts the server that asked for it, trigger included; a switch of thirteen paths | the records tell what runs; a commit is attempted once |
| Runtime CLI (`ade/cli.py`) | none | the entry points of the parts above | | |
| Status cache and login limit (`server.go` 500-570) | one-second answers, failure counts | `loadStatus`, `noteAuthFailure` | the answer is stored after the cache was cleared | not modelled |
| Backup and restore (`environment_backup.go`) | five state files, WebDAV | import, backup, restore | five files in order; the check for active runs is made without their lock | not modelled |
| Scheduler units, shell updaters, agent assets, wallet signatures, dashboard, benchmark, skills | see [below](#what-is-not-modelled) | | | not modelled |

How they interact. The server has no privileges. For an update it asks a helper,
a root process of one request, to authorize a run; the helper creates the run
in the shared store and then writes an approval into the root-owned store. The
server starts the trigger, which runs an updater under one `flock`; a timer
starts one for the policy. The updater reads the run, has it authorized, orders
the components and runs their commands. The same server watches HEAD for local
deployments, whose worker replaces and restarts it, and serves uploads of
artifacts, the trending pages and the records of deployments. An apply, a
rollback and an attach exclude each other by `update.lock`. The synchronisation
and the experiment share nothing with the others.

## The modules

```
RunStore <- EnvironmentAuthority <- UpdateService <- UpdateServiceProofs, MCUpdateService
                                        | INSTANCE RunLifecycle

Dependencies <- ComponentOrder <- ExecutionLoop <- UpdateExecution
             |                      UpdateExecution <- UpdateExecutionProofs,
             |                                         MCUpdateExecution
             <- UpdateAllowlist <- MCUpdateAllowlist

PlaneLinearSync <- PlaneLinearSyncProofs, MCPlaneLinearSync
Generations     <- GenerationsProofs, MCGenerations
     | INSTANCE GenerationStack
HostAttach <- HostAttachProofs <- ToolsProofs
           <- Tools <- ToolsProofs, MCTools
     Tools | INSTANCE ArtifactPublishProofs (EXTENDS ArtifactPublish),
             LocalDeployProofs (EXTENDS LocalDeploy), TrendingCache,
             SharedService, EfficiencyTrials, UpdateAllowlist
```

### Updates

**RunStore**. Its operations hold a lock throughout and replace the file by a
rename, so `Create` and `Update` are one step each; `UpdateTorn` is `Update` by
a process that dies after the rename and before the log line. A run's random
identifier is its rank in creation order, which makes "the newest" the
comparison `r > created - Capacity`.

**EnvironmentAuthority** has one action per operation. Passwords are left out: a
login is one with the right password. A session is honoured as in `_session`:
listed, issued for the account's present credential, of a sufficient role.
`authorize_run` is two steps, `AuthorizeRun` and `RecordApproval`, since the run
store is written under another lock before the approval is; `helper` has the
authorization lock in between, and `HelperKilled` ends it there. `SetAccount`
and `Register` write two files; with `crashed` only the first is written.
`Expire` is the passing of twelve hours.

**UpdateService** composes these with the server and the updaters. `updater[u]`
is one process, and its `step` is where it is in `execute`:

| step | the updater has just |
|---|---|
| `waiting` | been started, by the trigger (`StartTrigger`, `Retrigger`) or the timer (`TimerFires`) |
| `locked` | got the `flock` (`AcquireLock`); a scheduled one then creates its run (`CreateScheduled`) |
| `authorizing` | found the run queued and of its own trigger (`LoadRun`) |
| `verifying` | read the policy (`ReadPolicy`), scheduled runs only |
| `cleared` | been authorized (`ConsumeApproval`, `VerifyPolicy`) |
| `refused` | been denied; `Refuse` then writes `blocked` |
| `executing` | marked the run running (`MarkRunning`) |
| `publishing` | written the result (`FinishRun`, `Refuse`); `Publish` may then update the run once more |

A write to a run that was displaced from the store fails and ends the process.
`UpdaterCrash` kills an updater anywhere, `CrashInUpdate` inside `Update`;
`ServerCrash` is a server that dies before it starts the trigger.

`Retrigger` is somebody who invokes the trigger by hand. It carries an
assumption on the operator: nobody does so for a run whose request the server is
still working on. Nothing enforces it. `agent-environment-trigger` asks for the
form of an id only, and the sudoers rule allows any id at any time. Without it a
run that was begun by hand could be overwritten by the helper's `fail-run`, so
`TerminalIsFinal`, `ImplementsLifecycle` and their theorems rest on it. An id is
shown before the request is answered, in the list of runs.

`overtaken` is a history variable: for each policy, the scheduled runs that had
passed their check, and had not begun, when it was saved.

**RunLifecycle** is the abstract specification: what a run promises to the
people who ask for it, without processes, files, sessions or locks.

**Dependencies** says without an algorithm what a set of components needs and
when it depends on itself, by smallest closed sets. **ComponentOrder** is the
code's function, two recursions and their error, call by call: `todo` are the
calls of `include` to make (`Include`), `calls` those of `visit` to make (`Pass`,
`Raise`, `Enter`) and to leave (`Leave`), the innermost first. **ExecutionLoop**
is the loop over the ordered components (`Begin`, `Block`, `Skip`,
`RejectTarget`, `RunCommand`, `Rollback`, `Record`, aborts and kills), and
**UpdateExecution** is one after the other. The recursion is written as a stack
of calls, and not with recursive operators, because the prover can reason about
it and TLC sees no difference.

**UpdateAllowlist** asks which components a run may touch while root edits the
manifest. In `UpdateService` the manifest is fixed and a selection is one value;
here a selection is a set of components, and sessions are left out. `pending` is
the run that was asked for and `policy` the saved one, both accepted by
`Selectable`, which looks at everything needed. A manual run is checked by that
rule again, a scheduled one by `Listed`, which looks at the named components
only. `edited` is a history variable: which of the two were accepted before the
manifest was last edited.

**LocalDeploy**. `See` is the monitor, `Enqueue` and `Launch` are the trigger:
the record is written in one step and the unit started in the next. `worker[c]`
is the unit of commit `c`, from `waiting` for the lock through `checking`,
`building`, `copying` path by path and `probing` to the end, or to `restoring`,
again path by path. `Started` is a start of the server, by a worker, by a
restore or by systemd after a crash: it ends the trigger in the server's control
group and begins a new monitor, which takes the commit in the manifest for what
is deployed. If the first install does not name its commit (`named` is false),
such a monitor knows none and takes HEAD for it. Every tool may fail; kills,
crashes, records that cannot be written and paths that cannot be restored are
bounded faults. HEAD only moves to new commits. Thirteen paths are `MaxPaths`,
with the manifest as the last.

### Synchronisation

**PlaneLinearSync**. `sync[p]` is one process:

| step | the run |
|---|---|
| `waiting`, `locked` | wants the lock (`Start`), has it (`AcquireLock`) |
| `next` | has listed Plane and read the mappings (`List`), or is done with an issue |
| `update` | has taken an issue that is mapped (`Take`) and is about to update it (`UpdateMapped`) |
| `find`, `page` | looks for the marker (`Find`), fetches pages into the index (`FetchPage`, `PageFails`) |
| `update_found`, `create` | found it, found nothing (`UpdateFound`, `CreateIssue`) |
| `save` | writes the mapping (`SaveMapping`) and goes on with `next`, in the end `Finish` |

Linear is a key (the marker) and a version for each issue, and the issues nobody
has deleted. `RequestFails` loses a request or its answer, `Misjudged` is an
error that reads like "not found", `Crash` kills a run anywhere. A page is one
issue, in any order. What a request that timed out does in Linear is taken to
be done before the code goes on.

### The runtime and its tools

**Generations**. A process plans, applies or rolls back: `Bundle` captures a file
at a time, `Check` compares with what was shown, `StageFile` fills the stage,
which is renamed to a release before `Switch` turns the pointer; a rollback
reads the predecessor that the release has noted. `EditFile` and `EditSettings`
are people. A process of `Recapturing` is the Go runtime, which fills the stage
from another reading of the pack; `reread` marks its releases, for the
properties. The stage directory that a killed process leaves behind is left
out, as nothing ever reads it. **GenerationStack** is the abstract specification: an apply pushes,
a rollback pops, and whatever fails or is killed changes nothing. The mapping
follows the predecessors from `current`.

**HostAttach** has the steps of `attach` with `update.lock`: read the config,
write the backup, make the links, compare, replace, or undo the links. The
backup is written in place, so a kill or a failure leaves a torn one, which
passes for a backup from then on; the code is as the model says, and
`BackupIsOriginal` states what is left: whole where nothing failed.

**ArtifactPublish** is one published name. `MoveAway` and `MoveIn` are the two
renames, and readers without a lock see no content between them; `Restore` is
what the code does when the second fails.

**TrendingCache** looks, waits for the lock of the key, looks again and fetches.
**SharedService** is several supervisors that race for one endpoint. The code
calls an endpoint ready whoever answers, so the loser reports ready until its
child ends; the model has that. A signal before the handler is installed or
after it was put back ends a supervisor with its child alive (`severed`).
**EfficiencyTrials** is the battery of trials, `Decision` the choice, and
`ReadConfig`, `Compare`, `Replace` the cleanup of the person's config. `Ranked`
is the k-th smallest measurement and `Median` twice the median, which stays a
whole number for an even number of repeats.

**Tools** puts seven parts that share no state side by side: `part` names the
one that moves in this behaviour, and the others rest. So states add up and do
not multiply, and every interleaving within a part is there. **MCTools** gives
TLC the variants, measurements and manifests to take.

History variables, which the code does not keep, are marked as such where they
are declared. `budget` and `faults` hold what is left of, or was spent on, the
bounds on faults.

## The runs

| Run | Shows |
|---|---|
| `manual` | types; `OneUseApproval`: whatever is killed or invoked again, a run is authorized at most once and begun at most as often; `RevocationBlocks`: an approval is consumed only while its session is honoured, even after a `set_account` that died half-way; `TerminalIsFinal`: no step replaces a result although `update` would; `ImplementsLifecycle` |
| `displaced` | `HistoryAgrees`, `OneExecutor`, `ReplacedPolicyStops` with a store of one run, so that a run vanishes at every step of its life, and a policy replaced between the three reads and after them: a scheduled run begins for the components of the policy in force, or else it is the only run that had passed its check when that policy was saved |
| `settles` | `EveryRunSettles`: without kills every queued run is decided or displaced, however updaters contend for the lock |
| `execution` | `OrderIsComplete`: once its calls are over, the order is refused exactly on cycles in what the request needs, and otherwise has exactly that, once, dependencies first; `PrerequisitesHold`, `RollbackOnlyAfterFailedUpdate`, `VerdictIsTrue`, `ExecutionEnds` for every outcome of every command and a kill at every turn |
| `sync` | `OnePerKeyUntilCut`, `LinkStays`, `NoOlderVersion`, and `Converges`: after the last fault and edit, every issue whose mapping leads to a live Linear issue gets its last version, and every other one is mapped and gets it too, unless two live Linear issues carry one marker. These can only come from a listing that was cut short (`sync_cut`); every later listing fails on them, and an issue that has to be looked for then stays an error until somebody deletes one of them |
| `generations` | with one process that reads the pack once and one that reads it again: `DigestIsOlderAtWorst`: a digest is that of the files, and where the pack was read again it may be older than they are, never newer; `AppliedAsShown`: what becomes current has the digest, the settings and the predecessor that were shown, and the files too, but for edits that a second reading met after the file's last capture; `ImplementsStack` |
| `tools` | attach: `BackupIsOriginal`, `AllOrNothing`, `EntryOfCurrent`, `EditsSurvive`; artifacts: `LastIsKept`, `OldOrNew`, `ListingAgrees`, `ConsentToReplace`; pages: `NoNeedlessFetch`, `RequestsEnd`; providers: `Reaped`, `TerminationEnds`; experiment: `DecisionIsRight` (both limits, from both sides), `PersonalEditsSurvive`; allowlist: `AcceptedIsCarriedOut`: unless root edits the manifest in between, what was accepted is carried out whole, of a request and of a policy, although other rules decide then; deployments: `RecordsTellTheState`, `ResultIsFinal`; and all types |
| `interrupted`, `allowlist_schedule`, `sync_cut`, `generations_recapture`, `deploy_queue` | violations, [below](#five-disagreements-between-documentation-and-code) |

**Bounds and why they are enough.** The hazards of the update service are
between two runs, or two processes on one run: two runs, two updaters, a
repeated trigger and one or two kills show every overlap of two, and the lock
admits no third. Two tokens in `manual` let one session ask while another is
alive or the account is set again. The capacity of 100 is 1 in `displaced` and
2, never reached, elsewhere. `execution` has three components: a dependency at
a distance, the two sides of a diamond, cycles of one to three; a diamond
proper needs four and is left to the proof. At most two dependencies are given
to each, which is all there can be without a cycle. One component has no
restart command, one no rollback and one takes no target version, each in any
place of a graph. For the allowlist, two components are one that is named and
one that is only needed; in `tools` every component has one command and none
depends on itself, in `allowlist_schedule` all manifests are there.

In `sync` two issues are one that is created and one that is looked for with the
same index, and two processes show every overlap the lock must prevent; a
failure, a kill, a deletion, an edit and a cut fall at every step. `MaxIssues`
is one more than any behaviour of the run creates, so it stops none. In `generations` three releases are
needed for a rollback after an apply after a rollback. Two files are one that is
captured before and one after an edit, and the two processes are one of each
kind. In `tools` there are two processes of
each kind; two files or paths, of which one is done and the other not; a clock
that passes the age of an entry; two commits, of which the older may get the
lock last; and three repeats of two variants, the least that the experiment
decides on.

Each bound on what the code does not bound (`MaxRuns`, `MaxCrashes`,
`MaxEdits`, ...) is in the guard of the actions it names. `Room` in
`UpdateService` keeps back the place for a scheduled run whose timer has
already fired, so that a bound never stops an updater in mid-course. Processes,
tokens and files are symmetric in the runs without liveness that say so.
`CHECK_DEADLOCK FALSE` is set where the system stops: everything was asked for
that the bounds allow, or an execution has ended.

**Fairness.**

- `EveryRunSettles`: the helper that has created a run goes on (a few file
  operations under a 30 s limit), the server's handler starts the trigger, and
  each updater takes its next step (`flock` wakes a waiter when the holder ends;
  commands have timeouts). One weak fairness condition per updater covers all
  its steps, so nothing chooses among them. Nothing is assumed of users, the
  timer or the order of waiters. Kills are excluded: after one, a queued run
  waits for somebody to act, and a running one for ever.
- `ExecutionEnds`: calls and turns go on, because each command and probe has a
  timeout. That the calls of `visit` end in spite of cycles is part of it.
- `Converges`: the timer fires for ever and some run goes on; requests have
  timeouts and the lock is released when its holder ends or dies. Faults and
  edits are bounded, as a property about what follows them needs. It says
  nothing of an issue whose fields Linear can never take, nor of one that has to
  be looked for while two live Linear issues carry one marker.
- `RequestsEnd`: each thread goes on, since requests have a timeout and a lock
  is given up on an exception too. It rests on finitely many failures and on the
  bounded clock, after whose end no entry grows old.
- `TerminationEnds`: a supervisor goes on, and a child that was passed a SIGTERM
  ends. The code needs the latter: while it waits for the child it sends no
  SIGKILL.
- `deploy_queue`, `sync_cut`, `generations_recapture` and `allowlist_schedule`
  violate safety properties, and assume nothing; `interrupted` has the fairness
  of `EveryRunSettles`.

**Mutants.** Each property of a passing run has a mutant: a definition of the
model changed as a slip in the code would change it (`ConsumeRunKeepsApproval`,
`AcquireLockNoWait`, `WithinPreorder`, `SettleForgetsBlocked`, ...). With it TLC
finds the property violated.

## The proofs

Eight modules prove, for every value of the constants, hence for every number
of processes, files, runs and faults, every property of the passing runs but
the five about liveness:

| Module | Theorems, beside the types | Beside types and step facts the invariant says |
|---|---|---|
| `UpdateServiceProofs` | `ApprovalsAreOneUse`, `ExecutionIsExclusive`, `LogAgreesWithList`, `ResultsAreFinal`, `RevocationIsEffective`, `ReplacedPoliciesStop`, `Refinement` (`ImplementsLifecycle`) | see below |
| `UpdateExecutionProofs` | `OrdersAreComplete`, `PrerequisitesAreMet`, `RollbacksFollowFailures`, `VerdictsAreTrue` | see below |
| `PlaneLinearSyncProofs` | `NoDuplicates`, `MappingsStay`, `VersionsGrow` | see below |
| `GenerationsProofs` | `DigestsNeverLead`, `ShownIsApplied`, `Refinement` (`ImplementsStack`) | releases are older than their successors (`Ordered`); between check and switch nobody changes `current`, what was captured and staged is no newer than the pack, and the stage has what was captured unless the pack is read again (`Fits`) |
| `ArtifactPublishProofs` | the four about artifacts, restated in `ToolsProofs` | writers exclude each other and readers; between the renames the holder's backup has the last contents (`Fits`, `Served`) |
| `HostAttachProofs` | `OriginalBackedUp`, `ConflictsAbortWhole`, `EntryIsCurrent`, `EditsAreKept` | a torn backup is being written or something failed (`TornByFault`); a link belongs to a finished attach or to one that will undo it (`LinksAccounted`) |
| `LocalDeployProofs` | the two about deployments, restated in `ToolsProofs` | one worker is past the lock (`OneHolder`); how far its attempt is tells which paths are installed and what is recorded (`Attempt`, `KeepsLatest`) |
| `ToolsProofs` | `PublishKeepsContents`, `PublishLeavesOldOrNew`, `ListingSeesOnePublish`, `PublishAsksFirst`, `DeployRecordsAreTrue`, `DeployResultsAreFinal`, `FetchesAreNeeded`, `ChildrenAreReaped`, `DecisionsAreRight`, `CleanupKeepsEdits`, `AcceptedRunsAreCarriedOut` | pages: who works on a key has its lock and saw no young entry; providers: a living child's supervisor knows it, or is severed; experiment: only sound trials count, and `decision` is that of the trials; allowlist: what was accepted stays acceptable until an edit (`Accepted`) |

Each also proves that its inductive invariant holds in every reachable state.
The assumptions are those on the constants, which TLC evaluates too: bounds are
natural numbers, names for "none" are no members of the sets they stand beside;
`ToolsAssumption` says that there are keys, a baseline, a path and a repeat, and
that no variant has the name that stands for none, and
`PlansAssumption` that requests and dependency lists name components of the
manifest. Where a module is instantiated, its theorems take what they need of
that as a hypothesis (`Bounds` in `LocalDeployProofs`). No theorem
assumes anything of `Recapturing`: those of `GenerationsProofs` hold for either
kind of process and for any mixture. Of the environment the theorems assume what
the actions do, above all `Retrigger`'s assumption on the operator.

**Behaviours of several parts.** A behaviour of `Tools` is one of each part
(`EachBegins`, `EachSteps`, `EachBehaves`), so theorems about one part carry over.

**The update service.** That a run is not started twice rests on the approval
being deleted before the run is marked running and never being written again,
on one updater being past the lock, and on `LoadRun` having seen the run queued
with nobody able to change it since. `IInv` says these things:

- `FreshRuns`: nothing is known of a run before it is created;
- `Requests`: the helper works on one unanswered request, and until the server
  has answered it no updater has its run; so `fail-run` meets a queued run;
- `Approvals`: a listed session keeps the credential it was issued for, and an
  approval is the unspent word of the session that asked for the run;
- `Progress`: one updater is past the lock, and its step tells how far its run
  is: until `cleared` it is queued, from `cleared` to `executing` it is spent
  once, at `publishing` it has ended;
- `Counts`: spent at most once, started at most as often, not started while
  queued;
- `Scheduled`: a scheduled run that is cleared but not begun is for the
  components of the policy in force, or is the only one that this policy
  overtook;
- `HistoryAgrees` and `RunningIsExecuted`.

Steps of the authority share one summary of their effect, and store writes
another (`UpdateEffect`, `HistoryUpdate`, `HistoryTorn`, `HistoryCreate`). The
action properties follow from `IInv` and from what a step can write at all.

`Refinement` maps every run to the phase its record tells (`Phase`), whether it
was asked for by a person (`Manual`), the permits of its approval and the run
the one executing updater has in hand. A step of the authority, the store or an
updater is a step of `RunLifecycle` or changes nothing there; that a permit is
taken only once and a run ends only after it began is what `IInv` adds.

**The order and the loop.** The calls of `include` keep what is selected and
still to do within what the request needs, and closed but for what is to do
(`Selecting`). While `visit` goes on, what stands above a call that has to be
left is needed by its component, and its dependencies are visited or above it
(`Nested`). So a component met again needs itself (`RaiseStep`), one that is
left comes after its dependencies (`LeaveStep`), and in the end both the order
and what precedes each of its components are closed, which leaves no cycle
(`OrderIsRight`). A turn of the loop settles the component at its position,
whose dependencies have results (`Walked`); it ran only where the direct ones
ended well (`Based`), and what ended well is closed under dependencies, so all
prerequisites did (`Grounded`).

**The synchronisation.** That a creation makes no second issue does not follow
from what the run knows at that step: it found nothing in an index that may be
long out of date. `Indexed` says why it is enough: once an index was whole, the
live issues it lacks were created by this run, for keys it will not come to
again, and no issue in the index has the key of another live one. `Ahead`
relates the three copies of a mapping, in memory, in the file and in the step
that saves it: they differ only where the older one leads to a deleted issue.
`Pending` says that what a run has still to write is no older than what Linear
has, which needs the lock. All of this holds until a listing is cut short
(`Uncut`); from then on the first two theorems are false (`sync_cut`), and
`VersionsGrow` alone holds throughout.

**The generations.** The stack that `current` stands for is read off the
predecessors. A release that is in use keeps its chain, because predecessors
are older (`Ordered`) and only the release being staged changes: the least
release whose chain differed after a step would have one whose predecessor's
does. This way of taking a least counterexample (`WellFoundedInduction`) stands
for induction wherever the data are recursive.

**The allowlist.** `Accepted` has to survive whatever comes between a check and
its use. `Selectable` implies `Listed`, a saved policy is checked by the former
and carried out by the latter, and what the order adds to a selection is what
`Selectable` looked at, as long as the manifest is the same.

**The experiment.** That the decision is right needs that a median is what it is
called: the k-th smallest of the measurements exists (`RankOf`, by a least
counterexample), at least half of them are no greater and half no smaller
(`MedianOf`), and the percentages are compared without division
(`DivisionOf`). So a winner has half of its trials within each limit of half of
the baseline's, the limit included (`ChosenWithin`). The other way, a variant
whose every trial keeps within the limits has sums of medians that do
(`LimitOfSums`), hence the decision cannot be that there is none
(`NoneMissed`).

**Only model-checked**: liveness (`EveryRunSettles`, `ExecutionEnds`, `Converges`,
`RequestsEnd`, `TerminationEnds`), which is beyond the prover.

## Five disagreements between documentation and code

`interrupted`. `deploy/agent-environment/README.md` 304-306: the updater
"records a completed, partial-failure, failed, or blocked result". TLC finds a
run marked running (`environment_runtime.go:162`) whose updater is killed before
the only write of a result (line 245): `Execute` refuses a run that is not
queued, and nothing looks for runs left running. The unit's
`TimeoutStartSec=30min` equals the default timeout of one component
(`environment.go:316`), so a run of two slow components is cut off by systemd.

`allowlist_schedule`. Lines 293-294 there: the policy "stops only when an admin
disables or replaces it, or the current VM/component configuration no longer
permits it". After the policy was saved, root makes a selected component depend
on one that is not enabled, or disables one that it depends on; `CreateRun` (line 105) and `VerifyPolicy` look at the named
components only, and `Execute` runs the command of everything the order adds. A
manual run repeats the check of everything needed and is blocked.

`sync_cut`. `docs/ade-plane-linear-sync.md` 73: when a mapping is lost, the
existing issue is looked for by its marker before another is created. In
`FindBySourceKey` the index is made before the first page is fetched
(`sync.go:766`), and an error on a page returns with the index as far as it got
(773); for the next issue line 765 takes it for all there is. A run is killed
between creating an issue and saving its mapping; in the next one a page cannot
be fetched while another issue is looked for, and the first one is created
again.

`generations_recapture`. `docs/ade-runtime.md` 36: a generation keeps the actual
contents and their digest, and a changed pack has to be planned again.
`Install` compares the plan made from one reading of the pack and then reads it
again (`core.go:768`): a file edited in between is installed unseen, under the
digest of the first reading. Python passes one captured bundle to both.

`deploy_queue`. `deploy/agent-environment/LOCAL-DEPLOYMENT.md` 4-5: "When a
commit changes `HEAD`, the service queues one deployment attempt for that SHA".
The trigger writes the record "queued" (line 32) before it starts the unit (line
36), and it runs in the control group of the server. In the trace the worker of
one commit restarts the server just between these lines of the trigger of the
next commit, which ends with it; the new server sees the same HEAD and calls the
trigger again, which finds the record and takes it for an attempt (line 26). The
commit stays "queued" for good, although no tool failed and nothing was killed
but by the deployment itself.

## What is not modelled

Inside the modelled parts: passwords, tokens' contents and request parsing; the
text of errors; the legacy policy signed by a wallet; `webdav_import` and
`webdav_backup`; target versions in the service, where they are part of the
selection that must match; the fields of issues and pages; the merge of
lockfile, user and workspace settings, which is one version of the settings in
`Generations`; the build of a commit. Writes that fail for a full disk are
modelled where the code has a way to go on (`PlaneLinearSync`,
`ArtifactPublish`, `HostAttach`, `LocalDeploy`), elsewhere kills stand for them.

Of the other parts:

- the server's status cache and login limit decide nothing that the others rely
  on; their races are listed as a hazard;
- backup and restore are Go only and replace five files in order; listed as a
  hazard, not modelled;
- the scheduler renders unit files and calls systemd, which keeps the state;
- the shell updaters are commands of the updater, of which `ExecutionLoop` takes
  the exit status; the recovery of `orca-headless-update` from a kill between
  its renames is not modelled;
- agent assets, wallet signatures and `doctor` are functions of files;
- the dashboard is a browser client without state the services rely on;
- the benchmark, the skills and their scripts are one-shot tools and documents.
