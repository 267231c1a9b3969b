---------------------------- MODULE ExecutionLoop ----------------------------
(***************************************************************************)
(* What happens between "running" and the result of one run, once its      *)
(* components are ordered: the loop of UpdateCoordinator.execute           *)
(* (ade/environment.py; Execute of internal/ade/environment_runtime.go).   *)
(* It walks them, runs the declared command of each, probes its health,    *)
(* and rolls a failed update back.  The run record is written only at the  *)
(* end, so a kill leaves it without results although commands were run.    *)
(*                                                                         *)
(* A command that cannot be started or runs out of time raises in Python,  *)
(* and the exception ends the whole loop; in Go it is one that failed.     *)
(* Both are among the outcomes here.  (An order that cannot be had is such *)
(* an exception in Python; in Go it ends the process, as a kill does.)     *)
(***************************************************************************)
EXTENDS ComponentOrder

CONSTANTS
  HasUpdate,     \* the components with an update_command
  HasRestart,    \* the components with a restart_command
  HasRollback,   \* the components with a rollback_command
  AcceptsTarget  \* the components with a target_version_arg

VARIABLES
  position,  \* the next component of ordered.order
  step,      \* where the execution is, or the loop with that component
  results,   \* the result recorded so far for each component
  failed,    \* the local set of components that did not succeed
  ran,       \* history variable: how many commands were run for each
            \* component, its own and then its rollback
  verdict    \* the status written at the end

vars == <<orderVars, position, step, results, failed, ran, verdict>>

ResultKinds == {"none", "completed", "failed", "blocked", "skipped"}

TypeOK ==
  /\ OrderTypeOK
  /\ position \in 1..(Len(ordered.order) + 1)
  /\ step \in {"ordering", "next", "rollback", "aborted", "recorded", "killed"}
  /\ results \in [Components -> ResultKinds]
  /\ failed \subseteq Components
  /\ ran \in [Components -> 0..2]
  /\ verdict \in {"running", "completed", "partial_failure", "failed"}

AtRest ==
  /\ position = 1
  /\ results = [c \in Components |-> "none"]
  /\ failed = {}
  /\ ran = [c \in Components |-> 0]
  /\ verdict = "running"

LoopInit == AtRest /\ step = "ordering"

(* An order with a cycle is an exception before the first turn.            *)
Begin ==
  /\ step = "ordering" /\ Finished
  /\ step' = IF ordered.error = "cycle" THEN "aborted" ELSE "next"
  /\ UNCHANGED <<orderVars, position, results, failed, ran, verdict>>

More == step = "next" /\ position <= Len(ordered.order)

Current == ordered.order[position]

HasCommand ==
  Current \in IF plan.action = "restart" THEN HasRestart ELSE HasUpdate

DependencyFailed == ToSet(plan.lists[Current]) \cap failed # {}

TargetRejected ==
  /\ plan.action = "update"
  /\ Current \in plan.targets \ AcceptsTarget

(* Mutant: a blocked component does not count as failed.                   *)
SettleForgetsBlocked(result) ==
  /\ results' = [results EXCEPT ![Current] = result]
  /\ failed' = IF result = "failed" THEN failed \cup {Current} ELSE failed
  /\ position' = position + 1
  /\ step' = "next"

(* The end of one turn of the loop.                                        *)
Settle(result) ==
  /\ results' = [results EXCEPT ![Current] = result]
  /\ failed' = IF result \in {"failed", "blocked"}
               THEN failed \cup {Current} ELSE failed
  /\ position' = position + 1
  /\ step' = "next"

(* Mutant: the loop does not move past a blocked component.                *)
BlockStays ==
  /\ More /\ DependencyFailed
  /\ results' = [results EXCEPT ![Current] = "blocked"]
  /\ failed' = failed \cup {Current}
  /\ UNCHANGED <<orderVars, position, step, ran, verdict>>

Block ==
  /\ More /\ DependencyFailed
  /\ Settle("blocked")
  /\ UNCHANGED <<orderVars, ran, verdict>>

Skip ==
  /\ More /\ ~DependencyFailed /\ ~HasCommand
  /\ Settle("skipped")
  /\ UNCHANGED <<orderVars, ran, verdict>>

RejectTarget ==
  /\ More /\ ~DependencyFailed /\ HasCommand /\ TargetRejected
  /\ Settle("failed")
  /\ UNCHANGED <<orderVars, ran, verdict>>

Commanded == More /\ ~DependencyFailed /\ HasCommand /\ ~TargetRejected

Ran == ran' = [ran EXCEPT ![Current] = @ + 1]

(* Mutant: a failed restart is rolled back too.                            *)
RunCommandRollsBackAll(good) ==
  /\ Commanded
  /\ Ran
  /\ IF ~good /\ Current \in HasRollback
     THEN step' = "rollback" /\ UNCHANGED <<results, failed, position>>
     ELSE Settle(IF good THEN "completed" ELSE "failed")
  /\ UNCHANGED <<orderVars, verdict>>

(* The command and the probe: good means it ended in time with code 0 and  *)
(* the component is healthy afterwards.                                    *)
RunCommand(good) ==
  /\ Commanded
  /\ Ran
  /\ IF ~good /\ plan.action = "update" /\ Current \in HasRollback
     THEN step' = "rollback" /\ UNCHANGED <<results, failed, position>>
     ELSE Settle(IF good THEN "completed" ELSE "failed")
  /\ UNCHANGED <<orderVars, verdict>>

(* Mutant: a rollback may be repeated.                                     *)
RollbackRetries ==
  /\ step = "rollback"
  /\ Ran
  /\ \/ Settle("failed")
     \/ UNCHANGED <<step, results, failed, position>>
  /\ UNCHANGED <<orderVars, verdict>>

(* Whether the rollback works is noted, and the component counts as failed.*)
Rollback ==
  /\ step = "rollback"
  /\ Ran
  /\ Settle("failed")
  /\ UNCHANGED <<orderVars, verdict>>

(* The command or the rollback raises, having run out of time or not even  *)
(* started: the component gets no result and the loop is left.             *)
Abort ==
  /\ \/ Commanded /\ (Ran \/ UNCHANGED ran)
     \/ step = "rollback" /\ (Ran \/ UNCHANGED ran)
  /\ step' = "aborted"
  /\ UNCHANGED <<orderVars, position, results, failed, verdict>>

(* Mutant: the exception is not among what failed.                         *)
VerdictForgetsAbort ==
  IF failed = {} THEN "completed"
  ELSE IF \E c \in Components : results[c] = "completed" THEN "partial_failure"
  ELSE "failed"

(* An exception adds the failed pseudo-component "environment".            *)
Verdict ==
  IF failed = {} /\ step # "aborted" THEN "completed"
  ELSE IF \E c \in Components : results[c] = "completed" THEN "partial_failure"
  ELSE "failed"

Record ==
  /\ step = "aborted" \/ (step = "next" /\ position > Len(ordered.order))
  /\ verdict' = Verdict
  /\ step' = "recorded"
  /\ UNCHANGED <<orderVars, position, results, failed, ran>>

(* A kill loses the local results; commands that were run stay run.        *)
Kill ==
  /\ step \notin {"recorded", "killed"}
  /\ step' = "killed"
  /\ UNCHANGED <<orderVars, position, results, failed, ran, verdict>>

Turn ==
  \/ Begin
  \/ Block \/ Skip \/ RejectTarget
  \/ \E good \in BOOLEAN : RunCommand(good)
  \/ Rollback
  \/ Abort
  \/ Record

(***************************************************************************)
(* Properties.                                                             *)
(***************************************************************************)
(* "Updates follow the root-owned manifest's dependency graph" (deploy     *)
(* README): a command is run for a component only after everything it      *)
(* depends on, at any distance, was settled, and never when one of those   *)
(* failed or was itself blocked.  The code looks at direct dependencies    *)
(* only; a blocked component must therefore count as failed.               *)
PrerequisitesHold ==
  \A c \in Components :
    ran[c] > 0 =>
      \A d \in Prerequisites(DepsOf(plan.lists), c) :
        d \notin failed /\ results[d] \in {"completed", "skipped"}

(* A component whose update is recorded as failed was rolled back, once,   *)
(* before the loop went on; nothing that succeeded or was restarted is.    *)
RollbackOnlyAfterFailedUpdate ==
  \A c \in Components :
    /\ ran[c] = 2 =>
         plan.action = "update" /\ results[c] \in {"failed", "none"}
    /\ /\ results[c] = "failed" /\ ran[c] > 0
       /\ plan.action = "update" /\ c \in HasRollback
       => ran[c] = 2

(* The recorded result tells what happened: "completed" hides no failure   *)
(* and no exception, "failed" no success, and the components that have no  *)
(* result are the last of the order, at most the first of them touched.    *)
VerdictIsTrue ==
  LET Mine == ToSet(ordered.order)
      Good == {c \in Mine : results[c] \in {"completed", "skipped"}}
      Done == {c \in Mine : results[c] = "completed"}
      Whole == ordered.error = "none" /\ Good = Mine
  IN step = "recorded" =>
       /\ \A i \in 1..Len(ordered.order) :
            /\ results[ordered.order[i]] # "none" <=> i < position
            /\ i > position => ran[ordered.order[i]] = 0
       /\ verdict = "completed" <=> Whole
       /\ verdict = "partial_failure" <=> ~Whole /\ Done # {}
       /\ verdict = "failed" <=> ~Whole /\ Done = {}

(***************************************************************************)
(* The inductive invariant behind them.                                    *)
(***************************************************************************)
(* The loop has settled what is before its position and nothing else.      *)
Walked ==
  /\ \A i \in 1..Len(ordered.order) :
       /\ results[ordered.order[i]] # "none" <=> i < position
       /\ i > position => ran[ordered.order[i]] = 0
  /\ \A c \in Components \ ToSet(ordered.order) :
       results[c] = "none" /\ ran[c] = 0

(* Where the loop is with the component at its position.                   *)
AtTurn ==
  /\ step \in {"next", "rollback"} => ordered.error = "none"
  /\ step = "aborted" /\ ordered.error = "none" =>
       position <= Len(ordered.order)
  /\ More => ran[Current] = 0
  /\ step = "rollback" =>
       /\ position <= Len(ordered.order)
       /\ ran[Current] = 1
       /\ plan.action = "update" /\ Current \in HasRollback

FailedCounts == failed = {c \in Components : results[c] \in {"failed", "blocked"}}

(* What was touched, or succeeded, has its direct dependencies.            *)
Based ==
  \A c \in Components :
    ran[c] > 0 \/ results[c] \in {"completed", "skipped"} =>
      \A d \in ToSet(plan.lists[c]) : results[d] \in {"completed", "skipped"}

LoopIInv ==
  /\ TypeOK
  /\ Walked /\ AtTurn /\ FailedCounts /\ Based
  /\ RollbackOnlyAfterFailedUpdate /\ VerdictIsTrue
=============================================================================
