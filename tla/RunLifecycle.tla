---------------------------- MODULE RunLifecycle ----------------------------
(***************************************************************************)
(* What an update run promises to the people who ask for it, whatever      *)
(* processes carry it out: it is asked for once, permitted once, begun at  *)
(* most once and only on a used permit, never beside another run, and its  *)
(* result, once there, is never replaced.  A permit may be withdrawn until *)
(* it is used, and the execution of a run may be abandoned for good.       *)
(***************************************************************************)
CONSTANTS
  Runs,   \* the runs that may be asked for
  NoRun   \* no run, not a member of Runs

VARIABLES
  phase,   \* how far each run is
  manual,  \* the runs that need a permit from a person
  permit,  \* whether the permit of a run was given, and then used
  active   \* the run whose commands are being executed

vars == <<phase, manual, permit, active>>

Results == {"completed", "partial_failure", "failed", "blocked"}

TypeOK ==
  /\ phase \in [Runs -> {"absent", "queued", "running"} \cup Results]
  /\ manual \subseteq Runs
  /\ permit \in [Runs -> {"none", "given", "used"}]
  /\ active \in Runs \cup {NoRun}

Init ==
  /\ phase = [r \in Runs |-> "absent"]
  /\ manual = {}
  /\ permit = [r \in Runs |-> "none"]
  /\ active = NoRun

Ask(r) ==
  /\ phase[r] = "absent"
  /\ phase' = [phase EXCEPT ![r] = "queued"]
  /\ \/ manual' = manual \cup {r}
     \/ UNCHANGED manual
  /\ UNCHANGED <<permit, active>>

Give(r) ==
  /\ r \in manual
  /\ permit[r] = "none"
  /\ permit' = [permit EXCEPT ![r] = "given"]
  /\ UNCHANGED <<phase, manual, active>>

Withdraw(R) ==
  /\ \A r \in R : permit[r] = "given"
  /\ permit' = [r \in Runs |-> IF r \in R THEN "none" ELSE permit[r]]
  /\ UNCHANGED <<phase, manual, active>>

(* A run nobody has to permit needs no permit given before it is used.     *)
Use(r) ==
  /\ phase[r] = "queued"
  /\ permit[r] = IF r \in manual THEN "given" ELSE "none"
  /\ permit' = [permit EXCEPT ![r] = "used"]
  /\ UNCHANGED <<phase, manual, active>>

Begin(r) ==
  /\ active = NoRun
  /\ phase[r] = "queued"
  /\ permit[r] = "used"
  /\ phase' = [phase EXCEPT ![r] = "running"]
  /\ active' = r
  /\ UNCHANGED <<manual, permit>>

End(result) ==
  /\ active # NoRun
  /\ phase' = [phase EXCEPT ![active] = result]
  /\ active' = NoRun
  /\ UNCHANGED <<manual, permit>>

Abandon ==
  /\ active # NoRun
  /\ active' = NoRun
  /\ UNCHANGED <<phase, manual, permit>>

Refuse(r, result) ==
  /\ phase[r] = "queued"
  /\ phase' = [phase EXCEPT ![r] = result]
  /\ UNCHANGED <<manual, permit, active>>

Next ==
  \/ \E r \in Runs : Ask(r) \/ Give(r) \/ Use(r) \/ Begin(r)
  \/ \E R \in SUBSET Runs : Withdraw(R)
  \/ \E result \in Results : End(result)
  \/ Abandon
  \/ \E r \in Runs, result \in {"blocked", "failed"} : Refuse(r, result)

Spec == Init /\ [][Next]_vars
=============================================================================
