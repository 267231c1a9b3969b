--------------------------- MODULE UpdateAllowlist ---------------------------
(***************************************************************************)
(* Which components a run may touch while root edits the manifest.  A      *)
(* request or a policy is checked against the manifest when it is made,    *)
(* and again when it is carried out, maybe under another manifest:         *)
(* _selection and consume_run of ade/environment_auth.py for manual runs;  *)
(* create_run, verify_policy and execute of ade/environment.py for         *)
(* scheduled ones (selection, ConsumeRun, CreateRun, VerifyPolicy, Execute *)
(* of the Go port).                                                        *)
(*                                                                         *)
(* Each process reads the manifest once, when it starts, so a whole        *)
(* authorization and a whole execution are one step each.                  *)
(***************************************************************************)
EXTENDS Dependencies

CONSTANT Manifests  \* the manifests root may install, a part of Manifest

Manifest == [deps : DependencyGraphs, enabled : SUBSET Components,
             update : SUBSET Components, restart : SUBSET Components]

VARIABLES
  manifest,  \* the component part of agent-environment.json
  policy,    \* the components of the enabled daily policy; {} when disabled
  pending,   \* the approved manual run that waits for its updater
  touched,   \* history variable: what the last execution ran commands for
  edited     \* history variable: whether the manifest was edited since the
             \* policy, or the manual run, was accepted

vars == <<manifest, policy, pending, touched, edited>>

Actions == {"update", "restart"}
Nothing == [action |-> "update", selection |-> {}]
Refused(trigger) == [trigger |-> trigger, begun |-> FALSE, components |-> {}]
Begun(trigger, S) == [trigger |-> trigger, begun |-> TRUE, components |-> S]
Untouched == Refused("none")

TypeOK ==
  /\ manifest \in Manifests
  /\ policy \in SUBSET Components
  /\ pending \in [action : Actions, selection : SUBSET Components]
  /\ touched \in [trigger : {"none", "manual", "scheduled"}, begun : BOOLEAN,
                  components : SUBSET Components]
  /\ edited \in SUBSET {"policy", "run"}

Init ==
  /\ manifest \in Manifests
  /\ policy = {}
  /\ pending = Nothing
  /\ touched = Untouched
  /\ edited = {}

Supports(c, action) ==
  c \in IF action = "update" THEN manifest.update ELSE manifest.restart

(* selection: all a request needs must be enabled and support the action.  *)
Selectable(S, action) ==
  /\ S # {}
  /\ ~Cyclic(manifest.deps, S)
  /\ \A c \in Needed(manifest.deps, S) :
       c \in manifest.enabled /\ Supports(c, action)

(* CreateRun and VerifyPolicy look at the components that are named only.  *)
Listed(S) ==
  /\ S # {}
  /\ ~Cyclic(manifest.deps, S)
  /\ \A c \in S : c \in manifest.enabled /\ Supports(c, "update")

(* Execute runs the declared command of everything the run needs.          *)
Commands(S, action) ==
  {c \in Needed(manifest.deps, S) : Supports(c, action)}

EditManifest ==
  /\ manifest' \in Manifests \ {manifest}
  /\ edited' = {"policy", "run"}
  /\ touched' = Untouched
  /\ UNCHANGED <<policy, pending>>

(* Mutant: a policy is saved like a scheduled run is started, on what its  *)
(* components are and not on what they need.                               *)
EnablePolicyListed(S) ==
  /\ Listed(S)
  /\ policy' = S
  /\ edited' = edited \ {"policy"}
  /\ touched' = Untouched
  /\ UNCHANGED <<manifest, pending>>

EnablePolicy(S) ==
  /\ Selectable(S, "update")
  /\ policy' = S
  /\ edited' = edited \ {"policy"}
  /\ touched' = Untouched
  /\ UNCHANGED <<manifest, pending>>

DisablePolicy ==
  /\ policy' = {}
  /\ touched' = Untouched
  /\ UNCHANGED <<manifest, pending, edited>>

AuthorizeRun(S, action) ==
  /\ pending = Nothing
  /\ Selectable(S, action)
  /\ pending' = [action |-> action, selection |-> S]
  /\ edited' = edited \ {"run"}
  /\ touched' = Untouched
  /\ UNCHANGED <<manifest, policy>>

(* ConsumeRun repeats the whole selection under the current manifest.      *)
ExecuteManual ==
  /\ pending # Nothing
  /\ touched' = IF Selectable(pending.selection, pending.action)
                THEN Begun("manual", Commands(pending.selection, pending.action))
                ELSE Refused("manual")
  /\ pending' = Nothing
  /\ UNCHANGED <<manifest, policy, edited>>

ExecuteScheduled ==
  /\ touched' = IF Listed(policy)
                THEN Begun("scheduled", Commands(policy, "update"))
                ELSE Refused("scheduled")
  /\ UNCHANGED <<manifest, policy, pending, edited>>

Next ==
  \/ EditManifest
  \/ \E S \in SUBSET Components : EnablePolicy(S)
  \/ DisablePolicy
  \/ \E S \in SUBSET Components, action \in Actions : AuthorizeRun(S, action)
  \/ ExecuteManual
  \/ ExecuteScheduled

Spec == Init /\ [][Next]_vars

(***************************************************************************)
(* Properties.                                                             *)
(***************************************************************************)
(* What is carried out is what was accepted: commands for all it needs and *)
(* for nothing that the manifest of that moment disables.                  *)
CarriedOut(S) ==
  /\ touched'.begun
  /\ touched'.components = Needed(manifest.deps, S)
  /\ touched'.components \subseteq manifest.enabled

(* A request, or a policy, is accepted by one rule and carried out, maybe  *)
(* much later, by another: unless root edits the manifest in between, it is*)
(* carried out whole.  After an edit a manual run is carried out whole or  *)
(* refused; of a scheduled run less is sure (ScheduledRunWithinManifest).  *)
AcceptedIsCarriedOut ==
  [][/\ touched'.trigger = "manual" =>
          \/ CarriedOut(pending.selection)
          \/ "run" \in edited /\ ~touched'.begun
     /\ touched'.trigger = "scheduled" /\ policy # {} =>
          \/ CarriedOut(policy)
          \/ "policy" \in edited]_vars

(* The policy "stops ... [when] the current VM/component configuration no  *)
(* longer permits it" (deploy README): a scheduled run executes no command *)
(* of a component the current manifest disables.                           *)
ScheduledRunWithinManifest ==
  [][touched'.trigger = "scheduled" =>
       touched'.components \subseteq manifest.enabled]_vars

(* What was accepted stays acceptable until the manifest is edited.        *)
Accepted ==
  /\ pending # Nothing /\ "run" \notin edited =>
       Selectable(pending.selection, pending.action)
  /\ policy # {} /\ "policy" \notin edited => Selectable(policy, "update")

IInv == TypeOK /\ Accepted
=============================================================================
