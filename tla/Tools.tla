-------------------------------- MODULE Tools --------------------------------
(***************************************************************************)
(* Seven parts of the system that share no state: attach, the artifacts,   *)
(* the trending pages, a shared provider, the efficiency experiment, the   *)
(* component allowlist and local deployments.  A behaviour is one of one   *)
(* part, with the others at rest, so their states add up and do not        *)
(* multiply.                                                               *)
(***************************************************************************)
EXTENDS HostAttach, Sequences

CONSTANTS
  Clients, Files, MaxVersions, MaxWebFaults,
  Threads, Keys, CacheTime, MaxTime, MaxErrors,
  Supervisors, MaxSignals,
  Variants, Repeats, Measures, MaxConfigEdits,
  Components, Manifests,
  MaxCommits, MaxPaths, MaxDeployFaults

VARIABLES
  part,  \* the part that moves
  public, hidden, writers, readers, client, started, webFaults, last, cut,
  now, stored, holder, thread, errors,
  step, child, asked, listener, signals, severed,
  config, trials, turn, right, phase, original, decision, late,
  manifest, policy, pending, touched, edited,
  named, head, installed, service, noted, trigger, record, worker, deployFaults

ASSUME ToolsAssumption ==
  /\ Keys # {} /\ CacheTime \in Nat /\ MaxTime \in Nat
  /\ Variants \in Seq(STRING) \ {<<>>} /\ Repeats \in Nat \ {0}
  /\ \A i \in DOMAIN Variants : Variants[i] # "none"
  /\ Measures \subseteq [tokens : Nat, seconds : Nat] /\ MaxConfigEdits \in Nat
  /\ MaxCommits \in Nat /\ MaxPaths \in Nat \ {0} /\ MaxDeployFaults \in Nat

Web == INSTANCE ArtifactPublishProofs
         WITH MaxFaults <- MaxWebFaults, faults <- webFaults
Page == INSTANCE TrendingCache
Shared == INSTANCE SharedService
Trial == INSTANCE EfficiencyTrials WITH MaxEdits <- MaxConfigEdits
Allow == INSTANCE UpdateAllowlist
Deploy == INSTANCE LocalDeployProofs
            WITH MaxFaults <- MaxDeployFaults, faults <- deployFaults

webVars ==
  <<public, hidden, writers, readers, client, started, webFaults, last, cut>>
pageVars == <<now, stored, holder, thread, errors>>
serviceVars == <<step, child, asked, listener, signals, severed>>
trialVars == <<config, trials, turn, right, phase, original, decision, late>>
allowVars == <<manifest, policy, pending, touched, edited>>
deployVars ==
  <<named, head, installed, service, noted, trigger, record, worker,
    deployFaults>>
toolVars ==
  <<part, vars, webVars, pageVars, serviceVars, trialVars, allowVars,
    deployVars>>

ToolsInit ==
  /\ part \in {"attach", "web", "trending", "service", "experiment",
              "allowlist", "deploy"}
  /\ Init /\ Web!Init /\ Page!Init /\ Shared!Init /\ Trial!Init
  /\ Allow!Init /\ Deploy!Init
  /\ part # "attach" => host = NoText
  /\ part # "allowlist" => manifest = CHOOSE m \in Manifests : TRUE
  /\ part # "deploy" => named

ToolsNext ==
  /\ UNCHANGED part
  /\ \/ /\ part = "attach" /\ Next
        /\ UNCHANGED <<webVars, pageVars, serviceVars, trialVars,
                       allowVars, deployVars>>
     \/ /\ part = "web" /\ Web!Next
        /\ UNCHANGED <<vars, pageVars, serviceVars, trialVars,
                       allowVars, deployVars>>
     \/ /\ part = "trending" /\ Page!Next
        /\ UNCHANGED <<vars, webVars, serviceVars, trialVars,
                       allowVars, deployVars>>
     \/ /\ part = "service" /\ Shared!Next
        /\ UNCHANGED <<vars, webVars, pageVars, trialVars,
                       allowVars, deployVars>>
     \/ /\ part = "experiment" /\ Trial!Next
        /\ UNCHANGED <<vars, webVars, pageVars, serviceVars,
                       allowVars, deployVars>>
     \/ /\ part = "allowlist" /\ Allow!Next
        /\ UNCHANGED <<vars, webVars, pageVars, serviceVars,
                       trialVars, deployVars>>
     \/ /\ part = "deploy" /\ Deploy!Next
        /\ UNCHANGED <<vars, webVars, pageVars, serviceVars,
                       trialVars, allowVars>>

ToolsSpec ==
  /\ ToolsInit /\ [][ToolsNext]_toolVars
  /\ Page!Fairness /\ Shared!Fairness

(* Every variable of every part keeps its type.                            *)
ToolsTypeOK ==
  /\ TypeOK /\ Web!TypeOK /\ Page!TypeOK /\ Shared!TypeOK
  /\ Trial!TypeOK /\ Allow!TypeOK /\ Deploy!TypeOK

(* Nothing is replaced without consent (ArtifactPublish).                  *)
ConsentToReplace == Web!ConsentToReplace

(* The contents last served stay on the disk (ArtifactPublish).            *)
LastIsKept == Web!LastIsKept

(* What is served is whole, the old contents or the new (ArtifactPublish). *)
OldOrNew == Web!OldOrNew

(* A listing never mixes two publishes (ArtifactPublish).                  *)
ListingAgrees == Web!ListingAgrees

(* No page is fetched twice at a time or too early (TrendingCache).        *)
NoNeedlessFetch == Page!NoNeedlessFetch

(* Every request for a page ends (TrendingCache).                          *)
RequestsEnd == Page!RequestsEnd

(* A supervisor leaves no child behind (SharedService).                    *)
Reaped == Shared!Reaped

(* A supervisor ends after a SIGTERM (SharedService).                      *)
TerminationEnds == Shared!TerminationEnds

(* A variant is eligible if and only if the measures say so                *)
(* (EfficiencyTrials).                                                     *)
DecisionIsRight == Trial!DecisionIsRight

(* The cleanup of the config loses no edit (EfficiencyTrials).             *)
PersonalEditsSurvive == Trial!PersonalEditsSurvive

(* What was accepted is carried out unless the manifest is edited          *)
(* (UpdateAllowlist).                                                      *)
AcceptedIsCarriedOut == Allow!AcceptedIsCarriedOut

(* The records of the attempts tell what runs (LocalDeploy).               *)
RecordsTellTheState == Deploy!RecordsTellTheState

(* No commit is attempted again (LocalDeploy).                             *)
ResultIsFinal == Deploy!ResultIsFinal
=============================================================================
