---------------------------- MODULE ToolsProofs ----------------------------
(***************************************************************************)
(* Proofs about Tools.  The seven parts share no variable, so a behaviour  *)
(* of all is one of each, and what is proved of attach, of the artifacts   *)
(* and of the deployments in modules of their own holds here.  What is     *)
(* proved of the other parts, which need less, is proved here.             *)
(***************************************************************************)
EXTENDS Tools, HostAttachProofs, FiniteSetTheorems, WellFoundedInduction

(***************************************************************************)
(* A behaviour of the tools is one of each of them.                        *)
(***************************************************************************)
LEMMA EachBegins ==
  ToolsInit => /\ Init /\ Web!Init /\ Page!Init /\ Shared!Init
               /\ Trial!Init /\ Allow!Init /\ Deploy!Init
BY DEF ToolsInit

LEMMA EachSteps ==
  [ToolsNext]_toolVars =>
    /\ [Next]_vars /\ [Web!Next]_Web!vars /\ [Page!Next]_Page!vars
    /\ [Shared!Next]_Shared!vars /\ [Trial!Next]_Trial!vars
    /\ [Allow!Next]_Allow!vars /\ [Deploy!Next]_Deploy!vars
<1> USE DEF vars, Web!vars, Page!vars, Shared!vars, Trial!vars,
            Allow!vars, Deploy!vars
<1> USE DEF webVars, pageVars, serviceVars, trialVars, allowVars, deployVars
<1> SUFFICES ASSUME [ToolsNext]_toolVars
             PROVE  /\ Next \/ UNCHANGED vars
                    /\ Web!Next \/ UNCHANGED Web!vars
                    /\ Page!Next \/ UNCHANGED Page!vars
                    /\ Shared!Next \/ UNCHANGED Shared!vars
                    /\ Trial!Next \/ UNCHANGED Trial!vars
                    /\ Allow!Next \/ UNCHANGED Allow!vars
                    /\ Deploy!Next \/ UNCHANGED Deploy!vars
  OBVIOUS
<1>1. CASE UNCHANGED toolVars
  BY <1>1 DEF toolVars
<1>2. CASE ToolsNext
  BY <1>2 DEF ToolsNext
<1> QED
  BY <1>1, <1>2

LEMMA EachBehaves ==
  ToolsSpec => /\ Spec /\ Web!Spec /\ Deploy!Spec /\ Allow!Spec
               /\ Page!Init /\ [][Page!Next]_Page!vars
               /\ Shared!Init /\ [][Shared!Next]_Shared!vars
               /\ Trial!Init /\ [][Trial!Next]_Trial!vars
BY EachBegins, EachSteps, PTL
   DEF ToolsSpec, Spec, Web!Spec, Deploy!Spec, Allow!Spec

LEMMA DeployBounds == Deploy!Bounds
BY ToolsAssumption DEF Deploy!Bounds

(***************************************************************************)
(* Attach, the artifacts and the deployments.                              *)
(***************************************************************************)
(* The contents last served are never lost, whatever the other tools do    *)
(* (publish_artifact).                                                     *)
THEOREM PublishKeepsContents == ToolsSpec => []LastIsKept
BY EachBehaves, Web!ContentsAreKept, PTL DEF LastIsKept

(* What is served is whole, and a publish that ends leaves the old         *)
(* contents or the new (publish_artifact).                                 *)
THEOREM PublishLeavesOldOrNew == ToolsSpec => []OldOrNew
BY EachBehaves, Web!PublishIsOldOrNew, PTL DEF OldOrNew

(* A listing sees one publish only (inventory).                            *)
THEOREM ListingSeesOnePublish == ToolsSpec => []ListingAgrees
BY EachBehaves, Web!ListingsAgree, PTL DEF ListingAgrees

(* Nothing is replaced that was not there, or allowed to be, when the lock *)
(* was taken (publish_artifact).                                           *)
THEOREM PublishAsksFirst == ToolsSpec => ConsentToReplace
BY EachBehaves, Web!ReplacedWithConsent, PTL DEF ConsentToReplace

(* The records of the attempts tell which components run (deploy_commit).  *)
THEOREM DeployRecordsAreTrue == ToolsSpec => []RecordsTellTheState
BY EachBehaves, DeployBounds, Deploy!RecordsAreTrue, PTL DEF RecordsTellTheState

(* The result of an attempt is never taken back (deploy_commit).           *)
THEOREM DeployResultsAreFinal == ToolsSpec => ResultIsFinal
BY EachBehaves, DeployBounds, Deploy!ResultsAreFinal, PTL DEF ResultIsFinal

(* The backup that attach leaves is the person's own config (hosts.py).    *)
THEOREM BackupsAreOriginal == ToolsSpec => []BackupIsOriginal
BY EachBehaves, OriginalBackedUp, PTL

(* A conflict undoes the whole attach (hosts.py).                          *)
THEOREM AttachIsWhole == ToolsSpec => []AllOrNothing
BY EachBehaves, ConflictsAbortWhole, PTL

(* An attach writes the entry of the release in use (hosts.py).            *)
THEOREM AttachWritesCurrent == ToolsSpec => EntryOfCurrent
BY EachBehaves, EntryIsCurrent, PTL

(* An attach loses no edit but one after its last look (hosts.py).         *)
THEOREM AttachKeepsEdits == ToolsSpec => EditsSurvive
BY EachBehaves, EditsAreKept, PTL

(***************************************************************************)
(* The component allowlist: what was accepted stays acceptable until the   *)
(* manifest is edited, and what may be accepted is carried out whole.      *)
(***************************************************************************)
LEMMA NeededContains ==
  ASSUME NEW deps, NEW S \in SUBSET Components
  PROVE  /\ S \subseteq Allow!Needed(deps, S)
         /\ Allow!Needed(deps, S) \subseteq Components
BY DEF Allow!Needed

(* All that a selectable request needs supports its action, so commands    *)
(* are run for all of it, and for enabled components only.                 *)
LEMMA SelectableCommands ==
  ASSUME NEW S, NEW action, Allow!Selectable(S, action)
  PROVE  /\ Allow!Commands(S, action) = Allow!Needed(manifest.deps, S)
         /\ Allow!Commands(S, action) \subseteq manifest.enabled
BY DEF Allow!Selectable, Allow!Commands

(* The rule for saving a policy implies the rule for starting its runs.    *)
LEMMA SelectableListed ==
  ASSUME NEW S \in SUBSET Components, Allow!Selectable(S, "update")
  PROVE  Allow!Listed(S)
BY NeededContains DEF Allow!Selectable, Allow!Listed

LEMMA CommandsAreComponents ==
  ASSUME NEW S, NEW action
  PROVE  Allow!Commands(S, action) \in SUBSET Components
BY DEF Allow!Commands, Allow!Needed

LEMMA AllowlistBegins == Allow!Init => Allow!IInv
BY DEF Allow!Init, Allow!IInv, Allow!TypeOK, Allow!Accepted, Allow!Nothing,
       Allow!Untouched, Allow!Refused, Allow!Actions

LEMMA AllowlistKeepsType ==
  Allow!TypeOK /\ [Allow!Next]_Allow!vars => Allow!TypeOK'
<1> SUFFICES ASSUME Allow!TypeOK, [Allow!Next]_Allow!vars PROVE Allow!TypeOK'
  OBVIOUS
<1> DEFINE Touched == [trigger : {"none", "manual", "scheduled"},
                       begun : BOOLEAN, components : SUBSET Components]
<1>1. \A t \in {"none", "manual", "scheduled"}, S \in SUBSET Components :
        Allow!Refused(t) \in Touched /\ Allow!Begun(t, S) \in Touched
  BY DEF Allow!Refused, Allow!Begun
<1>2. Allow!Untouched \in Touched
  BY <1>1 DEF Allow!Untouched
<1>3. Allow!Nothing \in
        [action : Allow!Actions, selection : SUBSET Components]
  BY DEF Allow!Nothing, Allow!Actions
<1>4. CASE Allow!EditManifest
  BY <1>2, <1>4 DEF Allow!EditManifest, Allow!TypeOK
<1>5. ASSUME NEW S \in SUBSET Components, Allow!EnablePolicy(S)
      PROVE  Allow!TypeOK'
  BY <1>2, <1>5 DEF Allow!EnablePolicy, Allow!TypeOK
<1>6. CASE Allow!DisablePolicy
  BY <1>2, <1>6 DEF Allow!DisablePolicy, Allow!TypeOK
<1>7. ASSUME NEW S \in SUBSET Components, NEW action \in Allow!Actions,
             Allow!AuthorizeRun(S, action)
      PROVE  Allow!TypeOK'
  BY <1>2, <1>7 DEF Allow!AuthorizeRun, Allow!TypeOK
<1>8. CASE Allow!ExecuteManual
  <2>1. touched' \in Touched
    BY <1>1, <1>8, CommandsAreComponents DEF Allow!ExecuteManual
  <2>2. QED
    BY <1>3, <1>8, <2>1 DEF Allow!ExecuteManual, Allow!TypeOK
<1>9. CASE Allow!ExecuteScheduled
  <2>1. touched' \in Touched
    BY <1>1, <1>9, CommandsAreComponents DEF Allow!ExecuteScheduled
  <2>2. QED
    BY <1>9, <2>1 DEF Allow!ExecuteScheduled, Allow!TypeOK
<1>10. CASE UNCHANGED Allow!vars
  BY <1>10 DEF Allow!vars, Allow!TypeOK
<1>11. QED
  BY <1>4, <1>5, <1>6, <1>7, <1>8, <1>9, <1>10 DEF Allow!Next

(* What may be selected depends on the manifest alone.                     *)
LEMMA SelectableKept ==
  ASSUME manifest' = manifest, NEW S, NEW action
  PROVE  Allow!Selectable(S, action)' <=> Allow!Selectable(S, action)
BY DEF Allow!Selectable, Allow!Supports

LEMMA AllowlistKeeps ==
  Allow!IInv /\ [Allow!Next]_Allow!vars => Allow!IInv'
<1> SUFFICES ASSUME Allow!IInv, [Allow!Next]_Allow!vars
             PROVE  Allow!Accepted'
  BY AllowlistKeepsType DEF Allow!IInv
<1> DEFINE RunAccepted ==
             pending # Allow!Nothing /\ "run" \notin edited =>
               Allow!Selectable(pending.selection, pending.action)
           PolicyAccepted ==
             policy # {} /\ "policy" \notin edited =>
               Allow!Selectable(policy, "update")
<1>1. RunAccepted /\ PolicyAccepted
  BY DEF Allow!IInv, Allow!Accepted
<1>2. SUFFICES RunAccepted' /\ PolicyAccepted'
  BY DEF Allow!Accepted
<1>3. ASSUME UNCHANGED <<manifest, pending>>,
             "run" \notin edited' => "run" \notin edited
      PROVE  RunAccepted'
  BY <1>1, <1>3, SelectableKept
<1>4. ASSUME UNCHANGED <<manifest, policy>>,
             "policy" \notin edited' => "policy" \notin edited
      PROVE  PolicyAccepted'
  BY <1>1, <1>4, SelectableKept
<1>5. CASE Allow!EditManifest
  BY <1>5 DEF Allow!EditManifest
<1>6. ASSUME NEW S \in SUBSET Components, Allow!EnablePolicy(S)
      PROVE  RunAccepted' /\ PolicyAccepted'
  BY <1>3, <1>6, SelectableKept DEF Allow!EnablePolicy
<1>7. CASE Allow!DisablePolicy
  BY <1>3, <1>7 DEF Allow!DisablePolicy
<1>8. ASSUME NEW S \in SUBSET Components, NEW action \in Allow!Actions,
             Allow!AuthorizeRun(S, action)
      PROVE  RunAccepted' /\ PolicyAccepted'
  BY <1>4, <1>8, SelectableKept DEF Allow!AuthorizeRun
<1>9. CASE Allow!ExecuteManual
  BY <1>4, <1>9 DEF Allow!ExecuteManual
<1>10. CASE Allow!ExecuteScheduled
  BY <1>3, <1>4, <1>10 DEF Allow!ExecuteScheduled
<1>11. CASE UNCHANGED Allow!vars
  BY <1>3, <1>4, <1>11 DEF Allow!vars
<1>12. QED
  BY <1>5, <1>6, <1>7, <1>8, <1>9, <1>10, <1>11 DEF Allow!Next

LEMMA AllowlistInvariance == ToolsSpec => []Allow!IInv
BY EachBehaves, AllowlistBegins, AllowlistKeeps, PTL DEF Allow!Spec

LEMMA AllowlistTypes == ToolsSpec => []Allow!TypeOK
<1>1. Allow!IInv => Allow!TypeOK
  BY DEF Allow!IInv
<1> QED
  BY <1>1, AllowlistInvariance, PTL

(* Only an execution leaves the trace of one.                              *)
LEMMA Executions ==
  ASSUME Allow!Next
  PROVE  /\ touched'.trigger = "manual" => Allow!ExecuteManual
         /\ touched'.trigger = "scheduled" => Allow!ExecuteScheduled
BY DEF Allow!Next, Allow!EditManifest, Allow!EnablePolicy, Allow!DisablePolicy,
       Allow!AuthorizeRun, Allow!ExecuteManual, Allow!ExecuteScheduled,
       Allow!Untouched, Allow!Refused, Allow!Begun

(* A request or a policy that the rule for accepting it let pass, at any   *)
(* time before, passes the other rule that carries it out, which then runs *)
(* commands for all it needs and nothing disabled, as long as root has not *)
(* edited the manifest (authorize_run, save_policy; consume_run,           *)
(* create_run and verify_policy, execute).                                 *)
THEOREM AcceptedRunsAreCarriedOut == ToolsSpec => AcceptedIsCarriedOut
<1> DEFINE CarriedOut(S) ==
             /\ touched'.begun
             /\ touched'.components = Allow!Needed(manifest.deps, S)
             /\ touched'.components \subseteq manifest.enabled
           Manual == touched'.trigger = "manual" =>
             \/ CarriedOut(pending.selection)
             \/ "run" \in edited /\ ~touched'.begun
           Daily == touched'.trigger = "scheduled" /\ policy # {} =>
             \/ CarriedOut(policy)
             \/ "policy" \in edited
<1>1. ASSUME Allow!IInv, Allow!Next, touched'.trigger = "manual"
      PROVE  Manual
  <2>1. Allow!ExecuteManual
    BY <1>1, Executions
  <2>2. CASE Allow!Selectable(pending.selection, pending.action)
    <3>1. /\ touched'.begun
          /\ touched'.components =
               Allow!Commands(pending.selection, pending.action)
      BY <2>1, <2>2 DEF Allow!ExecuteManual, Allow!Begun
    <3>2. QED
      BY <2>2, <3>1, SelectableCommands
  <2>3. CASE ~Allow!Selectable(pending.selection, pending.action)
    <3>1. ~touched'.begun
      BY <2>1, <2>3 DEF Allow!ExecuteManual, Allow!Refused
    <3>2. "run" \in edited
      BY <1>1, <2>1, <2>3 DEF Allow!ExecuteManual, Allow!IInv, Allow!Accepted
    <3>3. QED
      BY <3>1, <3>2
  <2>4. QED
    BY <2>2, <2>3
<1>2. ASSUME Allow!IInv, Allow!Next, touched'.trigger = "scheduled",
             policy # {}, "policy" \notin edited
      PROVE  CarriedOut(policy)
  <2>1. Allow!Selectable(policy, "update") /\ policy \in SUBSET Components
    BY <1>2 DEF Allow!IInv, Allow!Accepted, Allow!TypeOK
  <2>2. Allow!Listed(policy)
    BY <2>1, SelectableListed
  <2>3. /\ touched'.begun
        /\ touched'.components = Allow!Commands(policy, "update")
    BY <1>2, <2>2, Executions DEF Allow!ExecuteScheduled, Allow!Begun
  <2>4. QED
    BY <2>1, <2>3, SelectableCommands
<1>3. Allow!IInv /\ [Allow!Next]_Allow!vars => [Manual /\ Daily]_Allow!vars
  BY <1>1, <1>2
<1> QED
  BY <1>3, EachBehaves, AllowlistInvariance, PTL
     DEF Allow!Spec, AcceptedIsCarriedOut, Allow!AcceptedIsCarriedOut,
         Allow!CarriedOut

(***************************************************************************)
(* The trending pages: a thread that fetches holds the lock of its key     *)
(* since before its second look; until it releases the lock nobody else    *)
(* stores an entry, and an old entry only grows older.                     *)
(***************************************************************************)
LEMMA CacheBegins == Page!Init => Page!IInv
<1> SUFFICES ASSUME Page!Init PROVE Page!IInv
  OBVIOUS
<1>1. (CHOOSE k \in Keys : TRUE) \in Keys
  BY ToolsAssumption
<1>2. Page!TypeOK
  BY <1>1 DEF Page!Init, Page!TypeOK, Page!Thread
<1>3. \A t \in Threads : thread[t].step = "idle"
  BY DEF Page!Init
<1> QED
  BY <1>2, <1>3 DEF Page!IInv, Page!LockHeld, Page!NothingYoung, Page!Working

(* Of two threads that work, no two have the same key.                     *)
LEMMA WorkersApart ==
  ASSUME Page!LockHeld, NEW t \in Threads, NEW u \in Threads \ {t},
         thread[t].step \in Page!Working, thread[u].step \in Page!Working
  PROVE  Page!Key(t) # Page!Key(u)
BY DEF Page!LockHeld

(* A step of one thread that keeps its key, as all but Ask do.             *)
LEMMA ThreadGoesTo ==
  ASSUME Page!TypeOK, NEW t \in Threads,
         NEW s \in {"idle", "asked", "waiting", "checking", "fetching",
                    "parsed"},
         Page!Goto(t, s)
  PROVE  /\ thread' \in [Threads -> Page!Thread]
         /\ thread'[t].step = s
         /\ \A u \in Threads : Page!Key(u)' = Page!Key(u)
         /\ \A u \in Threads \ {t} : thread'[u] = thread[u]
<1> DEFINE v == [thread[t] EXCEPT !.step = s]
<1>1. thread[t] \in Page!Thread
  BY DEF Page!TypeOK
<1>2. v \in Page!Thread /\ v.step = s /\ v.key = thread[t].key
  BY <1>1 DEF Page!Thread
<1>3. thread' = [thread EXCEPT ![t] = v]
  BY DEF Page!Goto
<1> HIDE DEF v
<1>4. thread' \in [Threads -> Page!Thread] /\ thread'[t] = v
      /\ \A u \in Threads \ {t} : thread'[u] = thread[u]
  BY <1>2, <1>3 DEF Page!TypeOK
<1> QED
  BY <1>2, <1>4 DEF Page!Key

LEMMA KeyOfThread ==
  ASSUME Page!TypeOK, NEW t \in Threads
  PROVE Page!Key(t) \in Keys
BY DEF Page!TypeOK, Page!Thread, Page!Key

(* Only the lock of the thread's own key is touched, which nobody else     *)
(* holds.                                                                  *)
LEMMA ThreadReleases ==
  ASSUME Page!IInv, NEW t \in Threads, thread[t].step \in Page!Working,
         Page!Release(t),
         Page!Goto(t, "idle"), now' = now,
         \A k \in Keys : k # Page!Key(t) => stored'[k] = stored[k],
         stored' \in [Keys -> Nat \cup {-1}]
  PROVE  Page!IInv'
<1> USE DEF Page!IInv
<1>1. /\ thread' \in [Threads -> Page!Thread] /\ thread'[t].step = "idle"
      /\ \A u \in Threads : Page!Key(u)' = Page!Key(u)
      /\ \A u \in Threads \ {t} : thread'[u] = thread[u]
  BY ThreadGoesTo
<1>2. /\ holder' \in [Keys -> SUBSET Threads]
      /\ \A k \in Keys : k # Page!Key(t) => holder'[k] = holder[k]
  BY DEF Page!Release, Page!TypeOK
<1>3. \A u \in Threads : thread'[u].step \in Page!Working =>
        /\ u # t /\ thread[u].step \in Page!Working
        /\ Page!Key(u) # Page!Key(t) /\ Page!Key(u) \in Keys
  BY <1>1, WorkersApart, KeyOfThread DEF Page!Working
<1>4. Page!TypeOK'
  BY <1>1, <1>2 DEF Page!TypeOK
<1>5. Page!LockHeld'
  BY <1>1, <1>2, <1>3 DEF Page!LockHeld
<1>6. Page!NothingYoung'
  <2> SUFFICES ASSUME NEW u \in Threads,
                      thread'[u].step \in {"fetching", "parsed"}
               PROVE  ~Page!Cached(Page!Key(u))'
    BY DEF Page!NothingYoung
  <2>1. /\ u # t /\ Page!Key(u) # Page!Key(t)
        /\ Page!Key(u) \in Keys /\ Page!Key(u)' = Page!Key(u)
    BY <1>1, <1>3 DEF Page!Working
  <2>2. ~Page!Cached(Page!Key(u))
    BY <1>1, <2>1 DEF Page!NothingYoung
  <2> QED
    BY <2>1, <2>2 DEF Page!Cached
<1> QED
  BY <1>4, <1>5, <1>6

(* Nobody's lock is lost, and time and the entries stand still: what the   *)
(* thread itself has to know is left.                                      *)
LEMMA ThreadMoves ==
  ASSUME Page!IInv, NEW t \in Threads,
         NEW s \in {"idle", "asked", "waiting", "checking", "fetching",
                    "parsed"},
         Page!Goto(t, s), UNCHANGED <<now, stored, holder>>,
         s \in Page!Working => thread[t].step \in Page!Working,
         s \in {"fetching", "parsed"} => ~Page!Cached(Page!Key(t))
  PROVE  Page!IInv'
<1> USE DEF Page!IInv
<1>1. /\ thread' \in [Threads -> Page!Thread] /\ thread'[t].step = s
      /\ \A u \in Threads : Page!Key(u)' = Page!Key(u)
      /\ \A u \in Threads \ {t} : thread'[u] = thread[u]
  BY ThreadGoesTo
<1>2. Page!TypeOK'
  BY <1>1 DEF Page!TypeOK
<1>3. Page!LockHeld'
  BY <1>1 DEF Page!LockHeld
<1>4. Page!NothingYoung'
  <2> SUFFICES ASSUME NEW u \in Threads,
                      thread'[u].step \in {"fetching", "parsed"}
               PROVE  ~Page!Cached(Page!Key(u))'
    BY DEF Page!NothingYoung
  <2>1. ~Page!Cached(Page!Key(u))
    BY <1>1 DEF Page!NothingYoung
  <2> QED
    BY <1>1, <2>1 DEF Page!Cached
<1> QED
  BY <1>2, <1>3, <1>4

LEMMA TickKeeps ==
  ASSUME CacheTime \in Nat, MaxTime \in Nat, Page!IInv, Page!Tick
  PROVE Page!IInv'
<1> USE DEF Page!IInv
<1>1. now' = now + 1 /\ now' \in Nat /\ UNCHANGED <<stored, holder, thread>>
  BY DEF Page!Tick, Page!TypeOK
<1>2. Page!TypeOK'
  BY <1>1 DEF Page!TypeOK
<1>3. Page!LockHeld'
  BY <1>1 DEF Page!LockHeld, Page!Key
<1>4. \A k \in Keys : Page!Cached(k)' => Page!Cached(k)
  <2> TAKE k \in Keys
  <2>1. stored[k] \in Int /\ now \in Nat
    BY DEF Page!TypeOK
  <2> QED
    BY <1>1, <2>1 DEF Page!Cached
<1>5. Page!NothingYoung'
  <2>1. \A t \in Threads : Page!Key(t) \in Keys /\ Page!Key(t)' = Page!Key(t)
    BY <1>1, KeyOfThread DEF Page!Key
  <2>2. \A t \in Threads :
          Page!Cached(Page!Key(t))' => Page!Cached(Page!Key(t))
    BY <1>1, <1>4, <2>1 DEF Page!Cached
  <2> QED
    BY <1>1, <2>2 DEF Page!NothingYoung
<1> QED
  BY <1>2, <1>3, <1>5

LEMMA AskKeeps ==
  ASSUME Page!IInv, NEW t \in Threads, NEW k \in Keys, Page!Ask(t, k)
  PROVE  Page!IInv'
<1> USE DEF Page!IInv
<1> DEFINE v == [step |-> "asked", key |-> k, tries |-> 0]
<1>1. v \in Page!Thread /\ v.step = "asked"
  BY DEF Page!Thread
<1>2. thread' = [thread EXCEPT ![t] = v] /\ UNCHANGED <<now, stored, holder>>
  BY DEF Page!Ask
<1> HIDE DEF v
<1>3. /\ thread' \in [Threads -> Page!Thread] /\ thread'[t].step = "asked"
      /\ \A u \in Threads \ {t} : thread'[u] = thread[u]
  BY <1>1, <1>2 DEF Page!TypeOK
<1>4. Page!TypeOK'
  BY <1>2, <1>3 DEF Page!TypeOK
<1>5. \A u \in Threads : thread'[u].step \in Page!Working =>
        u # t /\ thread'[u] = thread[u] /\ Page!Key(u)' = Page!Key(u)
  BY <1>3 DEF Page!Working, Page!Key
<1>6. Page!LockHeld'
  BY <1>2, <1>5 DEF Page!LockHeld
<1>7. Page!NothingYoung'
  BY <1>2, <1>5 DEF Page!NothingYoung, Page!Cached, Page!Working
<1> QED
  BY <1>4, <1>6, <1>7

LEMMA LockKeyKeeps ==
  ASSUME Page!IInv, NEW t \in Threads, Page!LockKey(t)
  PROVE Page!IInv'
<1> USE DEF Page!IInv
<1>1. /\ thread' \in [Threads -> Page!Thread] /\ thread'[t].step = "checking"
      /\ \A u \in Threads : Page!Key(u)' = Page!Key(u)
      /\ \A u \in Threads \ {t} : thread'[u] = thread[u]
  BY ThreadGoesTo DEF Page!LockKey
<1>2. /\ UNCHANGED <<now, stored>>
      /\ holder[Page!Key(t)] = {} /\ Page!Key(t) \in Keys
  BY KeyOfThread DEF Page!LockKey
<1>3. /\ holder' \in [Keys -> SUBSET Threads] /\ holder'[Page!Key(t)] = {t}
      /\ \A k \in Keys : k # Page!Key(t) => holder'[k] = holder[k]
  BY <1>2 DEF Page!LockKey, Page!TypeOK
<1>4. Page!TypeOK'
  BY <1>1, <1>2, <1>3 DEF Page!TypeOK
<1>5. Page!LockHeld'
  <2> SUFFICES ASSUME NEW u \in Threads \ {t}, thread[u].step \in Page!Working
               PROVE  holder'[Page!Key(u)] = {u}
    BY <1>1, <1>3 DEF Page!LockHeld
  <2>1. holder[Page!Key(u)] = {u} /\ Page!Key(u) \in Keys
    BY KeyOfThread DEF Page!LockHeld
  <2>2. Page!Key(u) # Page!Key(t)
    BY <1>2, <2>1
  <2> QED
    BY <1>3, <2>1, <2>2
<1>6. Page!NothingYoung'
  BY <1>1, <1>2 DEF Page!NothingYoung, Page!Cached
<1> QED
  BY <1>4, <1>5, <1>6

LEMMA LookKeeps ==
  ASSUME Page!IInv, NEW t \in Threads, Page!Look(t)
  PROVE Page!IInv'
<1>1. Page!Goto(t, "idle") \/ Page!Goto(t, "waiting")
  BY DEF Page!Look
<1>2. UNCHANGED <<now, stored, holder>>
  BY DEF Page!Look
<1> QED
  BY <1>1, <1>2, ThreadMoves DEF Page!Working

LEMMA LookAgainKeeps ==
  ASSUME Page!IInv, NEW t \in Threads, Page!LookAgain(t)
  PROVE Page!IInv'
<1>1. thread[t].step \in Page!Working /\ UNCHANGED <<now, stored, errors>>
  BY DEF Page!LookAgain, Page!Is, Page!Working
<1>2. CASE Page!Cached(Page!Key(t))
  <2>1. Page!Goto(t, "idle") /\ Page!Release(t)
    BY <1>2 DEF Page!LookAgain
  <2> QED
    BY <1>1, <2>1, ThreadReleases DEF Page!IInv, Page!TypeOK
<1>3. CASE ~Page!Cached(Page!Key(t))
  <2>1. Page!Goto(t, "fetching") /\ UNCHANGED holder
    BY <1>3 DEF Page!LookAgain
  <2> QED
    BY <1>1, <1>3, <2>1, ThreadMoves
<1> QED
  BY <1>2, <1>3

LEMMA FetchedKeeps ==
  ASSUME Page!IInv, NEW t \in Threads, Page!Fetched(t)
  PROVE Page!IInv'
<1>1. thread[t].step = "fetching" /\ Page!Goto(t, "parsed")
      /\ UNCHANGED <<now, stored, holder>>
  BY DEF Page!Fetched, Page!Is
<1>2. ~Page!Cached(Page!Key(t))
  BY <1>1 DEF Page!IInv, Page!NothingYoung
<1> QED
  BY <1>1, <1>2, ThreadMoves DEF Page!Working

LEMMA FetchFailsKeeps ==
  ASSUME Page!IInv, NEW t \in Threads, Page!FetchFails(t) PROVE Page!IInv'
<1> USE DEF Page!IInv
<1>1. thread[t].step = "fetching" /\ UNCHANGED <<now, stored>>
  BY DEF Page!FetchFails, Page!Is
<1>2. CASE Page!Goto(t, "idle") /\ Page!Release(t)
  BY <1>1, <1>2, ThreadReleases DEF Page!Working, Page!TypeOK
<1>3. CASE thread' = [thread EXCEPT ![t].tries = 1] /\ UNCHANGED holder
  <2> DEFINE v == [thread[t] EXCEPT !.tries = 1]
  <2>1. thread[t] \in Page!Thread
    BY DEF Page!TypeOK
  <2>2. v \in Page!Thread /\ v.step = thread[t].step /\ v.key = thread[t].key
    BY <2>1 DEF Page!Thread
  <2>3. thread' = [thread EXCEPT ![t] = v]
    BY <1>3
  <2> HIDE DEF v
  <2>4. /\ thread' \in [Threads -> Page!Thread]
        /\ \A u \in Threads :
             /\ thread'[u].step = thread[u].step
             /\ thread'[u].key = thread[u].key
    BY <2>2, <2>3 DEF Page!TypeOK
  <2>5. Page!TypeOK'
    BY <1>1, <1>3, <2>4 DEF Page!TypeOK
  <2>6. \A u \in Threads : Page!Key(u)' = Page!Key(u)
    BY <2>4 DEF Page!Key
  <2>7. Page!LockHeld' /\ Page!NothingYoung'
    BY <1>1, <1>3, <2>4, <2>6 DEF Page!LockHeld, Page!NothingYoung,
       Page!Cached
  <2> QED
    BY <2>5, <2>7
<1> QED
  BY <1>2, <1>3 DEF Page!FetchFails

LEMMA StoreKeeps ==
  ASSUME Page!IInv, NEW t \in Threads, Page!Store(t)
  PROVE Page!IInv'
<1>1. /\ thread[t].step = "parsed" /\ Page!Goto(t, "idle") /\ Page!Release(t)
      /\ now' = now /\ stored' = [stored EXCEPT ![Page!Key(t)] = now]
  BY DEF Page!Store, Page!Is
<1>2. /\ stored' \in [Keys -> Nat \cup {-1}]
      /\ \A k \in Keys : k # Page!Key(t) => stored'[k] = stored[k]
  BY <1>1 DEF Page!IInv, Page!TypeOK
<1> QED
  BY <1>1, <1>2, ThreadReleases DEF Page!Working

LEMMA CacheStands == ASSUME Page!IInv, UNCHANGED Page!vars PROVE Page!IInv'
BY DEF Page!IInv, Page!vars, Page!TypeOK, Page!LockHeld, Page!NothingYoung,
   Page!Cached, Page!Key

LEMMA CacheKeeps == Page!IInv /\ [Page!Next]_Page!vars => Page!IInv'
BY ToolsAssumption, TickKeeps, AskKeeps, LookKeeps, LockKeyKeeps,
   LookAgainKeeps, FetchedKeeps, FetchFailsKeeps, StoreKeeps, CacheStands
   DEF Page!Next, Page!Get

LEMMA CacheInvariance == ToolsSpec => []Page!IInv
BY EachBehaves, CacheBegins, CacheKeeps, PTL

(* No page is fetched by two threads at a time, nor while there is an      *)
(* entry young enough (get, trending.py).                                  *)
THEOREM FetchesAreNeeded == ToolsSpec => []NoNeedlessFetch
<1>1. Page!IInv => NoNeedlessFetch
  <2> SUFFICES ASSUME Page!IInv, NEW t \in Threads,
                      thread[t].step \in {"fetching", "parsed"}
               PROVE  /\ ~Page!Cached(Page!Key(t))
                      /\ \A u \in Threads \ {t} :
                           thread[u].step \in {"fetching", "parsed"} =>
                             Page!Key(u) # Page!Key(t)
    BY DEF NoNeedlessFetch, Page!NoNeedlessFetch
  <2>1. ~Page!Cached(Page!Key(t))
    BY DEF Page!IInv, Page!NothingYoung
  <2>2. \A u \in Threads \ {t} :
          thread[u].step \in {"fetching", "parsed"} =>
            Page!Key(u) # Page!Key(t)
    BY WorkersApart DEF Page!IInv, Page!Working
  <2> QED
    BY <2>1, <2>2
<1> QED
  BY CacheInvariance, <1>1, PTL

(***************************************************************************)
(* The shared provider: wherever a supervisor gives up, it has seen its    *)
(* child gone, has killed it, or was ended by a signal itself.             *)
(***************************************************************************)
LEMMA ServiceBegins == Shared!Init => Shared!TypeOK /\ Shared!Reaped
BY DEF Shared!Init, Shared!TypeOK, Shared!Reaped, Shared!Is, Shared!Gone,
       Shared!Steps

LEMMA StepsOf ==
  ASSUME Shared!TypeOK, NEW s \in Supervisors, NEW place \in Shared!Steps,
         Shared!Goto(s, place)
  PROVE  /\ step' \in [Supervisors -> Shared!Steps]
         /\ step'[s] = place
         /\ \A u \in Supervisors \ {s} : step'[u] = step[u]
BY DEF Shared!Goto, Shared!TypeOK

LEMMA EndsOf ==
  ASSUME Shared!TypeOK, NEW s \in Supervisors, Shared!End(s)
  PROVE  /\ child' \in [Supervisors -> {"none", "starting", "listening"}]
         /\ child'[s] = "none"
         /\ \A u \in Supervisors \ {s} : child'[u] = child[u]
         /\ listener' \subseteq Supervisors /\ asked' \subseteq Supervisors
BY DEF Shared!End, Shared!TypeOK

(* The steps of a supervisor that leave the children alone.                *)
LEMMA ServiceMoves ==
  ASSUME Shared!TypeOK, Shared!Reaped, NEW s \in Supervisors,
         NEW place \in Shared!Steps, Shared!Goto(s, place),
         UNCHANGED <<child, listener, signals>>, asked' \subseteq Supervisors,
         severed' = severed, place = "idle" => child[s] = "none"
  PROVE  Shared!TypeOK' /\ Shared!Reaped'
BY StepsOf DEF Shared!TypeOK, Shared!Reaped, Shared!Is, Shared!Gone

(* A signal where supervise has no handler.                                *)
LEMMA ServiceSevered ==
  ASSUME Shared!TypeOK, Shared!Reaped, NEW s \in Supervisors, Shared!Sever(s),
         Shared!Signal
  PROVE  Shared!TypeOK' /\ Shared!Reaped'
<1>1. /\ step' \in [Supervisors -> Shared!Steps]
      /\ \A u \in Supervisors \ {s} : step'[u] = step[u]
  BY StepsOf DEF Shared!Sever, Shared!Steps
<1>2. signals' \in Nat
  BY DEF Shared!Signal, Shared!TypeOK
<1>3. severed' = severed \cup {s} /\ UNCHANGED <<child, asked, listener>>
  BY DEF Shared!Sever
<1> QED
  BY <1>1, <1>2, <1>3
     DEF Shared!TypeOK, Shared!Reaped, Shared!Is, Shared!Gone

LEMMA ServiceSignalled ==
  ASSUME Shared!TypeOK, Shared!Reaped, NEW s \in Supervisors,
         Shared!Terminate(s) \/ Shared!Interrupt(s) \/ Shared!Kill(s)
  PROVE  Shared!TypeOK' /\ Shared!Reaped'
<1>1. Shared!Signal /\ signals' \in Nat
  BY DEF Shared!Terminate, Shared!Interrupt, Shared!Kill, Shared!Signal,
         Shared!TypeOK
<1>2. CASE Shared!Sever(s)
  BY <1>1, <1>2, ServiceSevered
<1>3. CASE /\ asked' \in {asked, asked \cup {s}}
           /\ UNCHANGED <<step, child, listener, severed>>
  BY <1>1, <1>3 DEF Shared!TypeOK, Shared!Reaped, Shared!Is, Shared!Gone
<1>4. CASE /\ Shared!Goto(s, "restored")
           /\ UNCHANGED <<child, asked, listener, severed>>
  <2>1. /\ step' \in [Supervisors -> Shared!Steps] /\ step'[s] = "restored"
        /\ \A u \in Supervisors \ {s} : step'[u] = step[u]
    BY <1>4, StepsOf DEF Shared!Steps
  <2> QED
    BY <1>1, <1>4, <2>1
       DEF Shared!TypeOK, Shared!Reaped, Shared!Is, Shared!Gone
<1> QED
  BY <1>2, <1>3, <1>4
     DEF Shared!Terminate, Shared!Interrupt, Shared!Kill

LEMMA ChildMoves ==
  ASSUME Shared!TypeOK, Shared!Reaped, NEW s \in Supervisors,
         Shared!Listen(s) \/ Shared!ChildExits(s)
  PROVE  Shared!TypeOK' /\ Shared!Reaped'
<1>1. ~Shared!Gone(s) /\ UNCHANGED <<step, signals, severed>>
  BY DEF Shared!Listen, Shared!ChildExits, Shared!Gone
<1>2. CASE Shared!End(s)
  BY <1>1, <1>2, EndsOf DEF Shared!TypeOK, Shared!Reaped, Shared!Is, Shared!Gone
<1>3. CASE /\ child' = [child EXCEPT ![s] = "listening"]
           /\ listener' = {s} /\ UNCHANGED asked
  BY <1>1, <1>3 DEF Shared!TypeOK, Shared!Reaped, Shared!Is, Shared!Gone
<1> QED
  BY <1>2, <1>3 DEF Shared!Listen, Shared!ChildExits

LEMMA SupervisorMoves ==
  ASSUME Shared!TypeOK, Shared!Reaped, NEW s \in Supervisors,
         Shared!FindFree(s) \/ Shared!Supervise(s)
  PROVE  Shared!TypeOK' /\ Shared!Reaped'
<1>1. CASE \/ Shared!Handle(s) \/ Shared!Ready(s) \/ Shared!NotReady(s)
           \/ Shared!Waited(s)
  BY <1>1, ServiceMoves
     DEF Shared!Handle, Shared!Ready, Shared!NotReady, Shared!Waited,
         Shared!Steps, Shared!TypeOK
<1>2. CASE Shared!Stop(s)
  BY <1>2, ServiceMoves DEF Shared!Stop, Shared!Steps, Shared!TypeOK, Shared!Gone
<1>3. CASE Shared!Stopped(s)
  BY <1>3, ServiceMoves
     DEF Shared!Stopped, Shared!Steps, Shared!TypeOK, Shared!Gone
<1>4. CASE Shared!FindFree(s)
  <2>1. /\ step' \in [Supervisors -> Shared!Steps] /\ step'[s] = "free"
        /\ \A u \in Supervisors \ {s} : step'[u] = step[u]
    BY <1>4, StepsOf DEF Shared!FindFree, Shared!Steps
  <2> QED
    BY <1>4, <2>1
       DEF Shared!FindFree, Shared!TypeOK, Shared!Reaped, Shared!Is, Shared!Gone
<1>5. CASE Shared!Spawn(s)
  <2>1. /\ step' \in [Supervisors -> Shared!Steps] /\ step'[s] = "spawned"
        /\ \A u \in Supervisors \ {s} : step'[u] = step[u]
    BY <1>5, StepsOf DEF Shared!Spawn, Shared!Steps
  <2> QED
    BY <1>5, <2>1
       DEF Shared!Spawn, Shared!TypeOK, Shared!Reaped, Shared!Is, Shared!Gone
<1>6. CASE Shared!KillChild(s)
  <2>1. /\ step' \in [Supervisors -> Shared!Steps] /\ step'[s] = "idle"
        /\ \A u \in Supervisors \ {s} : step'[u] = step[u]
    BY <1>6, StepsOf DEF Shared!KillChild, Shared!Steps
  <2>2. Shared!End(s) /\ UNCHANGED <<signals, severed>>
    BY <1>6 DEF Shared!KillChild
  <2> QED
    BY <2>1, <2>2, EndsOf
       DEF Shared!TypeOK, Shared!Reaped, Shared!Is, Shared!Gone
<1> QED
  BY <1>1, <1>2, <1>3, <1>4, <1>5, <1>6 DEF Shared!Supervise

LEMMA ServiceKeeps ==
  Shared!TypeOK /\ Shared!Reaped /\ [Shared!Next]_Shared!vars =>
    Shared!TypeOK' /\ Shared!Reaped'
<1>1. CASE UNCHANGED Shared!vars
  BY <1>1 DEF Shared!vars, Shared!TypeOK, Shared!Reaped, Shared!Is, Shared!Gone
<1> QED
  BY <1>1, SupervisorMoves, ChildMoves, ServiceSignalled DEF Shared!Next

LEMMA ServiceInvariance == ToolsSpec => [](Shared!TypeOK /\ Shared!Reaped)
BY EachBehaves, ServiceBegins, ServiceKeeps, PTL

(* A supervisor that is over has left no child behind, unless a signal     *)
(* ended it where it has no handler (supervise).                           *)
THEOREM ChildrenAreReaped == ToolsSpec => []Reaped
BY ServiceInvariance, PTL DEF Reaped

(***************************************************************************)
(* The efficiency experiment.  What is proved about its decision is        *)
(* arithmetic: the k-th smallest value exists, so twice the median is a    *)
(* number, and at least half of the values lie on either side of it.       *)
(***************************************************************************)
LEMMA SmallestOf ==
  ASSUME NEW T \in SUBSET Nat, T # {}
  PROVE  \E m \in T : \A n \in T : m <= n
<1> DEFINE R == OpToRel(<, Nat)
<1>1. IsWellFoundedOn(R, Nat)
  BY NatLessThanWellFounded
<1>2. \A x, y \in Nat : x < y => <<x, y>> \in R
  BY DEF OpToRel
<1> HIDE DEF R
<1>3. PICK m \in T : \A n \in T : ~(<<n, m>> \in R)
  BY <1>1, WFMin
<1>4. \A n \in T : ~(n < m)
  BY <1>2, <1>3
<1> QED
  BY <1>4

(* Finitely many numbers have a bound: a smallest set without one is not   *)
(* empty, and what is left without one of its elements has a bound.        *)
LEMMA BoundOf ==
  ASSUME NEW S, IsFiniteSet(S), NEW f, \A i \in S : f[i] \in Nat
  PROVE  \E b \in Nat : \A i \in S : f[i] <= b
<1> DEFINE Bounded(U) == \E b \in Nat : \A i \in U : f[i] <= b
           T == {n \in Nat : \E U \in SUBSET S :
                               Cardinality(U) = n /\ ~Bounded(U)}
<1> SUFFICES ASSUME ~Bounded(S) PROVE FALSE
  OBVIOUS
<1>1. \A U \in SUBSET S : IsFiniteSet(U) /\ Cardinality(U) \in Nat
  BY FS_Subset, FS_CardinalityType
<1>2. Cardinality(S) \in T
  BY <1>1
<1>3. PICK m \in T : \A n \in T : m <= n
  BY <1>2, SmallestOf
<1>4. PICK U \in SUBSET S : Cardinality(U) = m /\ ~Bounded(U)
  OBVIOUS
<1>5. PICK x \in U : TRUE
  <2>1. 0 \in Nat
    OBVIOUS
  <2> QED
    BY <1>4, <2>1
<1> DEFINE V == U \ {x}
<1>6. V \in SUBSET S /\ Cardinality(V) = m - 1 /\ Cardinality(V) \in Nat
  BY <1>1, <1>4, <1>5, FS_RemoveElement
<1>7. m \in Nat /\ ~(m <= m - 1)
  OBVIOUS
<1>8. Bounded(V)
  BY <1>3, <1>6, <1>7
<1> HIDE DEF T
<1>9. PICK b \in Nat : \A i \in V : f[i] <= b
  BY <1>8
<1>10. f[x] \in Nat
  BY <1>5
<1> DEFINE c == IF b <= f[x] THEN f[x] ELSE b
<1>11. c \in Nat /\ b <= c /\ f[x] <= c
  BY <1>10
<1>12. \A i \in U : f[i] <= c
  <2> SUFFICES ASSUME NEW i \in U PROVE f[i] <= c
    OBVIOUS
  <2>1. CASE i = x
    BY <1>11, <2>1
  <2>2. CASE i # x
    BY <1>9, <1>11, <2>2
  <2> QED
    BY <2>1, <2>2
<1> QED
  BY <1>4, <1>11, <1>12

LEMMA SameCardinality == \A S : Trial!Cardinality(S) = Cardinality(S)
BY DEF Trial!Cardinality, Cardinality

(* The k-th smallest of at least k values is one of them.                  *)
LEMMA RankOf ==
  ASSUME NEW S, IsFiniteSet(S), NEW f, \A i \in S : f[i] \in Nat,
         NEW k \in Nat \ {0}, k <= Cardinality(S)
  PROVE  /\ Trial!Ranked(S, f, k) \in Nat
         /\ Cardinality({i \in S : f[i] < Trial!Ranked(S, f, k)}) < k
         /\ Cardinality({i \in S : f[i] <= Trial!Ranked(S, f, k)}) >= k
<1> DEFINE UpTo(n) == {i \in S : f[i] <= n}
           Under(n) == {i \in S : f[i] < n}
           T == {n \in Nat : Cardinality(UpTo(n)) >= k}
<1>1. \A n : Cardinality(UpTo(n)) \in Nat /\ Cardinality(Under(n)) \in Nat
  <2> TAKE n
  <2>1. UpTo(n) \in SUBSET S /\ Under(n) \in SUBSET S
    OBVIOUS
  <2> HIDE DEF UpTo, Under
  <2> QED
    BY <2>1, FS_Subset, FS_CardinalityType
<1>2. PICK b \in Nat : \A i \in S : f[i] <= b
  BY BoundOf
<1>3. UpTo(b) = S
  BY <1>2
<1>4. b \in T
  BY <1>3
<1>5. PICK m \in T : \A n \in T : m <= n
  BY <1>4, SmallestOf
<1>6. m \in Nat /\ Cardinality(UpTo(m)) >= k
  OBVIOUS
<1>7. Cardinality(Under(m)) < k
  <2>1. CASE m = 0
    <3>1. Under(m) = {}
      BY <2>1
    <3> QED
      BY <3>1, FS_EmptySet
  <2>2. CASE m # 0
    <3>1. m - 1 \in Nat /\ ~(m <= m - 1)
      BY <1>6, <2>2
    <3>2. m - 1 \notin T
      BY <1>5, <3>1
    <3>3. ~(Cardinality(UpTo(m - 1)) >= k)
      BY <3>1, <3>2
    <3>4. Under(m) = UpTo(m - 1)
      BY <1>6
    <3> HIDE DEF Under, UpTo
    <3> QED
      BY <1>1, <3>3, <3>4
  <2> QED
    BY <2>1, <2>2
<1>8. m \in {f[i] : i \in S}
  <2> SUFFICES ASSUME m \notin {f[i] : i \in S} PROVE FALSE
    OBVIOUS
  <2>1. Under(m) = UpTo(m)
    BY <1>6
  <2> HIDE DEF Under, UpTo, T
  <2> QED
    BY <1>1, <1>6, <1>7, <2>1
<1> DEFINE P(n) == Cardinality(Under(n)) < k /\ Cardinality(UpTo(n)) >= k
<1>9. Trial!Ranked(S, f, k) = CHOOSE n \in {f[i] : i \in S} : P(n)
  BY SameCardinality DEF Trial!Ranked
<1>10. P(m)
  BY <1>6, <1>7
<1> HIDE DEF P
<1>11. Trial!Ranked(S, f, k) \in {f[i] : i \in S} /\ P(Trial!Ranked(S, f, k))
  BY <1>8, <1>9, <1>10
<1> QED
  BY <1>11 DEF P

LEMMA MiddleRanks ==
  /\ (Repeats + 1) \div 2 \in Nat \ {0} /\ (Repeats \div 2) + 1 \in Nat \ {0}
  /\ (Repeats + 1) \div 2 <= Repeats
  /\ (Repeats + 1) \div 2 <= (Repeats \div 2) + 1
  /\ 2 * ((Repeats + 1) \div 2) >= Repeats
  /\ 2 * (Repeats \div 2) <= Repeats
  /\ Repeats >= 2 => (Repeats \div 2) + 1 <= Repeats
  /\ Repeats \in Nat
BY ToolsAssumption

(* At least half of Repeats values are no greater than the lower of the    *)
(* two in the middle, and at least half no less than the higher; the median*)
(* is the sum of these two.                                                *)
LEMMA MedianOf ==
  ASSUME Repeats >= 2, NEW S, IsFiniteSet(S), Cardinality(S) = Repeats, NEW f,
         \A i \in S : f[i] \in Nat
  PROVE  /\ Trial!Median(S, f) \in Nat
         /\ \E a, b \in S : Trial!Median(S, f) = f[a] + f[b]
         /\ \E low, high \in Nat :
              /\ 2 * low <= Trial!Median(S, f)
              /\ Trial!Median(S, f) <= 2 * high
              /\ 2 * Cardinality({i \in S : f[i] <= low}) >= Repeats
              /\ 2 * Cardinality({i \in S : f[i] >= high}) >= Repeats
<1> DEFINE j == (Repeats + 1) \div 2
           k == (Repeats \div 2) + 1
           low == Trial!Ranked(S, f, j)
           high == Trial!Ranked(S, f, k)
           UpToLow == {i \in S : f[i] <= low}
           UpToHigh == {i \in S : f[i] <= high}
           UnderLow == {i \in S : f[i] < low}
           UnderHigh == {i \in S : f[i] < high}
           FromHigh == {i \in S : f[i] >= high}
<1>1. Trial!Median(S, f) = low + high
  BY DEF Trial!Median
<1>2. /\ j \in Nat \ {0} /\ k \in Nat \ {0} /\ j <= Repeats /\ k <= Repeats
      /\ j <= k /\ 2 * j >= Repeats /\ 2 * (k - 1) <= Repeats /\ Repeats \in Nat
  BY MiddleRanks
<1> HIDE DEF j, k
<1>3. low \in Nat /\ Cardinality(UnderLow) < j /\ Cardinality(UpToLow) >= j
  BY <1>2, RankOf
<1>4. high \in Nat /\ Cardinality(UnderHigh) < k /\ Cardinality(UpToHigh) >= k
  BY <1>2, RankOf
<1> HIDE DEF low, high
<1>5. \E a, b \in S : low + high = f[a] + f[b]
  <2>1. UnderLow # UpToLow /\ UnderHigh # UpToHigh
    <3>1. UnderLow \in SUBSET S /\ UnderHigh \in SUBSET S
      OBVIOUS
    <3> HIDE DEF UnderLow, UpToLow, UnderHigh, UpToHigh
    <3>2. Cardinality(UnderLow) \in Nat /\ Cardinality(UnderHigh) \in Nat
      BY <3>1, FS_Subset, FS_CardinalityType
    <3> QED
      BY <1>2, <1>3, <1>4, <3>2
  <2>2. PICK a \in S : f[a] = low
    BY <1>3, <2>1
  <2>3. PICK b \in S : f[b] = high
    BY <1>4, <2>1
  <2> QED
    BY <2>2, <2>3
<1>6. /\ UnderLow \in SUBSET S /\ UnderHigh \in SUBSET S
      /\ UpToLow \in SUBSET S /\ UpToHigh \in SUBSET S /\ FromHigh \in SUBSET S
      /\ FromHigh = S \ UnderHigh /\ S \cap UnderHigh = UnderHigh
  BY <1>4
<1>7. ~(high < low)
  <2> SUFFICES ASSUME high < low PROVE FALSE
    OBVIOUS
  <2>1. UpToHigh \in SUBSET UnderLow
    BY <1>3, <1>4
  <2> HIDE DEF UpToHigh, UnderLow
  <2>2. IsFiniteSet(UnderLow)
    BY <1>6, FS_Subset
  <2>3. /\ Cardinality(UpToHigh) <= Cardinality(UnderLow)
        /\ Cardinality(UpToHigh) \in Nat /\ Cardinality(UnderLow) \in Nat
    BY <2>1, <2>2, FS_Subset, FS_CardinalityType
  <2> QED
    BY <1>2, <1>3, <1>4, <2>3
<1>8. 2 * low <= low + high /\ low + high <= 2 * high /\ low + high \in Nat
  BY <1>3, <1>4, <1>7
<1> HIDE DEF UpToLow, UpToHigh, UnderLow, UnderHigh, FromHigh
<1>9. Cardinality(UpToLow) \in Nat /\ Cardinality(UnderHigh) \in Nat
  BY <1>6, FS_Subset, FS_CardinalityType
<1>10. Cardinality(FromHigh) = Repeats - Cardinality(UnderHigh)
  BY <1>6, FS_Difference
<1>11. 2 * Cardinality(UpToLow) >= Repeats
  BY <1>2, <1>3, <1>9
<1>12. 2 * Cardinality(FromHigh) >= Repeats
  BY <1>2, <1>4, <1>9, <1>10
<1> QED
  BY <1>1, <1>3, <1>4, <1>5, <1>8, <1>11, <1>12 DEF UpToLow, FromHigh

LEMMA TrialsOf ==
  ASSUME NEW results \in Seq(Trial!Trial), NEW v
  PROVE  /\ IsFiniteSet(Trial!Of(results, v))
         /\ Trial!Of(results, v) \subseteq DOMAIN results
         /\ \A i \in Trial!Of(results, v) :
              /\ results[i] \in Trial!Trial
              /\ results[i].usage.tokens \in Nat
              /\ results[i].usage.seconds \in Nat
<1>1. /\ Trial!Of(results, v) \in SUBSET (1..Len(results)) /\ Len(results) \in Int
      /\ 1 \in Int
  BY DEF Trial!Of
<1>2. IsFiniteSet(Trial!Of(results, v))
  BY <1>1, FS_Interval, FS_Subset
<1>3. \A m \in Measures \cup {Trial!Unmeasured} :
        m.tokens \in Nat /\ m.seconds \in Nat
  BY ToolsAssumption DEF Trial!Unmeasured
<1>4. \A i \in Trial!Of(results, v) : results[i] \in Trial!Trial
  BY <1>1
<1>5. \A i \in Trial!Of(results, v) :
        results[i].usage \in Measures \cup {Trial!Unmeasured}
  BY <1>4 DEF Trial!Trial
<1> QED
  BY <1>1, <1>2, <1>3, <1>4, <1>5

Kinds == {"tokens", "seconds"}

(* Twice the median of one kind of cost.                                   *)
CostOf(results, v, kind) ==
  IF kind = "tokens" THEN Trial!Tokens(results, v) ELSE Trial!Seconds(results, v)

(* A complete variant has costs, each the sum of what two of its trials    *)
(* took; and at least half of its trials took no more, and at least half no*)
(* less, than half of that.                                                *)
LEMMA CostsOf ==
  ASSUME Repeats >= 2, NEW results \in Seq(Trial!Trial), NEW v,
         Trial!Complete(results, v), NEW kind \in Kinds
  PROVE  /\ CostOf(results, v, kind) \in Nat
         /\ \E a, b \in Trial!Of(results, v) :
              CostOf(results, v, kind)
                = results[a].usage[kind] + results[b].usage[kind]
         /\ \E low, high \in Nat :
              /\ 2 * low <= CostOf(results, v, kind)
              /\ CostOf(results, v, kind) <= 2 * high
              /\ 2 * Cardinality({i \in Trial!Of(results, v) :
                                    results[i].usage[kind] <= low}) >= Repeats
              /\ 2 * Cardinality({i \in Trial!Of(results, v) :
                                    results[i].usage[kind] >= high}) >= Repeats
<1> DEFINE S == Trial!Of(results, v)
           f == [i \in S |-> results[i].usage[kind]]
<1>1. IsFiniteSet(S) /\ \A i \in S : f[i] \in Nat
  BY TrialsOf DEF Kinds
<1>2. Cardinality(S) = Repeats
  BY SameCardinality DEF Trial!Complete
<1>3. CostOf(results, v, kind) = Trial!Median(S, f)
  <2>1. CASE kind = "tokens"
    BY <2>1 DEF CostOf, Trial!Tokens
  <2>2. CASE kind = "seconds"
    BY <2>2 DEF CostOf, Trial!Seconds
  <2> QED
    BY <2>1, <2>2 DEF Kinds
<1>4. \A i \in S : f[i] = results[i].usage[kind]
  OBVIOUS
<1> HIDE DEF S, f
<1>5. /\ Trial!Median(S, f) \in Nat
      /\ \E a, b \in S : Trial!Median(S, f) = f[a] + f[b]
      /\ \E low, high \in Nat :
           /\ 2 * low <= Trial!Median(S, f)
           /\ Trial!Median(S, f) <= 2 * high
           /\ 2 * Cardinality({i \in S : f[i] <= low}) >= Repeats
           /\ 2 * Cardinality({i \in S : f[i] >= high}) >= Repeats
  BY <1>1, <1>2, MedianOf
<1>6. PICK low, high \in Nat :
        /\ 2 * low <= Trial!Median(S, f) /\ Trial!Median(S, f) <= 2 * high
        /\ 2 * Cardinality({i \in S : f[i] <= low}) >= Repeats
        /\ 2 * Cardinality({i \in S : f[i] >= high}) >= Repeats
  BY <1>5
<1>7. /\ {i \in S : f[i] <= low} = {i \in S : results[i].usage[kind] <= low}
      /\ {i \in S : f[i] >= high} = {i \in S : results[i].usage[kind] >= high}
  BY <1>4
<1>8. /\ 2 * low <= CostOf(results, v, kind)
      /\ CostOf(results, v, kind) <= 2 * high
      /\ 2 * Cardinality({i \in S : results[i].usage[kind] <= low}) >= Repeats
      /\ 2 * Cardinality({i \in S : results[i].usage[kind] >= high}) >= Repeats
  BY <1>3, <1>6, <1>7
<1>9. \E a, b \in S :
        CostOf(results, v, kind)
          = results[a].usage[kind] + results[b].usage[kind]
  BY <1>3, <1>4, <1>5
<1> QED
  BY <1>3, <1>5, <1>8, <1>9 DEF S

LEMMA CostsAre ==
  ASSUME Repeats >= 2, NEW results \in Seq(Trial!Trial), NEW v,
         Trial!Complete(results, v)
  PROVE  Trial!Tokens(results, v) \in Nat /\ Trial!Seconds(results, v) \in Nat
<1>1. CostOf(results, v, "tokens") \in Nat /\ CostOf(results, v, "seconds") \in Nat
  BY CostsOf DEF Kinds
<1> QED
  BY <1>1 DEF CostOf

(* There is a best of several variants with costs.                         *)
LEMMA BestOf ==
  ASSUME NEW results, NEW W, W # {},
         \A v \in W : /\ Trial!Tokens(results, v) \in Nat
                      /\ Trial!Seconds(results, v) \in Nat
  PROVE  \E v \in W : \A w \in W : Trial!Better(results, v, w)
<1> DEFINE T == {Trial!Tokens(results, v) : v \in W}
<1>1. T \in SUBSET Nat /\ T # {}
  OBVIOUS
<1>2. PICK t \in T : \A n \in T : t <= n
  BY <1>1, SmallestOf
<1> DEFINE U == {v \in W : Trial!Tokens(results, v) = t}
           M == {Trial!Seconds(results, v) : v \in U}
<1>3. M \in SUBSET Nat /\ M # {}
  OBVIOUS
<1>4. PICK m \in M : \A n \in M : m <= n
  BY <1>3, SmallestOf
<1>5. PICK v \in U : Trial!Seconds(results, v) = m
  OBVIOUS
<1>6. ASSUME NEW w \in W PROVE Trial!Better(results, v, w)
  <2>1. t <= Trial!Tokens(results, w) /\ Trial!Tokens(results, v) = t
    BY <1>2, <1>5
  <2>2. Trial!Tokens(results, w) \in Nat /\ Trial!Tokens(results, v) \in Nat
    BY <1>5
  <2>3. Trial!Tokens(results, w) = t => Trial!Seconds(results, v) <= Trial!Seconds(results, w)
    BY <1>4, <1>5
  <2> HIDE DEF T, U, M
  <2> QED
    BY <2>1, <2>2, <2>3 DEF Trial!Better
<1> QED
  BY <1>5, <1>6

(* The choice among the variants that win.                                 *)
LEMMA ChoiceOf ==
  ASSUME NEW results \in Seq(Trial!Trial), Repeats >= 3,
         Trial!Complete(results, Variants[1]),
         NEW w \in Trial!Names, Trial!Wins(results, w)
  PROVE  /\ Trial!Decision(results) \in Trial!Names
         /\ Trial!Wins(results, Trial!Decision(results))
<1> DEFINE W == {v \in Trial!Names : Trial!Wins(results, v)}
           Best(v) == \A u \in W : Trial!Better(results, v, u)
<1>1. /\ W # {}
      /\ Trial!Decision(results) =
           CHOOSE v \in W : \A u \in W : Trial!Better(results, v, u)
  BY DEF Trial!Decision
<1>2. \A v \in W : Trial!Complete(results, v)
  BY DEF Trial!Wins
<1>3. Repeats >= 2
  BY ToolsAssumption
<1>4. \A v \in W : /\ Trial!Tokens(results, v) \in Nat
                   /\ Trial!Seconds(results, v) \in Nat
  BY <1>2, <1>3, CostsAre
<1> HIDE DEF W
<1>5. \E v \in W : Best(v)
  BY <1>1, <1>4, BestOf
<1>6. Trial!Decision(results) \in W
  BY <1>1, <1>5
<1> QED
  BY <1>6 DEF W

LEMMA DecisionOf ==
  ASSUME NEW results \in Seq(Trial!Trial), Trial!Decision(results) # Trial!None
  PROVE  /\ Repeats >= 3 /\ Trial!Complete(results, Variants[1])
         /\ Trial!Decision(results) \in Trial!Names
         /\ Trial!Wins(results, Trial!Decision(results))
<1>1. Repeats >= 3 /\ Trial!Complete(results, Variants[1])
  BY DEF Trial!Decision
<1>2. PICK w \in Trial!Names : Trial!Wins(results, w)
  BY <1>1 DEF Trial!Decision
<1> QED
  BY <1>1, <1>2, ChoiceOf

(***************************************************************************)
(* The experiment: a trial that counts is sound, and the decision is about *)
(* the trials so far.  The cleanup goes on only where it has seen no edit  *)
(* of an entry, and with what it has seen.                                 *)
(***************************************************************************)
LEMMA NothingDecided == Trial!Decision(<<>>) = Trial!None
<1>1. <<>> \in Seq(Trial!Trial) /\ Trial!Of(<<>>, Variants[1]) = {}
  BY DEF Trial!Of
<1>2. Cardinality({}) = 0
  BY FS_EmptySet
<1>3. Repeats >= 3 => ~Trial!Complete(<<>>, Variants[1])
  BY <1>1, <1>2, SameCardinality, ToolsAssumption DEF Trial!Complete
<1> QED
  BY <1>1, <1>3, DecisionOf

LEMMA DivisionOf ==
  ASSUME NEW n \in Nat, NEW l \in Nat \ {0}
  PROVE  /\ n \div l \in Nat /\ n % l \in 0..(l - 1)
         /\ \A r \in Nat : n < r * l => n \div l < r
OBVIOUS

(* Which variant is tried next, for which time.                            *)
LEMMA NextTrial ==
  ASSUME Trial!TypeOK, Len(trials) < Trial!Trials
  PROVE  /\ Trial!Variant \in Trial!Names
         /\ Trial!Repeat \in 0..(Repeats - 1)
<1>1. /\ Len(Variants) \in Nat \ {0} /\ DOMAIN Variants = 1..Len(Variants)
      /\ Len(trials) \in Nat /\ Repeats \in Nat \ {0}
  BY ToolsAssumption DEF Trial!TypeOK
<1>2. PICK l \in Nat \ {0}, n \in Nat : l = Len(Variants) /\ n = Len(trials)
  BY <1>1
<1>3. n \div l < Repeats /\ n \div l \in Nat
  BY <1>1, <1>2, DivisionOf DEF Trial!Trials
<1>4. Trial!Repeat = n \div l
  BY <1>2 DEF Trial!Repeat
<1>5. Trial!Repeat \in 0..(Repeats - 1)
  BY <1>1, <1>3, <1>4
<1>6. n % l \in 0..(l - 1)
  BY <1>2, DivisionOf
<1>7. Trial!Repeat + (n % l) \in Nat
  BY <1>5, <1>6
<1>8. (Trial!Repeat + (n % l)) % l \in 0..(l - 1)
  BY <1>2, <1>7, DivisionOf
<1>9. ((Trial!Repeat + (n % l)) % l) + 1 \in 1..l
  BY <1>2, <1>8
<1> QED
  BY <1>1, <1>2, <1>5, <1>9 DEF Trial!Variant, Trial!Names

LEMMA TrialBegins == Trial!Init => Trial!IInv
<1> SUFFICES ASSUME Trial!Init PROVE Trial!IInv
  OBVIOUS
<1>1. /\ trials = <<>> /\ decision = Trial!None /\ phase = "trials"
      /\ config = Trial!Untouched /\ original = Trial!Untouched
      /\ turn = 0 /\ right = FALSE /\ late = FALSE
  BY DEF Trial!Init
<1>2. Trial!Untouched \in Trial!Config
  BY ToolsAssumption DEF Trial!Untouched, Trial!Config
<1>3. /\ trials \in Seq(Trial!Trial) /\ Len(trials) = 0 /\ DOMAIN trials = {}
  BY <1>1
<1>4. 0 < Trial!Trials /\ Trial!Trials \in Nat
  BY ToolsAssumption DEF Trial!Trials
<1>5. Trial!TypeOK
  <2>1. decision \in Trial!Names \cup {Trial!None}
    BY <1>1
  <2>2. Len(trials) <= Trial!Trials /\ turn \in 0..3
    BY <1>1, <1>3, <1>4
  <2>3. phase \in {"trials", "cleanup", "staged", "compared", "done", "refused"}
    BY <1>1
  <2> QED
    BY <1>1, <1>2, <1>3, <2>1, <2>2, <2>3 DEF Trial!TypeOK
<1>6. decision = Trial!Decision(trials)
  BY <1>1, NothingDecided
<1> QED
  BY <1>1, <1>3, <1>4, <1>5, <1>6 DEF Trial!IInv

LEMMA DecisionType ==
  ASSUME NEW results \in Seq(Trial!Trial)
  PROVE  Trial!Decision(results) \in Trial!Names \cup {Trial!None}
BY DecisionOf

(* The end of a trial, for whatever reason.                                *)
LEMMA TrialEnds ==
  ASSUME Trial!IInv, phase = "trials", NEW counts \in BOOLEAN,
         NEW usage \in Measures \cup {Trial!Unmeasured},
         Trial!EndTrial(counts, usage, counts),
         config' \in Trial!Config, UNCHANGED <<original, late>>
  PROVE  Trial!IInv'
<1> DEFINE t == [variant |-> Trial!Variant, repeat |-> Trial!Repeat,
                 counts |-> counts, sound |-> counts,
                 usage |-> IF counts THEN usage ELSE Trial!Unmeasured]
<1>1. Trial!TypeOK /\ Len(trials) < Trial!Trials
  BY DEF Trial!IInv
<1>2. t \in Trial!Trial
  BY <1>1, NextTrial DEF Trial!Trial
<1>3. /\ trials' = Append(trials, t) /\ decision' = Trial!Decision(trials')
      /\ turn' = 0 /\ right' = FALSE
      /\ phase' = IF Len(trials') = Trial!Trials THEN "cleanup" ELSE phase
  BY DEF Trial!EndTrial
<1>4. t.counts => t.sound
  OBVIOUS
<1> HIDE DEF t
<1>5. trials \in Seq(Trial!Trial) /\ Len(trials) \in Nat
  BY <1>1 DEF Trial!TypeOK
<1>6. /\ trials' \in Seq(Trial!Trial) /\ Len(trials') = Len(trials) + 1
      /\ DOMAIN trials' = 1..(Len(trials) + 1)
      /\ trials'[Len(trials) + 1] = t
      /\ \A i \in 1..Len(trials) : trials'[i] = trials[i]
  BY <1>2, <1>3, <1>5
<1>7. Trial!Trials \in Nat /\ Trial!Trials' = Trial!Trials
  BY ToolsAssumption DEF Trial!Trials
<1>8. decision' \in Trial!Names \cup {Trial!None}
  BY <1>3, <1>6, DecisionType
<1>9. phase' \in {"trials", "cleanup"}
  BY <1>3
<1>10. Trial!TypeOK'
  <2>1. Len(trials') <= Trial!Trials' /\ turn' \in 0..3
    BY <1>1, <1>3, <1>5, <1>6, <1>7
  <2>2. right' \in BOOLEAN /\ late' \in BOOLEAN /\ original' \in Trial!Config
    BY <1>1, <1>3 DEF Trial!TypeOK
  <2>3. phase' \in {"trials", "cleanup", "staged", "compared", "done", "refused"}
    BY <1>9
  <2>4. trials' \in Seq(Trial!Trial)
    BY <1>6
  <2> QED
    BY <1>8, <2>1, <2>2, <2>3, <2>4 DEF Trial!TypeOK
<1>11. \A i \in DOMAIN trials' : trials'[i].counts => trials'[i].sound
  <2> SUFFICES ASSUME NEW i \in DOMAIN trials', trials'[i].counts
               PROVE  trials'[i].sound
    OBVIOUS
  <2>1. CASE i = Len(trials) + 1
    BY <1>4, <1>6, <2>1
  <2>2. CASE i # Len(trials) + 1
    <3>1. i \in 1..Len(trials) /\ DOMAIN trials = 1..Len(trials)
      BY <1>5, <1>6, <2>2
    <3> QED
      BY <1>6, <3>1 DEF Trial!IInv
  <2> QED
    BY <2>1, <2>2
<1>12. phase' = "trials" => Len(trials') < Trial!Trials
  BY <1>1, <1>3, <1>5, <1>6, <1>7
<1>13. decision' = Trial!Decision(trials')
  BY <1>3
<1> QED
  BY <1>7, <1>9, <1>10, <1>11, <1>12, <1>13 DEF Trial!IInv

(* The steps that add no trial.                                            *)
LEMMA TrialStays ==
  ASSUME Trial!IInv, UNCHANGED <<trials, decision>>, Trial!TypeOK',
         phase' = "trials" => phase = "trials",
         phase' \in {"staged", "compared"} => ~original'.changed,
         phase' = "compared" => late' \/ config' = original'
  PROVE  Trial!IInv'
<1>1. Trial!Trials' = Trial!Trials
  BY DEF Trial!Trials
<1>2. Trial!Decision(trials') = Trial!Decision(trials)
  OBVIOUS
<1> QED
  BY <1>1, <1>2 DEF Trial!IInv

LEMMA ConfigOf ==
  ASSUME Trial!TypeOK
  PROVE  /\ config \in Trial!Config /\ original \in Trial!Config
         /\ \A b \in BOOLEAN : [config EXCEPT !.trusted = b] \in Trial!Config
         /\ [config EXCEPT !.changed = TRUE] \in Trial!Config
         /\ config.edits < MaxConfigEdits =>
              [config EXCEPT !.edits = @ + 1] \in Trial!Config
         /\ config.trusted \in BOOLEAN
         /\ [original EXCEPT !.trusted = FALSE, !.changed = FALSE]
              \in Trial!Config
<1>1. config \in Trial!Config /\ original \in Trial!Config
  BY DEF Trial!TypeOK
<1>2. config.edits \in 0..MaxConfigEdits /\ MaxConfigEdits \in Nat
  BY <1>1, ToolsAssumption DEF Trial!Config
<1>3. config.edits < MaxConfigEdits => config.edits + 1 \in 0..MaxConfigEdits
  BY <1>2
<1>4. config.trusted \in BOOLEAN
  BY <1>1 DEF Trial!Config
<1>5. \A c \in Trial!Config :
        /\ \A b \in BOOLEAN : [c EXCEPT !.trusted = b] \in Trial!Config
        /\ [c EXCEPT !.changed = TRUE] \in Trial!Config
        /\ [c EXCEPT !.trusted = FALSE, !.changed = FALSE] \in Trial!Config
        /\ \A n \in 0..MaxConfigEdits : [c EXCEPT !.edits = n] \in Trial!Config
  BY DEF Trial!Config
<1>6. config.edits < MaxConfigEdits =>
        [config EXCEPT !.edits = @ + 1] \in Trial!Config
  BY <1>1, <1>3, <1>5
<1> QED
  BY <1>1, <1>4, <1>5, <1>6

LEMMA TrialKeeps == Trial!IInv /\ [Trial!Next]_Trial!vars => Trial!IInv'
<1> SUFFICES ASSUME Trial!IInv, [Trial!Next]_Trial!vars PROVE Trial!IInv'
  OBVIOUS
<1>1. Trial!TypeOK
  BY DEF Trial!IInv
<1>2. ASSUME NEW answer \in BOOLEAN, Trial!Turn(answer) PROVE Trial!IInv'
  <2>1. config' \in Trial!Config
    BY <1>1, <1>2, ConfigOf DEF Trial!Turn
  <2>2. /\ phase = "trials" /\ UNCHANGED <<trials, phase, original, decision, late>>
        /\ turn' \in 0..3 /\ right' \in BOOLEAN
    BY <1>1, <1>2 DEF Trial!Turn, Trial!TypeOK
  <2>3. Trial!TypeOK'
    BY <1>1, <2>1, <2>2 DEF Trial!TypeOK, Trial!Trials
  <2> QED
    BY <2>2, <2>3, TrialStays
<1>3. CASE Trial!TurnFails
  <2>1. PICK entered \in BOOLEAN :
          config' = [config EXCEPT !.trusted = @ \/ entered]
    BY <1>3 DEF Trial!TurnFails
  <2>2. config' \in Trial!Config
    BY <1>1, <2>1, ConfigOf
  <2> QED
    BY <1>3, <2>2, TrialEnds DEF Trial!TurnFails
<1>4. ASSUME NEW code \in BOOLEAN, NEW counted \in BOOLEAN,
             NEW usage \in Measures, Trial!Quality(code, counted, usage)
      PROVE  Trial!IInv'
  <2> DEFINE good == right /\ code /\ counted /\ config.edits = 0
  <2>1. good \in BOOLEAN
    BY <1>1 DEF Trial!TypeOK
  <2>2. /\ phase = "trials" /\ Trial!EndTrial(good, usage, good)
        /\ UNCHANGED <<config, original, late>>
    BY <1>4 DEF Trial!Quality
  <2>3. config' \in Trial!Config
    BY <1>1, <2>2, ConfigOf
  <2> HIDE DEF good
  <2> QED
    BY <2>1, <2>2, <2>3, TrialEnds
<1>5. CASE Trial!Interrupt
  <2>1. PICK entered \in BOOLEAN :
          config' = [config EXCEPT !.trusted = @ \/ entered]
    BY <1>5 DEF Trial!Interrupt
  <2>2. config' \in Trial!Config
    BY <1>1, <2>1, ConfigOf
  <2>3. /\ phase' = "cleanup" /\ UNCHANGED <<trials, turn, right, original, late>>
        /\ decision' = Trial!Decision(trials)
    BY <1>5 DEF Trial!Interrupt
  <2>4. decision' = decision
    BY <2>3 DEF Trial!IInv
  <2>5. Trial!TypeOK'
    BY <1>1, <2>2, <2>3, <2>4 DEF Trial!TypeOK, Trial!Trials
  <2> QED
    BY <2>3, <2>4, <2>5, TrialStays
<1>6. CASE Trial!ReadConfig
  <2>1. /\ original' = config /\ phase' \in {"done", "refused", "staged"}
        /\ phase' = "staged" => ~config.changed
        /\ UNCHANGED <<config, trials, turn, right, decision, late>>
    BY <1>6 DEF Trial!ReadConfig
  <2>2. Trial!TypeOK'
    BY <1>1, <2>1 DEF Trial!TypeOK, Trial!Trials
  <2> QED
    BY <2>1, <2>2, TrialStays
<1>7. CASE Trial!Compare
  <2>1. /\ phase = "staged" /\ phase' \in {"compared", "refused"}
        /\ phase' = "compared" => config = original
        /\ UNCHANGED <<config, trials, turn, right, original, decision, late>>
    BY <1>7 DEF Trial!Compare
  <2>2. Trial!TypeOK'
    BY <1>1, <2>1 DEF Trial!TypeOK, Trial!Trials
  <2>3. ~original.changed
    BY <2>1 DEF Trial!IInv
  <2> QED
    BY <2>1, <2>2, <2>3, TrialStays
<1>8. CASE Trial!Replace
  <2>1. /\ phase' = "done"
        /\ UNCHANGED <<trials, turn, right, original, decision, late>>
    BY <1>8 DEF Trial!Replace
  <2>2. config' \in Trial!Config
    BY <1>1, <1>8, ConfigOf DEF Trial!Replace
  <2>3. Trial!TypeOK'
    BY <1>1, <2>1, <2>2 DEF Trial!TypeOK, Trial!Trials
  <2> QED
    BY <2>1, <2>3, TrialStays
<1>9. CASE Trial!EditConfig
  <2>1. /\ late' = (late \/ phase = "compared")
        /\ UNCHANGED <<trials, turn, right, phase, original, decision>>
    BY <1>9 DEF Trial!EditConfig
  <2>2. config' \in Trial!Config
    BY <1>1, <1>9, ConfigOf DEF Trial!EditConfig
  <2>3. late' \in BOOLEAN /\ (phase' = "compared" => late')
    BY <1>1, <2>1 DEF Trial!TypeOK
  <2>4. Trial!TypeOK'
    BY <1>1, <2>1, <2>2, <2>3 DEF Trial!TypeOK, Trial!Trials
  <2>5. phase' \in {"staged", "compared"} => ~original'.changed
    BY <2>1 DEF Trial!IInv
  <2> QED
    BY <2>1, <2>3, <2>4, <2>5, TrialStays
<1>10. CASE UNCHANGED Trial!vars
  <2>1. UNCHANGED <<config, trials, turn, right, phase, original, decision, late>>
    BY <1>10 DEF Trial!vars
  <2>2. Trial!TypeOK'
    BY <1>1, <2>1 DEF Trial!TypeOK, Trial!Trials
  <2>3. /\ phase' \in {"staged", "compared"} => ~original'.changed
        /\ phase' = "compared" => late' \/ config' = original'
    BY <2>1 DEF Trial!IInv
  <2> QED
    BY <2>1, <2>2, <2>3, TrialStays
<1> QED
  BY <1>2, <1>3, <1>4, <1>5, <1>6, <1>7, <1>8, <1>9, <1>10 DEF Trial!Next

LEMMA TrialInvariance == ToolsSpec => []Trial!IInv
BY EachBehaves, TrialBegins, TrialKeeps, PTL

(* One kind of cost of the variant that was chosen.                        *)
LEMMA ChosenWithin ==
  ASSUME Trial!IInv, decision # Trial!None, NEW kind \in Kinds
  PROVE  \E mine \in SUBSET Trial!Of(trials, decision),
            theirs \in SUBSET Trial!Of(trials, Variants[1]) :
           /\ 2 * Cardinality(mine) >= Repeats
           /\ 2 * Cardinality(theirs) >= Repeats
           /\ \A i \in mine, j \in theirs : Trial!Within(i, j, kind)
<1> DEFINE base == Variants[1]
           Cost(i) == trials[i].usage[kind]
           limit == Trial!Limits[kind]
           bound == CostOf(trials, decision, kind)
           whole == CostOf(trials, base, kind)
<1>1. trials \in Seq(Trial!Trial) /\ decision = Trial!Decision(trials)
  BY DEF Trial!IInv, Trial!TypeOK
<1>2. /\ Repeats >= 2 /\ Trial!Complete(trials, base)
      /\ Trial!Complete(trials, decision) /\ Trial!Wins(trials, decision)
  BY <1>1, DecisionOf, ToolsAssumption DEF Trial!Wins
<1>3. limit \in Nat
  BY DEF Trial!Limits, Kinds
<1>4. 100 * bound <= limit * whole
  <2>1. /\ 100 * Trial!Tokens(trials, decision) <= 85 * Trial!Tokens(trials, base)
        /\ 100 * Trial!Seconds(trials, decision) <= 110 * Trial!Seconds(trials, base)
    BY <1>2 DEF Trial!Wins
  <2>2. CASE kind = "tokens"
    BY <2>1, <2>2 DEF CostOf, Trial!Limits
  <2>3. CASE kind = "seconds"
    BY <2>1, <2>3 DEF CostOf, Trial!Limits
  <2> QED
    BY <2>2, <2>3 DEF Kinds
<1>5. PICK low \in Nat :
        /\ 2 * low <= bound
        /\ 2 * Cardinality({i \in Trial!Of(trials, decision) :
                              Cost(i) <= low}) >= Repeats
  BY <1>1, <1>2, CostsOf
<1>6. PICK high \in Nat :
        /\ whole <= 2 * high
        /\ 2 * Cardinality({i \in Trial!Of(trials, base) :
                              Cost(i) >= high}) >= Repeats
  BY <1>1, <1>2, CostsOf
<1>7. bound \in Nat /\ whole \in Nat
  BY <1>1, <1>2, CostsOf
<1>8. 100 * low <= limit * high
  <2> HIDE DEF bound, whole, limit
  <2>1. CASE limit = 85
    BY <1>4, <1>5, <1>6, <1>7, <2>1
  <2>2. CASE limit = 110
    BY <1>4, <1>5, <1>6, <1>7, <2>2
  <2>3. limit \in {85, 110}
    BY DEF limit, Trial!Limits, Kinds
  <2> QED
    BY <2>1, <2>2, <2>3
<1> DEFINE mine == {i \in Trial!Of(trials, decision) : Cost(i) <= low}
           theirs == {i \in Trial!Of(trials, base) : Cost(i) >= high}
<1>9. ASSUME NEW i \in mine, NEW j \in theirs
      PROVE  100 * Cost(i) <= limit * Cost(j)
  <2>1. Cost(i) \in Nat /\ Cost(j) \in Nat /\ Cost(i) <= low /\ Cost(j) >= high
    BY <1>1, TrialsOf DEF Kinds
  <2>2. limit \in {85, 110}
    BY DEF Trial!Limits, Kinds
  <2> HIDE DEF Cost, limit
  <2> QED
    BY <1>8, <2>1, <2>2
<1>10. /\ mine \in SUBSET Trial!Of(trials, decision)
       /\ theirs \in SUBSET Trial!Of(trials, base)
  OBVIOUS
<1> QED
  BY <1>5, <1>6, <1>9, <1>10 DEF Trial!Within

LEMMA LimitOfSums ==
  ASSUME NEW w \in Nat, NEW x \in Nat, NEW y \in Nat \ {0}, NEW z \in Nat \ {0},
         NEW l \in {85, 110}, 100 * w <= l * y, 100 * x <= l * z
  PROVE  y + z > 0 /\ 100 * (w + x) <= l * (y + z)
<1>1. CASE l = 85
  BY <1>1
<1>2. CASE l = 110
  BY <1>2
<1> QED
  BY <1>1, <1>2

(* A variant whose trials all keep within the limits is not passed over.   *)
LEMMA NoneMissed ==
  ASSUME Trial!IInv, Repeats >= 3, Trial!Complete(trials, Variants[1]),
         NEW v \in Trial!Names \ {Variants[1]}, Trial!Complete(trials, v),
         \A i \in Trial!Of(trials, v), j \in Trial!Of(trials, Variants[1]),
            kind \in Kinds :
           Trial!Within(i, j, kind) /\ trials[j].usage[kind] # 0
  PROVE  decision # Trial!None
<1> DEFINE base == Variants[1]
<1>1. trials \in Seq(Trial!Trial) /\ decision = Trial!Decision(trials)
  BY DEF Trial!IInv, Trial!TypeOK
<1>2. Repeats >= 2
  BY ToolsAssumption
<1>3. ASSUME NEW kind \in Kinds
      PROVE  /\ CostOf(trials, base, kind) > 0
             /\ 100 * CostOf(trials, v, kind)
                  <= Trial!Limits[kind] * CostOf(trials, base, kind)
  <2> DEFINE Cost(i) == trials[i].usage[kind]
             limit == Trial!Limits[kind]
  <2>1. PICK a, b \in Trial!Of(trials, v) :
          CostOf(trials, v, kind) = Cost(a) + Cost(b)
    BY <1>1, <1>2, CostsOf
  <2>2. PICK c, d \in Trial!Of(trials, base) :
          CostOf(trials, base, kind) = Cost(c) + Cost(d)
    BY <1>1, <1>2, CostsOf
  <2>3. /\ Cost(a) \in Nat /\ Cost(b) \in Nat
        /\ Cost(c) \in Nat \ {0} /\ Cost(d) \in Nat \ {0}
    BY <1>1, TrialsOf DEF Kinds
  <2>4. 100 * Cost(a) <= limit * Cost(c) /\ 100 * Cost(b) <= limit * Cost(d)
    BY DEF Trial!Within
  <2>5. limit \in {85, 110}
    BY DEF Trial!Limits, Kinds
  <2> HIDE DEF Cost, limit
  <2>6. /\ Cost(c) + Cost(d) > 0
        /\ 100 * (Cost(a) + Cost(b)) <= limit * (Cost(c) + Cost(d))
    BY <2>3, <2>4, <2>5, LimitOfSums
  <2> QED
    BY <2>1, <2>2, <2>6 DEF limit
<1>4. /\ Trial!Tokens(trials, base) > 0
      /\ 100 * Trial!Tokens(trials, v) <= 85 * Trial!Tokens(trials, base)
  BY <1>3 DEF CostOf, Trial!Limits, Kinds
<1>5. /\ Trial!Seconds(trials, base) > 0
      /\ 100 * Trial!Seconds(trials, v) <= 110 * Trial!Seconds(trials, base)
  BY <1>3 DEF CostOf, Trial!Limits, Kinds
<1>6. Trial!Wins(trials, v)
  BY <1>4, <1>5 DEF Trial!Wins
<1>7. decision \in Trial!Names
  BY <1>1, <1>6, ChoiceOf
<1> QED
  BY <1>7, ToolsAssumption DEF Trial!Names, Trial!None

(* An eligible variant was tried completely and soundly, and at least half *)
(* of its trials keep within either limit against at least half of the     *)
(* baseline's; and where all trials do so, there is one (decision).        *)
THEOREM DecisionsAreRight == ToolsSpec => []DecisionIsRight
<1>1. Trial!IInv => DecisionIsRight
  <2> SUFFICES ASSUME Trial!IInv PROVE Trial!DecisionIsRight
    BY DEF DecisionIsRight
  <2> DEFINE base == Variants[1]
  <2>1. trials \in Seq(Trial!Trial) /\ decision = Trial!Decision(trials)
    BY DEF Trial!IInv, Trial!TypeOK
  <2>2. ASSUME decision # Trial!None,
               NEW v \in {decision, base}, NEW r \in 0..(Repeats - 1)
        PROVE  \E i \in Trial!Of(trials, v) :
                 trials[i].repeat = r /\ trials[i].sound
    <3>1. Trial!Complete(trials, v)
      BY <2>1, <2>2, DecisionOf DEF Trial!Wins
    <3>2. PICK i \in Trial!Of(trials, v) : trials[i].repeat = r
      BY <3>1 DEF Trial!Complete
    <3>3. trials[i].counts /\ i \in DOMAIN trials
      BY <3>1, <2>1, TrialsOf DEF Trial!Complete
    <3> QED
      BY <3>2, <3>3 DEF Trial!IInv
  <2>3. ASSUME decision # Trial!None, NEW kind \in {"tokens", "seconds"}
        PROVE  \E mine \in SUBSET Trial!Of(trials, decision),
                  theirs \in SUBSET Trial!Of(trials, base) :
                 /\ 2 * Trial!Cardinality(mine) >= Repeats
                 /\ 2 * Trial!Cardinality(theirs) >= Repeats
                 /\ \A i \in mine, j \in theirs : Trial!Within(i, j, kind)
    BY <2>3, ChosenWithin, SameCardinality DEF Kinds
  <2>4. ASSUME Repeats >= 3, Trial!Complete(trials, base),
               decision = Trial!None,
               NEW v \in Trial!Names \ {base}, Trial!Complete(trials, v)
        PROVE  \E i \in Trial!Of(trials, v), j \in Trial!Of(trials, base),
                  kind \in {"tokens", "seconds"} :
                 ~Trial!Within(i, j, kind) \/ trials[j].usage[kind] = 0
    BY <2>4, NoneMissed DEF Kinds
  <2> QED
    BY <2>2, <2>3, <2>4 DEF Trial!DecisionIsRight
<1> QED
  BY <1>1, TrialInvariance, PTL

(* The cleanup loses no edit of the person but one that comes after its    *)
(* last look (remove_trial_trust).                                         *)
THEOREM CleanupKeepsEdits == ToolsSpec => PersonalEditsSurvive
<1> DEFINE A == config'.edits < config.edits
                  \/ (config.changed /\ ~config'.changed) => late
<1>1. Trial!IInv /\ Trial!Next => A
  <2> SUFFICES ASSUME Trial!IInv, Trial!Next PROVE A
    OBVIOUS
  <2>1. config \in Trial!Config /\ config.edits \in Nat
    BY DEF Trial!IInv, Trial!TypeOK, Trial!Config
  <2>2. ASSUME config'.edits = config.edits, config'.changed = config.changed
        PROVE  A
    BY <2>1, <2>2
  <2>3. CASE Trial!EditConfig
    BY <2>1, <2>3 DEF Trial!EditConfig, Trial!Config
  <2>4. CASE Trial!Replace
    <3>1. late \/ config = original
      BY <2>4 DEF Trial!Replace, Trial!IInv
    <3>2. ~original.changed
      BY <2>4 DEF Trial!Replace, Trial!IInv
    <3>3. original \in Trial!Config
      BY DEF Trial!IInv, Trial!TypeOK
    <3>4. config'.edits = original.edits
      BY <2>4, <3>3 DEF Trial!Replace, Trial!Config
    <3> QED
      BY <2>1, <3>1, <3>2, <3>4
  <2>5. CASE ~Trial!EditConfig /\ ~Trial!Replace
    <3>1. \/ UNCHANGED config
          \/ \E b \in BOOLEAN : config' = [config EXCEPT !.trusted = b]
      BY <2>1, <2>5 DEF Trial!Next, Trial!Turn, Trial!TurnFails, Trial!Quality,
                        Trial!Interrupt, Trial!ReadConfig, Trial!Compare,
                        Trial!Config
    <3>2. config'.edits = config.edits /\ config'.changed = config.changed
      BY <2>1, <3>1 DEF Trial!Config
    <3> QED
      BY <2>2, <3>2
  <2> QED
    BY <2>3, <2>4, <2>5
<1>2. Trial!IInv /\ [Trial!Next]_Trial!vars => [A]_Trial!vars
  BY <1>1
<1> HIDE DEF A
<1>3. ToolsSpec => [][A]_Trial!vars
  BY <1>2, TrialInvariance, EachBehaves, PTL
<1> QED
  BY <1>3 DEF A, PersonalEditsSurvive, Trial!PersonalEditsSurvive

(***************************************************************************)
(* All of the tools.                                                       *)
(***************************************************************************)
(* Every variable of every part keeps its type.                            *)
THEOREM ToolsTypesCorrect == ToolsSpec => []ToolsTypeOK
<1>1. ToolsSpec => []TypeOK
  <2>1. IInv => TypeOK
    BY DEF IInv
  <2> QED
    BY <2>1, EachBehaves, Invariance, PTL
<1>2. ToolsSpec => []Web!TypeOK
  <2>1. Web!IInv => Web!TypeOK
    BY DEF Web!IInv
  <2> QED
    BY <2>1, EachBehaves, Web!Invariance, PTL
<1>3. ToolsSpec => []Page!TypeOK
  <2>1. Page!IInv => Page!TypeOK
    BY DEF Page!IInv
  <2> QED
    BY <2>1, CacheInvariance, PTL
<1>4. ToolsSpec => []Trial!TypeOK
  <2>1. Trial!IInv => Trial!TypeOK
    BY DEF Trial!IInv
  <2> QED
    BY <2>1, TrialInvariance, PTL
<1>5. ToolsSpec => []Deploy!TypeOK
  BY EachBehaves, DeployBounds, Deploy!TypeCorrect, PTL
<1>6. TypeOK /\ Web!TypeOK /\ Page!TypeOK /\ Shared!TypeOK /\ Trial!TypeOK
        /\ Allow!TypeOK /\ Deploy!TypeOK => ToolsTypeOK
  BY DEF ToolsTypeOK
<1> QED
  BY <1>1, <1>2, <1>3, <1>4, <1>5, <1>6, AllowlistTypes, ServiceInvariance, PTL
=============================================================================
