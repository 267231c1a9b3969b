------------------------------ MODULE RunStore ------------------------------
(***************************************************************************)
(* The update-run store, RunStore of ade/environment.py and of its port    *)
(* internal/ade/environment.go: runs.json, the list of the newest runs,    *)
(* and runs.jsonl, the log of the runs that ended.  Every operation takes  *)
(* .runs.lock for its whole duration and replaces runs.json by a rename,   *)
(* so each operation is one step here.  The log line is appended after the *)
(* rename, so a process that dies between the two leaves the new status    *)
(* without its line.                                                       *)
(*                                                                         *)
(* A run's random identifier is modelled by its rank in creation order:    *)
(* run 1 is the first one created.  The store keeps the Capacity newest.   *)
(***************************************************************************)
EXTENDS Integers, Sequences

CONSTANTS
  MaxRuns,      \* bound: how many runs are ever created
  Capacity,     \* how many runs runs.json keeps (100 in the code)
  Users,        \* account names, the requesters of manual runs
  System,       \* the requester of scheduled runs
  Selections,   \* the component selections a run or a policy may name
  NoSelection   \* the empty list of components

ASSUME MaxRunsAssumption == MaxRuns \in Nat
ASSUME CapacityAssumption == Capacity \in Nat \ {0}
ASSUME NamesAssumption == NoSelection \notin Selections /\ System \notin Users

VARIABLES
  runs,     \* runs.json: the record of every run created so far
  created,  \* how many runs have been created
  history,  \* runs.jsonl: the statuses logged for each run, in order
  torn      \* history variable: runs whose terminal status lost its log line

storeVars == <<runs, created, history, torn>>

RunIds == 1..MaxRuns

Terminal == {"completed", "partial_failure", "failed", "blocked"}

Status == {"absent", "queued", "running"} \cup Terminal

RunRecord == [trigger   : {"manual", "scheduled"},
              by        : Users \cup {System},
              selection : Selections \cup {NoSelection},
              status    : Status]

StoreTypeOK ==
  /\ runs \in [RunIds -> RunRecord]
  /\ created \in 0..MaxRuns
  /\ history \in [RunIds -> Seq(Terminal)]
  /\ torn \subseteq RunIds

StoreInit ==
  /\ runs = [r \in RunIds |-> [trigger |-> "scheduled", by |-> System,
                               selection |-> NoSelection,
                               status |-> "absent"]]
  /\ created = 0
  /\ history = [r \in RunIds |-> <<>>]
  /\ torn = {}

(* Create drops all but the Capacity - 1 newest runs before it prepends.   *)
Stored(r) == r \in 1..created /\ r > created - Capacity

(* The run Create adds: always queued, whatever its trigger.               *)
Create(trigger, by, selection) ==
  /\ created < MaxRuns
  /\ created' = created + 1
  /\ runs' = [runs EXCEPT ![created + 1] =
                [trigger |-> trigger, by |-> by, selection |-> selection,
                 status |-> "queued"]]
  /\ UNCHANGED <<history, torn>>

(* Mutant: only a success is logged.                                       *)
UpdateLogsSuccess(r, status) ==
  /\ Stored(r)
  /\ runs' = [runs EXCEPT ![r].status = status]
  /\ history' = IF status = "completed"
                THEN [history EXCEPT ![r] = Append(@, status)]
                ELSE history
  /\ UNCHANGED <<created, torn>>

(* Update merges a status into a run that is still stored and logs every   *)
(* terminal record, with no condition on the status it replaces.           *)
Update(r, status) ==
  /\ Stored(r)
  /\ runs' = [runs EXCEPT ![r].status = status]
  /\ history' = IF status \in Terminal
                THEN [history EXCEPT ![r] = Append(@, status)]
                ELSE history
  /\ UNCHANGED <<created, torn>>

(* The writer dies after the rename and before the log line.               *)
UpdateTorn(r, status) ==
  /\ Stored(r)
  /\ status \in Terminal
  /\ runs' = [runs EXCEPT ![r].status = status]
  /\ torn' = torn \cup {r}
  /\ UNCHANGED <<created, history>>
=============================================================================
