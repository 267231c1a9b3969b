--------------------------- MODULE UpdateExecution ---------------------------
(***************************************************************************)
(* The execution of one run as a whole: ComponentOrder orders the          *)
(* components, and ExecutionLoop carries them out.                         *)
(***************************************************************************)
EXTENDS ExecutionLoop

Init == OrderInit /\ LoopInit

Order ==
  /\ step = "ordering"
  /\ OrderNext
  /\ UNCHANGED <<position, step, results, failed, ran, verdict>>

Next == Order \/ Turn \/ Kill

(* Every command and probe has a timeout, so each turn ends.               *)
Spec == Init /\ [][Next]_vars /\ WF_vars(Order \/ Turn)

(* Unless the process is killed, the run gets its result.                  *)
ExecutionEnds == <>(step \in {"recorded", "killed"})

(***************************************************************************)
(* The inductive invariant.                                                *)
(***************************************************************************)
(* The loop waits for the order, and from then on the order stays.         *)
Waiting ==
  /\ step = "ordering" => AtRest
  /\ step \notin {"ordering", "killed"} => Finished

IInv == OrderIInv /\ Waiting /\ LoopIInv
=============================================================================
