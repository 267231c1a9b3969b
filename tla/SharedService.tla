---------------------------- MODULE SharedService ----------------------------
(***************************************************************************)
(* `ade provider ID --shared`: supervise of ade/cli.py.  Each of several   *)
(* processes may try to own the one loopback endpoint of a shared-local    *)
(* provider: it looks whether the endpoint is in use, starts a child in a  *)
(* session of its own, waits until the endpoint answers, then for the      *)
(* child.  A SIGTERM that it can handle is passed on to the child; in the  *)
(* end it stops the child itself, with a SIGKILL if need be.               *)
(*                                                                         *)
(* A child listens, or exits because another one does; it may exit at any  *)
(* time.  Whoever answers, the endpoint is ready: the look and the bind of *)
(* two supervisors interleave, and the code does not tell whose child it   *)
(* is.  The port cmd/ade/main.go passes SIGINT on as well.                 *)
(***************************************************************************)
EXTENDS Integers

CONSTANTS
  Supervisors,
  MaxSignals    \* bound: how many signals are sent to supervisors

VARIABLES
  step,      \* where each supervisor is
  child,     \* its child
  asked,     \* whose child was sent a SIGTERM
  listener,  \* whose child listens at the endpoint; {}: nobody's
  signals,   \* how many signals were sent
  severed    \* history variable: supervisors that a signal ended at once

vars == <<step, child, asked, listener, signals, severed>>

Steps == {"idle", "free", "spawned", "watching", "serving", "restored",
          "stopping"}

TypeOK ==
  /\ step \in [Supervisors -> Steps]
  /\ child \in [Supervisors -> {"none", "starting", "listening"}]
  /\ asked \subseteq Supervisors /\ severed \subseteq Supervisors
  /\ listener \subseteq Supervisors
  /\ signals \in Nat

Init ==
  /\ step = [s \in Supervisors |-> "idle"]
  /\ child = [s \in Supervisors |-> "none"]
  /\ asked = {} /\ severed = {}
  /\ listener = {}
  /\ signals = 0

Is(s, place) == step[s] = place
Goto(s, place) == step' = [step EXCEPT ![s] = place]
Gone(s) == child[s] = "none"

(* The child is dead, and so reaped by the next poll or wait.              *)
End(s) ==
  /\ child' = [child EXCEPT ![s] = "none"]
  /\ listener' = listener \ {s}
  /\ asked' = asked \ {s}

(***************************************************************************)
(* The child.                                                              *)
(***************************************************************************)
Listen(s) ==
  /\ child[s] = "starting"
  /\ IF listener = {}
     THEN /\ child' = [child EXCEPT ![s] = "listening"]
          /\ listener' = {s}
          /\ UNCHANGED asked
     ELSE End(s)
  /\ UNCHANGED <<step, signals, severed>>

ChildExits(s) ==
  /\ ~Gone(s)
  /\ End(s)
  /\ UNCHANGED <<step, signals, severed>>

(***************************************************************************)
(* supervise.                                                              *)
(***************************************************************************)
(* A new process: the child of the one before it, if any, is gone.         *)
FindFree(s) ==
  /\ Is(s, "idle") /\ Gone(s)
  /\ listener = {}
  /\ Goto(s, "free")
  /\ severed' = severed \ {s}
  /\ UNCHANGED <<child, asked, listener, signals>>

Spawn(s) ==
  /\ Is(s, "free")
  /\ child' = [child EXCEPT ![s] = "starting"]
  /\ Goto(s, "spawned")
  /\ UNCHANGED <<asked, listener, signals, severed>>

(* From here on a SIGTERM is passed on.                                    *)
Handle(s) ==
  /\ Is(s, "spawned")
  /\ Goto(s, "watching")
  /\ UNCHANGED <<child, asked, listener, signals, severed>>

Ready(s) ==
  /\ Is(s, "watching") /\ ~Gone(s) /\ listener # {}
  /\ Goto(s, "serving")
  /\ UNCHANGED <<child, asked, listener, signals, severed>>

(* Mutant: an error leaves the child alone.                                *)
NotReadyLeaves(s) ==
  /\ Is(s, "watching")
  /\ Goto(s, "idle")
  /\ UNCHANGED <<child, asked, listener, signals, severed>>

(* The child has exited, or 20 seconds have passed.                        *)
NotReady(s) ==
  /\ Is(s, "watching")
  /\ Goto(s, "restored")
  /\ UNCHANGED <<child, asked, listener, signals, severed>>

Waited(s) ==
  /\ Is(s, "serving") /\ Gone(s)
  /\ Goto(s, "restored")
  /\ UNCHANGED <<child, asked, listener, signals, severed>>

(* finally: the old handler is back; a child that lives is told to stop.   *)
Stop(s) ==
  /\ Is(s, "restored")
  /\ Goto(s, IF Gone(s) THEN "idle" ELSE "stopping")
  /\ asked' = IF Gone(s) THEN asked ELSE asked \cup {s}
  /\ UNCHANGED <<child, listener, signals, severed>>

Stopped(s) ==
  /\ Is(s, "stopping") /\ Gone(s)
  /\ Goto(s, "idle")
  /\ UNCHANGED <<child, asked, listener, signals, severed>>

(* Mutant: a child that does not stop is told again.                       *)
KillChildAsks(s) ==
  /\ Is(s, "stopping") /\ ~Gone(s)
  /\ asked' = asked \cup {s}
  /\ UNCHANGED <<step, child, listener, signals, severed>>

(* After five seconds.                                                     *)
KillChild(s) ==
  /\ Is(s, "stopping") /\ ~Gone(s)
  /\ End(s)
  /\ Goto(s, "idle")
  /\ UNCHANGED <<signals, severed>>

(***************************************************************************)
(* Signals to the supervisor.                                              *)
(***************************************************************************)
Signal == signals < MaxSignals /\ signals' = signals + 1

(* The process ends at once; its child goes on.                            *)
Sever(s) ==
  /\ Goto(s, "idle")
  /\ severed' = severed \cup {s}
  /\ UNCHANGED <<child, asked, listener>>

Terminate(s) ==
  /\ ~Is(s, "idle") /\ Signal
  /\ IF step[s] \in {"watching", "serving"}
     THEN /\ asked' = IF Gone(s) THEN asked ELSE asked \cup {s}
          /\ UNCHANGED <<step, child, listener, severed>>
     ELSE Sever(s)

(* KeyboardInterrupt runs the finally clause, once.                        *)
Interrupt(s) ==
  /\ ~Is(s, "idle") /\ Signal
  /\ IF step[s] \in {"watching", "serving"}
     THEN Goto(s, "restored") /\ UNCHANGED <<child, asked, listener, severed>>
     ELSE Sever(s)

Kill(s) == ~Is(s, "idle") /\ Signal /\ Sever(s)

(***************************************************************************)
(* The specification.                                                      *)
(***************************************************************************)
Supervise(s) ==
  \/ Spawn(s) \/ Handle(s) \/ Ready(s) \/ NotReady(s) \/ Waited(s)
  \/ Stop(s) \/ Stopped(s) \/ KillChild(s)

Next ==
  \E s \in Supervisors :
    \/ FindFree(s) \/ Supervise(s)
    \/ Listen(s) \/ ChildExits(s)
    \/ Terminate(s) \/ Interrupt(s) \/ Kill(s)

(* A supervisor is scheduled.  A child honours a SIGTERM that is passed on:*)
(* supervise has no SIGKILL then.                                          *)
Fairness ==
  \A s \in Supervisors :
    /\ WF_vars(Supervise(s))
    /\ WF_vars(s \in asked /\ step[s] \in {"watching", "serving"} /\ ChildExits(s))

Spec == Init /\ [][Next]_vars /\ Fairness

(***************************************************************************)
(* Properties.                                                             *)
(***************************************************************************)
(* "always reap the process we spawned" (cli.py), wherever the supervisor  *)
(* gives up and whoever owns the endpoint, unless a signal ended it where  *)
(* it has no handler.                                                      *)
Reaped ==
  \A s \in Supervisors : Is(s, "idle") /\ ~Gone(s) => s \in severed

(* "passes stop signals on" (docs/ade-runtime.md): supervise ends after a  *)
(* SIGTERM it can handle, also when the child was not ready yet.           *)
TerminationEnds ==
  \A s \in Supervisors :
    s \in asked /\ step[s] \in {"watching", "serving"} ~> Is(s, "idle")
=============================================================================
