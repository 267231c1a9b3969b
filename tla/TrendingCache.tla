---------------------------- MODULE TrendingCache ----------------------------
(***************************************************************************)
(* TrendingService of ade/trending.py: the ranking pages that the threads  *)
(* of one process fetch, each kept for a while.  A thread looks into the   *)
(* cache, waits for the lock of its key, looks again, and fetches only if  *)
(* nobody else has meanwhile.  The cache lock is held for single reads and *)
(* writes of the dictionaries, which are steps here.                       *)
(***************************************************************************)
EXTENDS Integers

CONSTANTS
  Threads,
  Keys,        \* the sources and periods that are asked for
  CacheTime,   \* how long an entry is kept
  MaxTime,     \* bound on the clock
  MaxErrors    \* bound: how many requests to a source fail

VARIABLES
  now,      \* time.monotonic
  stored,   \* when the entry of each key was stored; -1: there is none
  holder,   \* who holds the lock of each key
  thread,   \* each thread
  errors    \* how many requests have failed

vars == <<now, stored, holder, thread, errors>>

Thread == [step : {"idle", "asked", "waiting", "checking", "fetching",
                   "parsed"},
           key : Keys, tries : Nat]

TypeOK ==
  /\ now \in Nat
  /\ stored \in [Keys -> Nat \cup {-1}]
  /\ holder \in [Keys -> SUBSET Threads]
  /\ thread \in [Threads -> Thread]

Init ==
  /\ now = 0
  /\ stored = [k \in Keys |-> -1]
  /\ holder = [k \in Keys |-> {}]
  /\ thread = [t \in Threads |->
                [step |-> "idle", key |-> CHOOSE k \in Keys : TRUE, tries |-> 0]]
  /\ errors = 0

Key(t) == thread[t].key
Is(t, step) == thread[t].step = step
Goto(t, step) == thread' = [thread EXCEPT ![t].step = step]
Release(t) == holder' = [holder EXCEPT ![Key(t)] = @ \ {t}]

Cached(k) == stored[k] >= 0 /\ now - stored[k] < CacheTime

Tick ==
  /\ now < MaxTime
  /\ now' = now + 1
  /\ UNCHANGED <<stored, holder, thread, errors>>

Ask(t, k) ==
  /\ Is(t, "idle")
  /\ thread' = [thread EXCEPT ![t] = [step |-> "asked", key |-> k, tries |-> 0]]
  /\ UNCHANGED <<now, stored, holder, errors>>

(* The first look, with the cache lock: an entry, or the lock of the key.  *)
Look(t) ==
  /\ Is(t, "asked")
  /\ Goto(t, IF Cached(Key(t)) THEN "idle" ELSE "waiting")
  /\ UNCHANGED <<now, stored, holder, errors>>

LockKey(t) ==
  /\ Is(t, "waiting")
  /\ holder[Key(t)] = {}
  /\ holder' = [holder EXCEPT ![Key(t)] = {t}]
  /\ Goto(t, "checking")
  /\ UNCHANGED <<now, stored, errors>>

(* Mutant: a thread that has waited fetches at once.                       *)
LookAgainNot(t) ==
  /\ Is(t, "checking")
  /\ Goto(t, "fetching") /\ UNCHANGED holder
  /\ UNCHANGED <<now, stored, errors>>

(* The second look.                                                        *)
LookAgain(t) ==
  /\ Is(t, "checking")
  /\ IF Cached(Key(t)) THEN Goto(t, "idle") /\ Release(t)
                       ELSE Goto(t, "fetching") /\ UNCHANGED holder
  /\ UNCHANGED <<now, stored, errors>>

(* _fetch_html and the parser: there is a second try unless the answer is  *)
(* a final one, and then an exception, which releases the lock.            *)
Fetched(t) ==
  /\ Is(t, "fetching")
  /\ Goto(t, "parsed")
  /\ UNCHANGED <<now, stored, holder, errors>>

(* Mutant: an exception does not release the lock.                         *)
FetchFailsHolding(t) ==
  /\ Is(t, "fetching") /\ errors < MaxErrors
  /\ errors' = errors + 1
  /\ Goto(t, "idle")
  /\ UNCHANGED <<now, stored, holder>>

FetchFails(t) ==
  /\ Is(t, "fetching") /\ errors < MaxErrors
  /\ errors' = errors + 1
  /\ \/ /\ thread[t].tries = 0
        /\ thread' = [thread EXCEPT ![t].tries = 1]
        /\ UNCHANGED holder
     \/ Goto(t, "idle") /\ Release(t)
  /\ UNCHANGED <<now, stored>>

Store(t) ==
  /\ Is(t, "parsed")
  /\ stored' = [stored EXCEPT ![Key(t)] = now]
  /\ Goto(t, "idle") /\ Release(t)
  /\ UNCHANGED <<now, errors>>

Get(t) ==
  Look(t) \/ LockKey(t) \/ LookAgain(t) \/ Fetched(t) \/ FetchFails(t) \/ Store(t)

Next == Tick \/ \E t \in Threads : Get(t) \/ \E k \in Keys : Ask(t, k)

(* The scheduler runs every thread; requests and pages have timeouts.      *)
Fairness == \A t \in Threads : WF_vars(Get(t))

Spec == Init /\ [][Next]_vars /\ Fairness

(***************************************************************************)
(* Properties.                                                             *)
(***************************************************************************)
(* "cache each source/period briefly" (trending.py): no page is fetched by *)
(* two threads at a time, nor while there is an entry young enough.        *)
NoNeedlessFetch ==
  \A t \in Threads :
    thread[t].step \in {"fetching", "parsed"} =>
      /\ ~Cached(Key(t))
      /\ \A u \in Threads \ {t} :
           thread[u].step \in {"fetching", "parsed"} => Key(u) # Key(t)

(* The inductive invariant behind it: who works on a key holds its lock,   *)
(* and who is about to fetch has seen no entry young enough.               *)
Working == {"checking", "fetching", "parsed"}

LockHeld == \A t \in Threads : thread[t].step \in Working => holder[Key(t)] = {t}

NothingYoung ==
  \A t \in Threads : thread[t].step \in {"fetching", "parsed"} => ~Cached(Key(t))

IInv == TypeOK /\ LockHeld /\ NothingYoung

(* Every request is answered or fails, whatever became of the thread it    *)
(* waited for.                                                             *)
RequestsEnd == \A t \in Threads : Is(t, "waiting") ~> Is(t, "idle")
=============================================================================
