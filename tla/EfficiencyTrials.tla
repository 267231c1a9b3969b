--------------------------- MODULE EfficiencyTrials ---------------------------
(***************************************************************************)
(* The experiment of scripts/codex_efficiency.py: every variant of the     *)
(* instructions is tried Repeats times, each time with three turns of      *)
(* Codex in a workspace of its own, and a variant is eligible if it was    *)
(* measured to be cheaper than the baseline.  Codex notes each workspace   *)
(* as trusted in the person's own config, from which the experiment takes  *)
(* these entries at its end.  The person may edit the config meanwhile,    *)
(* and may interrupt.                                                      *)
(*                                                                         *)
(* A measure is a record of the tokens and the seconds of a whole trial.   *)
(***************************************************************************)
EXTENDS Integers, Sequences, FiniteSets

CONSTANTS
  Variants,  \* their names in order, the baseline first
  Repeats,   \* how often each is tried
  Measures,  \* what a trial may cost
  MaxEdits   \* bound: how often the person edits the config

VARIABLES
  config,    \* the edits of the person, and the entries of the trials
  trials,    \* the results so far
  turn,      \* the turns done in the trial under way; 4: its checks
  right,     \* whether the answer of its first turn was right
  phase,     \* where main is
  original,  \* the config as the cleanup read it
  decision,  \* the eligible variant
  late       \* history variable: an edit came after the comparison

vars == <<config, trials, turn, right, phase, original, decision, late>>

Names == {Variants[i] : i \in DOMAIN Variants}
Trials == Repeats * Len(Variants)  \* how many there are
None == "none"

(* What is not looked at: the cost of a trial that does not count.         *)
Unmeasured == [tokens |-> 0, seconds |-> 0]

(* `trusted`: there are entries of trials; `changed`: the person has edited*)
(* one of them; `edits` are of anything else, as the fingerprint sees it.  *)
Config == [edits : 0..MaxEdits, trusted : BOOLEAN, changed : BOOLEAN]

Trial == [variant : Names, repeat : 0..(Repeats - 1),
          counts : BOOLEAN,  \* quality_pass and metrics_complete
          usage : Measures \cup {Unmeasured},
          sound : BOOLEAN]  \* history: nothing at all was wrong with it

TypeOK ==
  /\ config \in Config /\ original \in Config
  /\ trials \in Seq(Trial) /\ Len(trials) <= Trials
  /\ turn \in 0..3
  /\ right \in BOOLEAN
  /\ phase \in {"trials", "cleanup", "staged", "compared", "done", "refused"}
  /\ decision \in Names \cup {None}
  /\ late \in BOOLEAN

Untouched == [edits |-> 0, trusted |-> FALSE, changed |-> FALSE]

Init ==
  /\ config = Untouched /\ original = Untouched
  /\ trials = <<>>
  /\ turn = 0
  /\ right = FALSE
  /\ phase = "trials"
  /\ decision = None
  /\ late = FALSE

(***************************************************************************)
(* decision.                                                               *)
(***************************************************************************)
Of(results, v) == {i \in DOMAIN results : results[i].variant = v}

(* The k-th smallest of the values f of S.                                 *)
Ranked(S, f, k) ==
  CHOOSE m \in {f[i] : i \in S} :
    /\ Cardinality({i \in S : f[i] < m}) < k
    /\ Cardinality({i \in S : f[i] <= m}) >= k

(* statistics.median of Repeats values, twice: the two in the middle, which*)
(* are one and the same if their number is odd.                            *)
Median(S, f) ==
  Ranked(S, f, (Repeats + 1) \div 2) + Ranked(S, f, (Repeats \div 2) + 1)

(* Mutant: the trials that count need not be all.                          *)
CompleteSome(results, v) ==
  /\ Cardinality(Of(results, v)) = Repeats
  /\ \E i \in Of(results, v) : results[i].counts

Complete(results, v) ==
  /\ Cardinality(Of(results, v)) = Repeats
  /\ {results[i].repeat : i \in Of(results, v)} = 0..(Repeats - 1)
  /\ \A i \in Of(results, v) : results[i].counts

Tokens(results, v) ==
  Median(Of(results, v), [i \in Of(results, v) |-> results[i].usage.tokens])

Seconds(results, v) ==
  Median(Of(results, v), [i \in Of(results, v) |-> results[i].usage.seconds])

(* A saving of 15 % in at most 110 % of the time.                          *)
Wins(results, v) ==
  LET base == Variants[1]
  IN /\ v # base /\ Complete(results, v)
     /\ Tokens(results, base) > 0 /\ Seconds(results, base) > 0
     /\ 100 * Tokens(results, v) <= 85 * Tokens(results, base)
     /\ 100 * Seconds(results, v) <= 110 * Seconds(results, base)

Better(results, v, w) ==
  \/ Tokens(results, v) < Tokens(results, w)
  \/ /\ Tokens(results, v) = Tokens(results, w)
     /\ Seconds(results, v) <= Seconds(results, w)

Decision(results) ==
  LET winners == IF Repeats >= 3 /\ Complete(results, Variants[1])
                 THEN {v \in Names : Wins(results, v)} ELSE {}
  IN IF winners = {} THEN None
     ELSE CHOOSE v \in winners : \A w \in winners : Better(results, v, w)

(***************************************************************************)
(* The trials; the order of the variants rotates.                          *)
(***************************************************************************)
Repeat == Len(trials) \div Len(Variants)
Variant ==
  Variants[((Repeat + (Len(trials) % Len(Variants))) % Len(Variants)) + 1]

EndTrial(counts, usage, sound) ==
  LET results == Append(trials,
                   [variant |-> Variant, repeat |-> Repeat,
                    counts |-> counts, sound |-> sound,
                    usage |-> IF counts THEN usage ELSE Unmeasured])
  IN /\ trials' = results
     /\ decision' = Decision(results)
     /\ turn' = 0 /\ right' = FALSE
     /\ phase' = IF Len(results) = Trials THEN "cleanup" ELSE phase

(* Mutant: the session is resumed once too often.                          *)
TurnOnceMore(answer) ==
  /\ phase = "trials" /\ turn <= 3
  /\ turn' = turn + 1
  /\ right' = IF turn = 0 THEN answer ELSE right
  /\ config' = [config EXCEPT !.trusted = TRUE]
  /\ UNCHANGED <<trials, phase, original, decision, late>>

(* A turn that ended in time, in its scope and with one complete stream of *)
(* events.  Codex has registered the workspace.                            *)
Turn(answer) ==
  /\ phase = "trials" /\ turn < 3
  /\ turn' = turn + 1
  /\ right' = IF turn = 0 THEN answer ELSE right
  /\ config' = [config EXCEPT !.trusted = TRUE]
  /\ UNCHANGED <<trials, phase, original, decision, late>>

(* A timeout, a changed path outside the task, a stream with an error or   *)
(* without usage: an exception that ends the trial.                        *)
TurnFails ==
  /\ phase = "trials"
  /\ \E entered \in BOOLEAN :
       config' = [config EXCEPT !.trusted = @ \/ entered]
  /\ EndTrial(FALSE, Unmeasured, FALSE)
  /\ UNCHANGED <<original, late>>

(* The code that Codex wrote is checked, its counters must not decrease,   *)
(* and the config must be what it was when the experiment began, up to the *)
(* entries of the trials.                                                  *)
Quality(code, counted, usage) ==
  /\ phase = "trials" /\ turn = 3
  /\ EndTrial(right /\ code /\ counted /\ config.edits = 0, usage,
              right /\ code /\ counted /\ config.edits = 0)
  /\ UNCHANGED <<config, original, late>>

Interrupt ==
  /\ phase = "trials"
  /\ phase' = "cleanup"
  /\ decision' = Decision(trials)
  /\ \E entered \in BOOLEAN :
       config' = [config EXCEPT !.trusted = @ \/ entered]
  /\ UNCHANGED <<trials, turn, right, original, late>>

(***************************************************************************)
(* remove_trial_trust.                                                     *)
(***************************************************************************)
(* An entry that the person has changed is a reason to remove none.        *)
ReadConfig ==
  /\ phase = "cleanup"
  /\ original' = config
  /\ phase' = IF ~config.trusted THEN "done"
              ELSE IF config.changed THEN "refused" ELSE "staged"
  /\ UNCHANGED <<config, trials, turn, right, decision, late>>

(* Mutant: an edit since the config was read goes unnoticed.               *)
CompareNothing ==
  /\ phase = "staged"
  /\ phase' = "compared"
  /\ UNCHANGED <<config, trials, turn, right, original, decision, late>>

Compare ==
  /\ phase = "staged"
  /\ phase' = IF config = original THEN "compared" ELSE "refused"
  /\ UNCHANGED <<config, trials, turn, right, original, decision, late>>

Replace ==
  /\ phase = "compared"
  /\ config' = [original EXCEPT !.trusted = FALSE, !.changed = FALSE]
  /\ phase' = "done"
  /\ UNCHANGED <<trials, turn, right, original, decision, late>>

(***************************************************************************)
(* The person edits the config, maybe an entry of a trial.                 *)
(***************************************************************************)
EditConfig ==
  /\ \/ /\ config.edits < MaxEdits
        /\ config' = [config EXCEPT !.edits = @ + 1]
     \/ /\ config.trusted
        /\ config' = [config EXCEPT !.changed = TRUE]
  /\ late' = (late \/ phase = "compared")
  /\ UNCHANGED <<trials, turn, right, phase, original, decision>>

Next ==
  \/ \E answer \in BOOLEAN : Turn(answer)
  \/ TurnFails
  \/ \E code, counted \in BOOLEAN, usage \in Measures :
       Quality(code, counted, usage)
  \/ Interrupt
  \/ ReadConfig \/ Compare \/ Replace
  \/ EditConfig

Spec == Init /\ [][Next]_vars

(***************************************************************************)
(* Properties.                                                             *)
(***************************************************************************)
(* What a variant may cost, in percent of the baseline.                    *)
Limits == [tokens |-> 85, seconds |-> 110]

Within(i, j, kind) ==
  100 * trials[i].usage[kind] <= Limits[kind] * trials[j].usage[kind]

(* "Require the complete paired battery" (decision): a variant is eligible *)
(* only when nothing was wrong with any trial of it or of the baseline,    *)
(* after an interrupt no less than before, and when at least half of its   *)
(* trials had a saving of 15 %, and at least half took no more than 110 %  *)
(* of the time, against at least half of the baseline's.  And there is one *)
(* as soon as each trial of a complete variant keeps within both limits    *)
(* against each of the baseline, the limits themselves included.           *)
DecisionIsRight ==
  LET base == Variants[1]
  IN /\ decision # None =>
          /\ \A v \in {decision, base}, r \in 0..(Repeats - 1) :
               \E i \in Of(trials, v) : trials[i].repeat = r /\ trials[i].sound
          /\ \A kind \in {"tokens", "seconds"} :
               \E mine \in SUBSET Of(trials, decision),
                  theirs \in SUBSET Of(trials, base) :
                 /\ 2 * Cardinality(mine) >= Repeats
                 /\ 2 * Cardinality(theirs) >= Repeats
                 /\ \A i \in mine, j \in theirs : Within(i, j, kind)
     /\ Repeats >= 3 /\ Complete(trials, base) /\ decision = None =>
          \A v \in Names \ {base} : Complete(trials, v) =>
            \E i \in Of(trials, v), j \in Of(trials, base),
               kind \in {"tokens", "seconds"} :
              ~Within(i, j, kind) \/ trials[j].usage[kind] = 0

(* The cleanup takes back what the experiment put into the config and      *)
(* loses no edit of the person, of other entries or of these, but one that *)
(* comes between its last look and the rename.                             *)
PersonalEditsSurvive ==
  [][config'.edits < config.edits \/ (config.changed /\ ~config'.changed)
       => late]_vars

(* The inductive invariant behind both: the decision is always about the   *)
(* trials so far, a trial that counts is sound, and the cleanup goes on    *)
(* with a config without edited entries that nobody has seen change.       *)
IInv ==
  /\ TypeOK
  /\ phase = "trials" => Len(trials) < Trials
  /\ \A i \in DOMAIN trials : trials[i].counts => trials[i].sound
  /\ decision = Decision(trials)
  /\ phase \in {"staged", "compared"} => ~original.changed
  /\ phase = "compared" => late \/ config = original
=============================================================================
