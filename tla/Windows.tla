------------------------------- MODULE Windows -------------------------------
(***************************************************************************)
(* What a publisher of observations has told of each stage.  Both of them, *)
(* the callback of PublishOnSnapshot (Snapshots) and the polling adapter   *)
(* (Polling), turn cumulative counters into windows and keep accounts here.*)
(***************************************************************************)
EXTENDS NatsTransport

CONSTANTS
  StageNames,
  MaxTime             \* bound: the clock stops there

VARIABLES
  clock,              \* monotonic time
  told,               \* history: [stage -> completions in all windows so far]
  skipped,            \* history: [stage -> completions a new baseline left out]
  latest,             \* history: [stage -> true completions at the last reading]
  restarted           \* history: stages whose counters have been reset

windowVars == <<told, skipped, latest, restarted>>

WindowsInit ==
  /\ clock = 0
  /\ told = [s \in StageNames |-> 0] /\ skipped = told /\ latest = told
  /\ restarted = {}

\* Both clamp a counter that went down, which means that it was reset.
SafeDelta(prev, curr) == IF curr < prev THEN 0 ELSE curr - prev

\* "seen" maps the stages that were read to their true completions.  Those
\* that the window does not tell of have a new baseline.
Tells(observations, s) ==
  {o \in ToSet(observations) : o.stage = s /\ "completions" \in o.mask}
KeepAccounts(observations, seen) ==
  /\ told' = [s \in StageNames |-> told[s] + (IF Tells(observations, s) = {} THEN 0
                                   ELSE (CHOOSE o \in Tells(observations, s) : TRUE).completions)]
  /\ latest' = [s \in StageNames |-> IF s \in DOMAIN seen THEN seen[s] ELSE latest[s]]
  /\ skipped' = [s \in StageNames |-> IF s \in DOMAIN seen /\ Tells(observations, s) = {}
                                      THEN seen[s] - told[s] ELSE skipped[s]]
  /\ UNCHANGED restarted

Pass ==
  /\ clock < MaxTime /\ clock' = clock + 1
  /\ UNCHANGED <<transportVars, windowVars>>
------------------------------------------------------------------------------
\* The windows of a stage follow on each other: whatever was published, lost or
\* refused, each completion is told in one window, in none only if there is no
\* window for its stage at that reading, or if its counter was reset.
WindowsAddUp ==
  \A s \in StageNames :
    /\ told[s] + skipped[s] <= latest[s]
    /\ s \notin restarted => told[s] + skipped[s] = latest[s]
==============================================================================
