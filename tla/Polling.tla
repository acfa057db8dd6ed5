------------------------------- MODULE Polling -------------------------------
(***************************************************************************)
(* Publishing from outside: the polling adapter asks its sources for the   *)
(* counters of some stages, which may answer in part, late or not at all,  *)
(* and restart (internal/adapter/, internal/adapter/restsource/).          *)
(*                                                                         *)
(* The metrics of a stage are a function from the fields that were found   *)
(* to their values: its domain is the mask.                                *)
(***************************************************************************)
EXTENDS Windows

CONSTANTS
  AdapterID,          \* cfg.PipelineID
  Sources,            \* sequence: the stages each source is configured for
  NameOrder,          \* the stages of all sources, sorted by name
  Required,           \* fields in whose absence a stage is left out
  OptionalFields,     \* configured fields that may be missing
  PollInterval,
  StalenessWindows,
  MaxCount            \* bound: completions of a stage

VARIABLES
  counter,            \* [stage -> its counter at the source]
  total,              \* [stage -> what it has really completed]
  tracker             \* [stage with a baseline -> [prev, prevTime, missed]]

pollingVars == <<counter, total, tracker>>

Cumulative == {"completions", "failures", "arrivals", "busy", "idle", "blocked"}
FieldNames == Cumulative \cup {"queueDepth", "workers"}
Polled == UNION {Sources[k] : k \in DOMAIN Sources}

\* Config.Validate, with the defaults of LoadConfig.
Validate ==
  /\ AdapterID # NoName /\ PollInterval > 0 /\ Sources # <<>>
  /\ Required \cup OptionalFields # {} /\ Required \cup OptionalFields \subseteq FieldNames
  /\ \A k \in DOMAIN Sources : Sources[k] # {} /\ NoName \notin Sources[k]
  /\ \A j, k \in DOMAIN Sources : j # k => Sources[j] \cap Sources[k] = {}
  /\ NameOrder \in Seq(Polled) /\ ToSet(NameOrder) = Polled /\ StalenessWindows \in Int \ {0}
ASSUME PollingAssumption == Validate /\ Polled \subseteq StageNames

PollingInit ==
  /\ counter = [s \in Polled |-> 0] /\ total = counter
  /\ tracker = <<>>

\* The system that is polled: it works, and restarts from zero.
Progress(s) ==
  /\ total[s] < MaxCount
  /\ counter' = [counter EXCEPT ![s] = @ + 1] /\ total' = [total EXCEPT ![s] = @ + 1]
  /\ UNCHANGED <<tracker, clock, transportVars, windowVars>>
Restart(s) ==
  /\ counter[s] > 0 /\ s \notin restarted
  /\ counter' = [counter EXCEPT ![s] = 0] /\ restarted' = restarted \cup {s}
  /\ UNCHANGED <<total, tracker, clock, transportVars, told, skipped, latest>>
------------------------------------------------------------------------------
(* One poll cycle.                                                         *)

\* extractStage: a missing optional field only leaves the mask, and so does any
\* field, a required one too, whose value is not finite.
Extract(s, missing) ==
  [f \in (Required \cup OptionalFields) \ missing |->
     CASE f \in Cumulative -> counter[s] [] f = "queueDepth" -> 0 [] f = "workers" -> 1]

\* The stages that were found in the answers, and the fields missing in each.
\* A source that fails is one of which nothing was found, and a stage of which
\* a required field is absent is not found.
Polls == UNION {{[s \in found |-> Extract(s, missing[s])]
                   : missing \in [found -> SUBSET (Required \cup OptionalFields)]}
                : found \in SUBSET Polled}

Delta(old, new, f) == IF f \in DOMAIN old \cap DOMAIN new THEN SafeDelta(old[f], new[f]) ELSE 0
Gauge(new, f) == IF f \in DOMAIN new THEN new[f] ELSE 0

ComputeObservation(s, old, new, elapsed) ==
  LET both == DOMAIN old \cap DOMAIN new IN
  [stage |-> s,
   mask |-> (both \cap (OptionalWork \cup {"completions", "failures"})) \cup (DOMAIN new \cap {"queueDepth"}),
   completions |-> Delta(old, new, "completions"), failures |-> Delta(old, new, "failures"),
   arrivals |-> Delta(old, new, "arrivals"), busy |-> Delta(old, new, "busy"),
   idle |-> Delta(old, new, "idle"), blocked |-> Delta(old, new, "blocked"),
   queueDepth |-> Gauge(new, "queueDepth"), workers |-> Gauge(new, "workers"),
   capacity |-> IF "workers" \in both THEN ((old.workers + new.workers) * elapsed) \div 2 ELSE 0]

\* Mutant of NextBaselines: a stage keeps its first baseline.
NextBaselinesKept(current) ==
  [s \in DOMAIN current |-> IF s \in DOMAIN tracker THEN tracker[s]
                            ELSE [prev |-> current[s], prevTime |-> clock, missed |-> 0]]

NextBaselines(current) ==
  [s \in DOMAIN current |-> [prev |-> current[s], prevTime |-> clock, missed |-> 0]]

\* Stages that were missed too often lose their baseline; a limit below zero
\* is none.
Missed(current) ==
  LET absent == {s \in DOMAIN tracker \ DOMAIN current :
                   StalenessWindows > 0 => tracker[s].missed + 1 < StalenessWindows}
  IN  [s \in absent |-> [tracker[s] EXCEPT !.missed = @ + 1]]

NextTracker(current) ==
  LET baselines == NextBaselines(current)
      missed == Missed(current)
  IN  [s \in DOMAIN baselines \cup DOMAIN missed |->
         IF s \in DOMAIN baselines THEN baselines[s] ELSE missed[s]]

\* DeltaTracker.Step, with the observations in the order of the names.
Comparable(current) == {s \in DOMAIN current \cap DOMAIN tracker : clock > tracker[s].prevTime}
Observations(current) ==
  LET seq == FlattenSeq([k \in DOMAIN NameOrder |->
               IF NameOrder[k] \in Comparable(current) THEN <<NameOrder[k]>> ELSE <<>>])
  IN  [k \in DOMAIN seq |-> ComputeObservation(seq[k], tracker[seq[k]].prev, current[seq[k]],
                                               clock - tracker[seq[k]].prevTime)]

\* A cycle in which nothing was polled ends before the tracker's step.
DoPollCycle ==
  /\ \E current \in Polls \ {<<>>} :
       LET observations == Observations(current) IN
       /\ tracker' = NextTracker(current)
       /\ KeepAccounts(observations,
            [s \in {x \in DOMAIN current : "completions" \in DOMAIN current[x]} |-> total[s]])
       /\ IF observations = <<>> THEN UNCHANGED transportVars
          ELSE PublishObservations([pipeline |-> AdapterID, timestamp |-> clock,
                                    duration |-> PollInterval, observations |-> observations])
  /\ UNCHANGED <<counter, total, clock>>

PollingStep == DoPollCycle \/ \E s \in Polled : Progress(s) \/ Restart(s)
==============================================================================
