-------------------------------- MODULE Convert --------------------------------
(***************************************************************************)
(* What the protobuf conversion accepts and returns (tocpb/convert.go).    *)
(*                                                                         *)
(* An observation carries a mask: the set of optional fields that were     *)
(* observed.  On the wire an optional field is there or not: "opt" is a    *)
(* function from the fields that are there.  Ratios are in hundredths, the *)
(* support freshness in tenths, and NaN stands for every float that is not *)
(* finite.  Work is unsigned, up to WorkMax (2^64 - 1 in the code); an     *)
(* unsupported count has 32 bits on the wire, up to CountMax (2^31 - 1),   *)
(* and more where it comes from.                                           *)
(***************************************************************************)
EXTENDS Integers, Sequences, FiniteSets, SequencesExt

CONSTANTS WorkMax, CountMax, NaN

ASSUME ConvertAssumption == WorkMax \in Nat /\ CountMax \in Nat \ {0} /\ NaN \notin Int

Refused == [refused |-> TRUE]
NoName == ""

--------------------------------------------------------------------------------
(* Observations.                                                           *)

OptionalWork   == {"idle", "blocked"}
OptionalCounts == {"completions", "failures", "queueDepth"}
Optional == OptionalWork \cup OptionalCounts

ObservationToProto(o) ==
  [stage |-> o.stage, busy |-> o.busy, capacity |-> o.capacity,
   arrivals |-> o.arrivals, workers |-> o.workers, opt |-> [f \in o.mask |-> o[f]]]

\* A field that is not on the wire is zero and not in the mask.
Got(pb, f) == IF f \in DOMAIN pb.opt THEN pb.opt[f] ELSE 0
ObservationRead(pb) ==
  [stage |-> pb.stage, mask |-> DOMAIN pb.opt, busy |-> pb.busy, capacity |-> pb.capacity,
   arrivals |-> pb.arrivals, workers |-> pb.workers, idle |-> Got(pb, "idle"),
   blocked |-> Got(pb, "blocked"), completions |-> Got(pb, "completions"),
   failures |-> Got(pb, "failures"), queueDepth |-> Got(pb, "queueDepth")]

Overflows(a, b) == a > WorkMax - b
Plus(a, b) == (a + b) % (WorkMax + 1)

\* Mutant of WorkRefused: the sum is taken first and wraps around.
WorkRefusedWrapped(o) == Plus(Plus(o.busy, o.idle), o.blocked) > o.capacity

\* Busy, idle and blocked time must fit in the capacity; each addition is
\* checked before it is made.
WorkRefused(o) ==
  \/ Overflows(o.busy, o.idle)
  \/ Overflows(Plus(o.busy, o.idle), o.blocked)
  \/ Plus(Plus(o.busy, o.idle), o.blocked) > o.capacity

CountsRefused(o) ==
  \/ \E f \in {"workers", "arrivals"} \cup OptionalCounts : o[f] < 0
  \/ "failures" \in o.mask /\ ("completions" \notin o.mask \/ o.failures > o.completions)

ObservationFromProto(pb) ==
  LET o == ObservationRead(pb) IN
  IF o.stage = NoName \/ CountsRefused(o) \/ WorkRefused(o) THEN Refused ELSE o

BatchToProto(b) ==
  [pipeline |-> b.pipeline, timestamp |-> b.timestamp, duration |-> b.duration,
   observations |-> [k \in DOMAIN b.observations |-> ObservationToProto(b.observations[k])]]

\* One observation that is refused, or a stage that is named twice, refuses
\* the whole batch.
Stages(s) == [k \in DOMAIN s |-> s[k].stage]
BatchFromProto(pb) ==
  LET read == [k \in DOMAIN pb.observations |-> ObservationFromProto(pb.observations[k])]
  IN  IF \/ pb.pipeline = NoName \/ pb.duration <= 0 \/ pb.observations = <<>>
         \/ Refused \in ToSet(read)
         \/ ~IsInjective(Stages(read))
      THEN Refused
      ELSE [pb EXCEPT !.observations = read]

--------------------------------------------------------------------------------
(* Diagnoses.                                                              *)

ConstraintStates == {"Unspecified", "Unknown", "Unconstrained", "Ambiguous", "Emerging", "Identified"}
ConstraintSources == {"Unspecified", "Inferred", "ManualOverride"}
StageStates == {"Unknown", "Healthy", "Starved", "Blocked", "Saturated", "Broken"}

\* The enums keep their names on the wire, except that a stage whose state is
\* not known has the state UNSPECIFIED; a number without a name reads as none.
StageStateToProto(s) == IF s \in StageStates \ {"Unknown"} THEN s ELSE "Unspecified"
StageStateFromProto(s) == IF s \in StageStates \ {"Unknown"} THEN s ELSE "Unknown"
Named(s, names) == IF s \in names THEN s ELSE "Unspecified"

InRange(x, lo, hi) == x # NaN /\ x >= lo /\ x <= hi

OptionalRatios == {"idleRatio", "blockedRatio"}
StageDiagnosisToProto(s) ==
  [stage |-> s.stage, state |-> StageStateToProto(s.state), utilization |-> s.utilization,
   errorRate |-> s.errorRate, queueGrowth |-> s.queueGrowth, completions |-> s.completions,
   failures |-> s.failures, arrivals |-> s.arrivals, ratios |-> s.ratios]

StageDiagnosisFromProto(pb) ==
  IF \/ pb.stage = NoName
     \/ ~InRange(pb.utilization, 0, 100) \/ ~InRange(pb.errorRate, 0, 100)
     \/ \E f \in {"completions", "failures", "arrivals"} : pb[f] < 0
     \/ pb.failures > pb.completions
     \/ \E f \in DOMAIN pb.ratios : ~InRange(pb.ratios[f], 0, 100)
  THEN Refused
  ELSE [pb EXCEPT !.state = StageStateFromProto(pb.state)]

\* int32(n): what the wire cannot hold wraps around.
Narrowed(n) == ((n + CountMax + 1) % (2 * CountMax + 2)) - (CountMax + 1)

DiagnosisToProto(d) ==
  [state |-> Named(d.state, ConstraintStates), source |-> Named(d.source, ConstraintSources),
   constraint |-> d.constraint, candidate |-> d.candidate, fresh |-> d.fresh,
   unsupported |-> Narrowed(d.unsupported), starved |-> d.starved,
   stages |-> [k \in DOMAIN d.stages |-> StageDiagnosisToProto(d.stages[k])]]

\* A peer that does not know the state yet leaves it out: it follows from the
\* names that are set.
InferredState(pb) ==
  LET source == Named(pb.source, ConstraintSources) IN
  CASE pb.constraint # NoName ->
         [state |-> "Identified", source |-> IF source = "Unspecified" THEN "Inferred" ELSE source]
    [] pb.constraint = NoName /\ pb.candidate # NoName -> [state |-> "Emerging", source |-> source]
    [] OTHER -> [state |-> "Unknown", source |-> source]

StateRead(pb) ==
  LET state == Named(pb.state, ConstraintStates)
  IN  IF state = "Unspecified" THEN InferredState(pb)
      ELSE [state |-> state, source |-> Named(pb.source, ConstraintSources)]

DiagnosisFromProto(pb) ==
  LET stages == [k \in DOMAIN pb.stages |-> StageDiagnosisFromProto(pb.stages[k])]
  IN  IF \/ ~InRange(pb.fresh, 0, 10) \/ pb.starved < 0
         \/ Refused \in ToSet(stages)
         \/ ~IsInjective(Stages(stages))
         \/ pb.constraint # NoName /\ pb.constraint \notin ToSet(Stages(stages))
      THEN Refused
      ELSE [state |-> StateRead(pb).state, source |-> StateRead(pb).source, constraint |-> pb.constraint,
            candidate |-> pb.candidate, fresh |-> pb.fresh, unsupported |-> pb.unsupported,
            starved |-> pb.starved, stages |-> stages]

\* Diagnosis.Valid (core/core.go), as the analyzer promises it.
Valid(d) ==
  /\ d.state = "Identified" => d.constraint # NoName /\ d.source # "Unspecified"
  /\ d.state = "Emerging" => d.candidate # NoName /\ d.constraint = NoName
  /\ d.state \notin {"Identified", "Emerging"} => d.constraint = NoName /\ d.candidate = NoName
  /\ d.state # "Identified" => d.source = "Unspecified" /\ d.fresh = 0 /\ d.unsupported <= 0
  /\ d.candidate # NoName => d.candidate # d.constraint

--------------------------------------------------------------------------------
(* What the publishers make.                                               *)

\* An observation: the optional fields that are not in its mask are zero.
Shaped(o) ==
  /\ o = [stage |-> o.stage, mask |-> o.mask, busy |-> o.busy, capacity |-> o.capacity,
          arrivals |-> o.arrivals, workers |-> o.workers, idle |-> o.idle, blocked |-> o.blocked,
          completions |-> o.completions, failures |-> o.failures, queueDepth |-> o.queueDepth]
  /\ o.mask \subseteq Optional
  /\ \A f \in Optional \ o.mask : o[f] = 0

IsBatch(b) ==
  /\ b = [pipeline |-> b.pipeline, timestamp |-> b.timestamp, duration |-> b.duration,
          observations |-> b.observations]
  /\ b.observations = [k \in DOMAIN b.observations |-> b.observations[k]]
  /\ \A k \in DOMAIN b.observations : Shaped(b.observations[k])

\* A stage of a diagnosis as an analyzer makes it: its ratios are finite and in
\* range, failures are completions.
Ratio == 0..100
Ratios == UNION {[fs -> Ratio] : fs \in SUBSET OptionalRatios}
StageRecords(Names) ==
  [stage : Names, state : StageStates, utilization : Ratio, errorRate : Ratio, queueGrowth : Int \cup {NaN},
   completions : Nat, failures : Nat, arrivals : Nat, ratios : Ratios]
SoundStages(Names) == {s \in StageRecords(Names) : s.stage # NoName /\ s.failures <= s.completions}

\* A diagnosis as an analyzer makes it: it names no stage twice.
DiagnosisRecords(Names) ==
  [state : ConstraintStates, source : ConstraintSources, constraint : Names, candidate : Names,
   fresh : 0..10, unsupported : Int, starved : Nat, stages : Seq(SoundStages(Names))]
SoundDiagnoses(Names) ==
  {d \in DiagnosisRecords(Names) : d.state # "Unspecified" /\ IsInjective(Stages(d.stages))}

\* The unsupported counts that the wire can hold.
Counts == -(CountMax + 1)..CountMax

\* The names that occur in a diagnosis.
NamesIn(d) == {d.constraint, d.candidate} \cup ToSet(Stages(d.stages))

--------------------------------------------------------------------------------
(* What the conversion promises, over small values.                        *)

\* The invariants of an observation (core.StageObservation), over the integers.
Sound(o) ==
  /\ o.stage # NoName /\ o.workers >= 0 /\ o.arrivals >= 0
  /\ o.completions >= 0 /\ o.failures >= 0 /\ o.queueDepth >= 0
  /\ "failures" \in o.mask => "completions" \in o.mask /\ o.failures <= o.completions
  /\ o.busy + o.idle + o.blocked <= o.capacity

Blank == [stage |-> "x", mask |-> {}, busy |-> 0, capacity |-> 0, arrivals |-> 0, workers |-> 0,
          idle |-> 0, blocked |-> 0, completions |-> 0, failures |-> 0, queueDepth |-> 0]
WithWork(m, t) ==
  [Blank EXCEPT !.mask = m, !.busy = t[1], !.idle = IF "idle" \in m THEN t[2] ELSE 0,
                !.blocked = IF "blocked" \in m THEN t[3] ELSE 0, !.capacity = t[4]]
WithCounts(n, m, t) ==
  [Blank EXCEPT !.stage = n, !.mask = m, !.arrivals = t[1], !.workers = t[2],
                !.completions = IF "completions" \in m THEN t[3] ELSE 0,
                !.failures = IF "failures" \in m THEN t[4] ELSE 0,
                !.queueDepth = IF "queueDepth" \in m THEN t[5] ELSE 0]
WorkObservations == {WithWork(m, t) : m \in SUBSET OptionalWork, t \in [1..4 -> 0..WorkMax]}
CountObservations ==
  {WithCounts(n, m, t) : n \in {NoName, "x"}, m \in SUBSET OptionalCounts, t \in [1..5 -> -1..1]}

ObservationsSurvive ==
  \A o \in WorkObservations \cup CountObservations :
    ObservationFromProto(ObservationToProto(o)) = IF Sound(o) THEN o ELSE Refused

StageDiagnoses ==
  {[stage |-> "x", state |-> s, utilization |-> u, errorRate |-> 0, queueGrowth |-> -1,
    completions |-> 1, failures |-> f, arrivals |-> 0, ratios |-> r]
     : s \in StageStates, u \in {0, 100}, f \in {0, 1},
       r \in UNION {[fs -> {0, 100}] : fs \in SUBSET OptionalRatios}}
DiagnosesOver(stages) ==
  {[state |-> t[1], source |-> t[2], constraint |-> t[3], candidate |-> t[4], fresh |-> t[5],
    unsupported |-> t[6], starved |-> 1, stages |-> stages]
     : t \in ConstraintStates \X ConstraintSources \X {NoName, "x", "y"} \X {NoName, "x", "y"}
           \X {0, 5, 10} \X {0, 1, CountMax, CountMax + 1}}

\* What is valid arrives as it was sent, except that a constraint that is not
\* among the stages is refused and that an unsupported count beyond 32 bits
\* arrives negative; the state that an older peer leaves out is the one that
\* fits the names.
DiagnosesSurvive ==
  /\ \A s \in StageDiagnoses :
       /\ StageDiagnosisFromProto(StageDiagnosisToProto(s)) = s
       /\ \A bad \in {-1, 101, NaN} :
            StageDiagnosisFromProto(StageDiagnosisToProto([s EXCEPT !.utilization = bad])) = Refused
  /\ \A stages \in {<<>>} \cup {<<s>> : s \in {x \in StageDiagnoses : x.ratios = <<>>}} :
       \A d \in {v \in DiagnosesOver(stages) : Valid(v) /\ v.state # "Unspecified"} :
         LET pb == DiagnosisToProto(d)
             there == d.constraint = NoName \/ d.constraint \in ToSet(Stages(stages))
             got == IF d.unsupported <= CountMax THEN d
                    ELSE [d EXCEPT !.unsupported = -CountMax - 1]
         IN  /\ DiagnosisFromProto(pb) = IF there THEN got ELSE Refused
             /\ d.state \in {"Identified", "Emerging", "Unknown"} /\ there =>
                  DiagnosisFromProto([pb EXCEPT !.state = "Unspecified"]) = got
================================================================================
