--------------------------- MODULE TransportProofs ---------------------------
(***************************************************************************)
(* The gate between the client's callback and Close, for any number of     *)
(* goroutines that call Close, whatever is published and by whom; and the  *)
(* conversion, for every observation and every diagnosis; and the way from *)
(* counters to handlers.                                                   *)
(***************************************************************************)
EXTENDS Observing, Lemmas, TLAPS

\* Where a goroutine is between once.Do and its return, and of these places
\* those behind the gate.
Inside == {"gate", "cancel", "unsubscribe", "drain"}
Behind == Inside \ {"gate"}

SubscriptionTypeOK ==
  /\ closing \in BOOLEAN
  /\ closer \in [Closers -> Inside \cup {"away", "second", "returned"}]
  /\ once \in {"fresh", "running", "over"}
  /\ subscribed \in {"no", "registered", "yes", "failed"}
  /\ \/ cb = Idle
     \/ /\ cb.at \in {"entered", "handler", "leaving"}
        /\ cb = [at |-> cb.at, msg |-> cb.msg]

\* The counters of the gate: a callback that entered is counted until it
\* leaves, and done is closed by whoever makes the gate shut and empty.
GateCounts ==
  /\ active = IF cb = Idle THEN 0 ELSE 1
  /\ doneCloses = IF closing /\ cb = Idle THEN 1 ELSE 0

\* sync.Once lets one goroutine through the body of Close, which shuts the gate.
OnceInv ==
  /\ \A c \in Closers : closer[c] # "away" => subscribed = "yes" /\ once # "fresh"
  /\ \A c, e \in Closers : closer[c] \in Inside /\ closer[e] \in Inside => c = e
  /\ \A c \in Closers : /\ closer[c] \in Inside => once = "running"
                        /\ closer[c] = "gate" => ~closing
                        /\ closer[c] \in Behind => closing
                        /\ closer[c] = "returned" => closing /\ cb = Idle
  /\ once = "over" => closing /\ cb = Idle
  /\ closing => once # "fresh"

SubscriptionInv == SubscriptionTypeOK /\ GateCounts /\ OnceInv

\* The invariant of the gate holds at first.
LEMMA SubscriptionInvInit == TransportInit => SubscriptionInv
BY DEF TransportInit, SubscriptionInv, SubscriptionTypeOK, GateCounts, OnceInv, Idle, Inside, Behind

\* What the invariant speaks of; a publisher, and a message of another client,
\* change none of it.
gateState == <<subscriptionVars, cb>>

\* Publishing and observing leave the state of the gate alone.
LEMMA GateStateKept ==
  ASSUME SubscriptionInv, UNCHANGED gateState
  PROVE  SubscriptionInv'
BY DEF gateState, subscriptionVars, SubscriptionInv, SubscriptionTypeOK, GateCounts, OnceInv

\* Publishing, and the callback behind the gate, keep it.
LEMMA PublishersKeepGate ==
  /\ WorkerStep \/ ObserverStep \/ PollingStep \/ Tell \/ Pass => UNCHANGED gateState
  /\ ForeignMessage \/ DropPending => UNCHANGED gateState
<1>1. \A b : PublishObservations(b) => UNCHANGED gateState
  BY DEF PublishObservations, gateState
<1>2. \A m : PublishDiagnosis(m) => UNCHANGED gateState
  BY DEF PublishDiagnosis, gateState
<1>3. UNCHANGED transportVars => UNCHANGED gateState
  BY DEF transportVars, gateState
<1>4. WorkerStep => UNCHANGED gateState
  BY <1>3 DEF WorkerStep
<1>5. ObserverStep => UNCHANGED gateState
  BY <1>1, <1>3 DEF ObserverStep, BeginSnapshot, ReadCounter, PublishOnSnapshot, SetClockBack
<1>6. PollingStep => UNCHANGED gateState
  BY <1>1, <1>3 DEF PollingStep, DoPollCycle, Progress, Restart
<1>7. Tell => UNCHANGED gateState
  BY <1>1, <1>2 DEF Tell
<1>8. Pass => UNCHANGED gateState
  BY <1>3 DEF Pass
<1>9. ForeignMessage \/ DropPending => UNCHANGED gateState
  BY DEF ForeignMessage, DropPending, gateState
<1>10. QED
  BY <1>4, <1>5, <1>6, <1>7, <1>8, <1>9

\* The callback's four steps: it enters only while the gate is open, and if it
\* is the one that empties a shut gate it closes done.
LEMMA CallbackKeepsGate ==
  ASSUME SubscriptionInv, CallbackStep
  PROVE  SubscriptionInv'
<1>. USE DEF SubscriptionInv, SubscriptionTypeOK, GateCounts, Idle
<1>1. CASE EnterCallback
  <2>1. UNCHANGED <<subscribed, closing, doneCloses, once, closer>>
    BY <1>1 DEF EnterCallback
  <2>2. CASE closing
    <3>1. UNCHANGED gateState
      BY <1>1, <2>2 DEF EnterCallback, gateState, subscriptionVars
    <3>2. QED
      BY <3>1, GateStateKept
  <2>3. CASE ~closing
    <3>1. active' = 1 /\ cb' = [at |-> "entered", msg |-> Head(wire)] /\ cb = Idle
      BY <1>1, <2>3 DEF EnterCallback
    <3>2. SubscriptionTypeOK' /\ GateCounts'
      BY <2>1, <2>3, <3>1
    <3>3. OnceInv'
      BY <2>1, <2>3, <3>1 DEF OnceInv
    <3>4. QED
      BY <3>2, <3>3
  <2>4. QED
    BY <2>2, <2>3
<1>2. CASE CallHandler \/ HandlerReturns
  <2>1. /\ cb # Idle /\ \E a \in {"handler", "leaving"} : cb' = [cb EXCEPT !.at = a]
        /\ UNCHANGED subscriptionVars
    BY <1>2 DEF CallHandler, HandlerReturns
  <2>2. PICK a \in {"handler", "leaving"} : cb' = [at |-> a, msg |-> cb.msg]
    BY <2>1
  <2>3. cb'.at = a /\ cb'.msg = cb.msg /\ cb' # Idle
    BY <2>2
  <2>4. SubscriptionTypeOK' /\ GateCounts'
    BY <2>1, <2>2, <2>3 DEF subscriptionVars
  <2>5. OnceInv'
    BY <2>1, <2>3 DEF subscriptionVars, OnceInv
  <2>6. QED
    BY <2>4, <2>5
<1>3. CASE ExitCallback
  <2>1. /\ cb # Idle /\ cb' = Idle /\ active' = 0
        /\ doneCloses' = IF closing THEN 1 ELSE 0
        /\ UNCHANGED <<subscribed, closing, once, closer>>
    BY <1>3 DEF ExitCallback
  <2>2. SubscriptionTypeOK' /\ GateCounts'
    BY <2>1
  <2>3. OnceInv'
    BY <2>1 DEF OnceInv
  <2>4. QED
    BY <2>2, <2>3
<1>4. QED
  BY <1>1, <1>2, <1>3 DEF CallbackStep

\* Close, by one of many: each of its steps.
LEMMA CloseKeepsGate ==
  ASSUME SubscriptionInv,
         \/ \E c \in Closers : CallClose(c) \/ CloserStep(c)
         \/ WatcherLeaves
  PROVE  SubscriptionInv'
<1>. USE DEF SubscriptionInv, SubscriptionTypeOK, GateCounts, OnceInv, CloseStep, Inside, Behind
<1>1. ASSUME NEW c \in Closers, CallClose(c)
      PROVE  SubscriptionInv'
  BY <1>1 DEF CallClose, gateVars
<1>2. ASSUME NEW c \in Closers, ShutGate(c)
      PROVE  SubscriptionInv'
  BY <1>2 DEF ShutGate
<1>3. ASSUME NEW c \in Closers, CancelHandlers(c) \/ Unsubscribe(c)
      PROVE  SubscriptionInv'
  BY <1>3 DEF CancelHandlers, Unsubscribe, gateVars
<1>4. ASSUME NEW c \in Closers, CloseEnds(c) \/ SecondCloseEnds(c)
      PROVE  SubscriptionInv'
  BY <1>4 DEF CloseEnds, SecondCloseEnds, gateVars
<1>5. ASSUME WatcherLeaves
      PROVE  SubscriptionInv'
  BY <1>5 DEF WatcherLeaves, gateVars, Closers
<1>6. QED
  BY <1>1, <1>2, <1>3, <1>4, <1>5 DEF CloserStep

\* Subscribing keeps it.
LEMMA SubscribingKeepsGate ==
  ASSUME SubscriptionInv, Register \/ SubscribeReturns \/ CancelParent
  PROVE  SubscriptionInv'
BY DEF Register, SubscribeReturns, CancelParent, gateVars,
       SubscriptionInv, SubscriptionTypeOK, GateCounts, OnceInv

\* Every step keeps it.
LEMMA SubscriptionInvStep ==
  ASSUME SubscriptionInv, [ObservingNext]_observingVars
  PROVE  SubscriptionInv'
<1>1. CASE SubscriptionStep
  BY <1>1, CallbackKeepsGate, CloseKeepsGate, SubscribingKeepsGate, GateStateKept,
     PublishersKeepGate DEF SubscriptionStep
<1>2. CASE UNCHANGED observingVars
  BY <1>2, GateStateKept DEF observingVars, transportVars, gateState
<1>3. CASE WorkerStep \/ ObserverStep \/ PollingStep \/ Tell \/ Pass
  BY <1>3, GateStateKept, PublishersKeepGate
<1>4. QED
  BY <1>1, <1>2, <1>3 DEF ObservingNext

(* Whoever has returned from Close finds no handler running, now or later, *)
(* and done is closed at most once (subscription.go:12-46, 69-91).         *)
THEOREM QuietAfterCloseHolds == ObservingSpec => []QuietAfterClose
<1>1. ObservingInit => SubscriptionInv
  BY SubscriptionInvInit DEF ObservingInit
<1>2. SubscriptionInv /\ [ObservingNext]_observingVars => SubscriptionInv'
  BY SubscriptionInvStep
<1>3. SubscriptionInv => QuietAfterClose
  BY DEF SubscriptionInv, GateCounts, OnceInv, QuietAfterClose
<1>4. QED
  BY <1>1, <1>2, <1>3, PTL DEF ObservingSpec
------------------------------------------------------------------------------
(* The conversion.                                                         *)

\* The observations there are: work fits an unsigned integer, counts are signed.
Work == 0..WorkMax
ObservationRecords(Names) ==
  [stage : Names, mask : SUBSET Optional, busy : Work, capacity : Work, idle : Work, blocked : Work,
   arrivals : Int, workers : Int, completions : Int, failures : Int, queueDepth : Int]
StageObservations(Names) == {o \in ObservationRecords(Names) : \A f \in Optional \ o.mask : o[f] = 0}

\* Each of them is an observation as publishers make it.
LEMMA ObservationsAreShaped ==
  ASSUME NEW Names, NEW o \in StageObservations(Names)
  PROVE  Shaped(o)
BY DEF StageObservations, ObservationRecords, Shaped

\* What is read from the wire is what was put on it.
LEMMA ReadBack ==
  ASSUME NEW o, Shaped(o)
  PROVE  ObservationRead(ObservationToProto(o)) = o
<1>. DEFINE pb == ObservationToProto(o)
<1>1. pb.opt = [f \in o.mask |-> o[f]] /\ DOMAIN pb.opt = o.mask
  BY DEF ObservationToProto
<1>2. \A f \in Optional : Got(pb, f) = o[f]
  BY <1>1 DEF Shaped, Got
<1>3. QED
  BY <1>1, <1>2 DEF ObservationRead, ObservationToProto, Shaped, Optional, OptionalWork, OptionalCounts

\* A sum that fits does not wrap around.
LEMMA PlusFits ==
  ASSUME NEW a \in 0..WorkMax, NEW b \in 0..WorkMax
  PROVE  /\ Overflows(a, b) <=> a + b > WorkMax
         /\ ~Overflows(a, b) => Plus(a, b) = a + b
BY ConvertAssumption DEF Overflows, Plus

\* The three checks refuse exactly what does not fit in the capacity.
LEMMA WorkIsChecked ==
  ASSUME NEW Names, NEW o \in StageObservations(Names)
  PROVE  WorkRefused(o) <=> o.busy + o.idle + o.blocked > o.capacity
<1>1. /\ o.busy \in 0..WorkMax /\ o.idle \in 0..WorkMax
      /\ o.blocked \in 0..WorkMax /\ o.capacity \in 0..WorkMax
  BY DEF StageObservations, ObservationRecords, Work
<1>2. CASE Overflows(o.busy, o.idle)
  BY <1>1, <1>2, PlusFits, ConvertAssumption DEF WorkRefused
<1>3. CASE ~Overflows(o.busy, o.idle)
  <2>1. Plus(o.busy, o.idle) = o.busy + o.idle /\ o.busy + o.idle \in 0..WorkMax
    BY <1>1, <1>3, PlusFits, ConvertAssumption
  <2>2. /\ Overflows(o.busy + o.idle, o.blocked) <=> o.busy + o.idle + o.blocked > WorkMax
        /\ ~Overflows(o.busy + o.idle, o.blocked) =>
             Plus(o.busy + o.idle, o.blocked) = o.busy + o.idle + o.blocked
    BY <1>1, <2>1, PlusFits
  <2>3. QED
    BY <1>1, <1>3, <2>1, <2>2, ConvertAssumption DEF WorkRefused
<1>4. QED
  BY <1>2, <1>3

(* For every observation and every WorkMax: what keeps the invariants      *)
(* arrives as it was sent, and everything else is refused, sums that wrap  *)
(* around included (tocpb/convert.go:55-137).                              *)
THEOREM ObservationsArrive ==
  ASSUME NEW Names, NEW o \in StageObservations(Names)
  PROVE  ObservationFromProto(ObservationToProto(o)) = IF Sound(o) THEN o ELSE Refused
<1>1. ObservationRead(ObservationToProto(o)) = o
  BY ReadBack, ObservationsAreShaped
<1>2. /\ o.busy \in Int /\ o.idle \in Int /\ o.blocked \in Int /\ o.capacity \in Int
      /\ o.workers \in Int /\ o.arrivals \in Int
      /\ o.completions \in Int /\ o.failures \in Int /\ o.queueDepth \in Int
  BY ConvertAssumption DEF StageObservations, ObservationRecords, Work
<1>3. CountsRefused(o) <=>
        \/ o.workers < 0 \/ o.arrivals < 0 \/ o.completions < 0 \/ o.failures < 0 \/ o.queueDepth < 0
        \/ "failures" \in o.mask /\ ("completions" \notin o.mask \/ o.failures > o.completions)
  BY DEF CountsRefused, OptionalCounts
<1>4. WorkRefused(o) <=> o.busy + o.idle + o.blocked > o.capacity
  BY WorkIsChecked
<1>5. /\ o.failures > o.completions <=> ~(o.failures <= o.completions)
      /\ o.busy + o.idle + o.blocked > o.capacity <=> ~(o.busy + o.idle + o.blocked <= o.capacity)
  BY <1>2
<1>6. Sound(o) <=> ~(o.stage = NoName \/ CountsRefused(o) \/ WorkRefused(o))
  <2>1. /\ o.workers < 0 <=> ~(o.workers >= 0)
        /\ o.arrivals < 0 <=> ~(o.arrivals >= 0)
        /\ o.completions < 0 <=> ~(o.completions >= 0)
        /\ o.failures < 0 <=> ~(o.failures >= 0)
        /\ o.queueDepth < 0 <=> ~(o.queueDepth >= 0)
    BY <1>2
  <2>2. QED
    BY <1>3, <1>4, <1>5, <2>1, Zenon DEF Sound
<1>7. QED
  BY <1>1, <1>6 DEF ObservationFromProto

\* The observations that the runs try are among them.
LEMMA SmallObservations ==
  WorkObservations \cup CountObservations \subseteq StageObservations({NoName, "x"})
<1>1. ASSUME NEW o \in WorkObservations
      PROVE  o \in StageObservations({NoName, "x"})
  <2>1. PICK m \in SUBSET OptionalWork, t \in [1..4 -> 0..WorkMax] : o = WithWork(m, t)
    BY <1>1 DEF WorkObservations
  <2>2. PICK idle, blocked : /\ idle = (IF "idle" \in m THEN t[2] ELSE 0)
                             /\ blocked = (IF "blocked" \in m THEN t[3] ELSE 0)
    OBVIOUS
  <2>3. o = [stage |-> "x", mask |-> m, busy |-> t[1], capacity |-> t[4], arrivals |-> 0, workers |-> 0,
             idle |-> idle, blocked |-> blocked, completions |-> 0, failures |-> 0, queueDepth |-> 0]
    BY <2>1, <2>2 DEF WithWork, Blank
  <2>4. /\ t[1] \in Work /\ t[4] \in Work /\ idle \in Work /\ blocked \in Work
    BY <2>2, ConvertAssumption DEF Work
  <2>5. m \in SUBSET Optional
    BY DEF Optional
  <2>6. o \in ObservationRecords({NoName, "x"})
    BY <2>3, <2>4, <2>5 DEF ObservationRecords
  <2>7. \A f \in Optional \ m : o[f] = 0
    BY <2>2, <2>3 DEF Optional, OptionalWork, OptionalCounts
  <2>8. QED
    BY <2>3, <2>6, <2>7 DEF StageObservations
<1>2. ASSUME NEW o \in CountObservations
      PROVE  o \in StageObservations({NoName, "x"})
  <2>1. PICK n \in {NoName, "x"}, m \in SUBSET OptionalCounts, t \in [1..5 -> -1..1] :
          o = WithCounts(n, m, t)
    BY <1>2 DEF CountObservations
  <2>2. PICK completions, failures, queueDepth :
          /\ completions = (IF "completions" \in m THEN t[3] ELSE 0)
          /\ failures = (IF "failures" \in m THEN t[4] ELSE 0)
          /\ queueDepth = (IF "queueDepth" \in m THEN t[5] ELSE 0)
    OBVIOUS
  <2>3. o = [stage |-> n, mask |-> m, busy |-> 0, capacity |-> 0, arrivals |-> t[1], workers |-> t[2],
             idle |-> 0, blocked |-> 0, completions |-> completions, failures |-> failures,
             queueDepth |-> queueDepth]
    BY <2>1, <2>2 DEF WithCounts, Blank
  <2>4. /\ t[1] \in Int /\ t[2] \in Int /\ 0 \in Work
        /\ completions \in Int /\ failures \in Int /\ queueDepth \in Int
    <3>1. t[1] \in Int /\ t[2] \in Int /\ t[3] \in Int /\ t[4] \in Int /\ t[5] \in Int
      OBVIOUS
    <3>2. QED
      BY <2>2, <3>1, ConvertAssumption DEF Work
  <2>5. m \in SUBSET Optional
    BY DEF Optional
  <2>6. n \in {NoName, "x"}
    OBVIOUS
  <2>7. o \in ObservationRecords({NoName, "x"})
    BY <2>3, <2>4, <2>5, <2>6 DEF ObservationRecords
  <2>8. \A f \in Optional \ m : o[f] = 0
    BY <2>2, <2>3 DEF Optional, OptionalWork, OptionalCounts
  <2>9. QED
    BY <2>3, <2>7, <2>8 DEF StageObservations
<1>3. QED
  BY <1>1, <1>2

\* What is refused is no stage and no observation.
LEMMA RefusedIsNone ==
  ASSUME NEW Names
  PROVE  Refused \notin StageRecords(Names)
BY DEF Refused, StageRecords

\* Such a stage arrives as it was sent.
LEMMA StageDiagnosisArrives ==
  ASSUME NEW Names, NEW s \in SoundStages(Names)
  PROVE  StageDiagnosisFromProto(StageDiagnosisToProto(s)) = s
<1>. DEFINE pb == StageDiagnosisToProto(s)
<1>1. /\ s.stage # NoName /\ s.state \in StageStates /\ s.utilization \in Ratio /\ s.errorRate \in Ratio
      /\ s.completions \in Nat /\ s.failures \in Nat /\ s.arrivals \in Nat /\ s.ratios \in Ratios
      /\ s.failures <= s.completions
  BY DEF SoundStages, StageRecords
<1>2. s = [stage |-> s.stage, state |-> s.state, utilization |-> s.utilization, errorRate |-> s.errorRate,
           queueGrowth |-> s.queueGrowth, completions |-> s.completions, failures |-> s.failures,
           arrivals |-> s.arrivals, ratios |-> s.ratios]
  BY DEF SoundStages, StageRecords
<1>3. /\ pb.stage = s.stage /\ pb.utilization = s.utilization /\ pb.errorRate = s.errorRate
      /\ pb.ratios = s.ratios /\ pb.failures = s.failures /\ pb.completions = s.completions
      /\ pb.arrivals = s.arrivals /\ pb.state = StageStateToProto(s.state)
  BY DEF StageDiagnosisToProto
<1>4. [pb EXCEPT !.state = s.state] =
        [stage |-> s.stage, state |-> s.state, utilization |-> s.utilization, errorRate |-> s.errorRate,
         queueGrowth |-> s.queueGrowth, completions |-> s.completions, failures |-> s.failures,
         arrivals |-> s.arrivals, ratios |-> s.ratios]
  BY DEF StageDiagnosisToProto
<1>5. pb["completions"] = s.completions /\ pb["failures"] = s.failures /\ pb["arrivals"] = s.arrivals
  BY DEF StageDiagnosisToProto
<1>. HIDE DEF pb
<1>6. StageStateFromProto(pb.state) = s.state
  BY <1>1, <1>3 DEF StageStates, StageStateToProto, StageStateFromProto
<1>7. /\ ~(s.completions < 0) /\ ~(s.failures < 0) /\ ~(s.arrivals < 0)
      /\ ~(s.failures > s.completions)
  BY <1>1
<1>8. \A f \in {"completions", "failures", "arrivals"} : ~(pb[f] < 0)
  BY <1>5, <1>7, Zenon
<1>9. /\ InRange(s.utilization, 0, 100) /\ InRange(s.errorRate, 0, 100)
      /\ \A f \in DOMAIN s.ratios : InRange(s.ratios[f], 0, 100)
  BY <1>1, ConvertAssumption DEF Ratios, Ratio, InRange
<1>10. pb.stage # NoName /\ [pb EXCEPT !.state = StageStateFromProto(pb.state)] = s
  BY <1>1, <1>2, <1>3, <1>4, <1>6
<1>11. StageDiagnosisFromProto(pb) = s
  BY <1>3, <1>7, <1>8, <1>9, <1>10, Zenon DEF StageDiagnosisFromProto
<1>12. QED
  BY <1>11 DEF pb

\* A stage whose utilization is not a ratio is refused.
LEMMA BadRatioIsRefused ==
  ASSUME NEW s, ~InRange(s.utilization, 0, 100)
  PROVE  StageDiagnosisFromProto(StageDiagnosisToProto(s)) = Refused
<1>1. StageDiagnosisToProto(s).utilization = s.utilization
  BY DEF StageDiagnosisToProto
<1>2. QED
  BY <1>1, Zenon DEF StageDiagnosisFromProto

\* A constraint that is named is one of the stages.
ConstraintIsThere(d) == d.constraint = NoName \/ d.constraint \in ToSet(Stages(d.stages))

\* All stages of a diagnosis arrive, and none is refused.
LEMMA StagesArrive ==
  ASSUME NEW Names, NEW stages \in Seq(SoundStages(Names))
  PROVE  LET wire1 == [k \in DOMAIN stages |-> StageDiagnosisToProto(stages[k])]
         IN  /\ [k \in DOMAIN wire1 |-> StageDiagnosisFromProto(wire1[k])] = stages
             /\ Refused \notin ToSet(stages)
<1>1. \A k \in DOMAIN stages : stages[k] \in SoundStages(Names)
  OBVIOUS
<1>2. stages = [k \in DOMAIN stages |-> stages[k]]
  OBVIOUS
<1>3. Refused \notin ToSet(stages)
  BY <1>1, RefusedIsNone DEF ToSet, SoundStages
<1>4. QED
  BY <1>1, <1>2, <1>3, StageDiagnosisArrives

\* The message of a diagnosis with another state.
LEMMA MessageWithState ==
  ASSUME NEW d, NEW s
  PROVE  [DiagnosisToProto(d) EXCEPT !.state = s] =
           [state |-> s, source |-> Named(d.source, ConstraintSources), constraint |-> d.constraint,
            candidate |-> d.candidate, fresh |-> d.fresh, unsupported |-> Narrowed(d.unsupported),
            starved |-> d.starved, stages |-> [k \in DOMAIN d.stages |-> StageDiagnosisToProto(d.stages[k])]]
<1>1. PICK pb, state, source, stages, count :
        /\ pb = DiagnosisToProto(d) /\ count = Narrowed(d.unsupported) /\ state = Named(d.state, ConstraintStates)
        /\ source = Named(d.source, ConstraintSources)
        /\ stages = [k \in DOMAIN d.stages |-> StageDiagnosisToProto(d.stages[k])]
  OBVIOUS
<1>2. pb = [state |-> state, source |-> source, constraint |-> d.constraint, candidate |-> d.candidate,
            fresh |-> d.fresh, unsupported |-> count, starved |-> d.starved, stages |-> stages]
  BY <1>1, Zenon DEF DiagnosisToProto
<1>3. [pb EXCEPT !.state = s] =
        [state |-> s, source |-> source, constraint |-> d.constraint, candidate |-> d.candidate,
         fresh |-> d.fresh, unsupported |-> count, starved |-> d.starved, stages |-> stages]
  BY <1>2
<1>4. QED
  BY <1>1, <1>3, Zenon

\* A diagnosis with the count that the wire has room for.
Carried(d) == [d EXCEPT !.unsupported = Narrowed(d.unsupported)]

\* A number less than the modulus.
LEMMA SmallModulo ==
  ASSUME NEW n \in Nat, NEW k \in Nat, k < n
  PROVE  k % n = k
OBVIOUS

\* A count within 32 bits is carried as it is, and the next one wraps around.
LEMMA NarrowedIs ==
  /\ \A n \in Counts : Narrowed(n) = n
  /\ Narrowed(CountMax + 1) = -CountMax - 1
<1>. DEFINE M == 2 * CountMax + 2
<1>1. CountMax \in Nat /\ M \in Nat \ {0}
  BY ConvertAssumption
<1>2. ASSUME NEW n \in Counts PROVE Narrowed(n) = n
  <2>1. n \in Int /\ n + CountMax + 1 \in Nat /\ n + CountMax + 1 < M
    BY <1>1, <1>2 DEF Counts
  <2>2. (n + CountMax + 1) % M = n + CountMax + 1
    <3>. HIDE DEF M
    <3>. QED
      BY <1>1, <2>1, SmallModulo
  <2>3. QED
    BY <1>1, <2>1, <2>2 DEF Narrowed
<1>3. Narrowed(CountMax + 1) = -CountMax - 1
  <2>1. CountMax + 1 + CountMax + 1 = M
    BY <1>1
  <2>2. M % M = 0
    <3>. HIDE DEF M
    <3>. QED
      BY <1>1
  <2>3. QED
    BY <1>1, <2>1, <2>2 DEF Narrowed
<1>4. QED
  BY <1>2, <1>3

\* A message that carries a diagnosis, and whose state is read as the
\* diagnosis's, is read as what was carried.
LEMMA DiagnosisReadBack ==
  ASSUME NEW Names, NEW d \in SoundDiagnoses(Names), NEW s,
         StateRead([DiagnosisToProto(d) EXCEPT !.state = s]) = [state |-> d.state, source |-> d.source]
  PROVE  DiagnosisFromProto([DiagnosisToProto(d) EXCEPT !.state = s])
           = IF ConstraintIsThere(d) THEN Carried(d) ELSE Refused
<1>. DEFINE pb == [DiagnosisToProto(d) EXCEPT !.state = s]
<1>1. /\ d.fresh \in 0..10 /\ d.starved \in Nat /\ d.stages \in Seq(SoundStages(Names))
      /\ IsInjective(Stages(d.stages))
  BY DEF SoundDiagnoses, DiagnosisRecords
<1>2. \A c : [d EXCEPT !.unsupported = c] =
          [state |-> d.state, source |-> d.source, constraint |-> d.constraint, candidate |-> d.candidate,
           fresh |-> d.fresh, unsupported |-> c, starved |-> d.starved, stages |-> d.stages]
  BY DEF SoundDiagnoses, DiagnosisRecords
<1>3. PICK source, w : /\ source = Named(d.source, ConstraintSources)
                       /\ w = [k \in DOMAIN d.stages |-> StageDiagnosisToProto(d.stages[k])]
  OBVIOUS
<1>4. pb = [state |-> s, source |-> source, constraint |-> d.constraint, candidate |-> d.candidate,
            fresh |-> d.fresh, unsupported |-> Narrowed(d.unsupported), starved |-> d.starved, stages |-> w]
  BY <1>3, MessageWithState, Zenon
<1>5. [k \in DOMAIN w |-> StageDiagnosisFromProto(w[k])] = d.stages /\ Refused \notin ToSet(d.stages)
  BY <1>1, <1>3, StagesArrive
<1>6. InRange(d.fresh, 0, 10) /\ ~(d.starved < 0)
  BY <1>1, ConvertAssumption DEF InRange
<1>7. StateRead(pb).state = d.state /\ StateRead(pb).source = d.source
  OBVIOUS
<1>. HIDE DEF pb
<1>8. /\ pb.fresh = d.fresh /\ pb.starved = d.starved /\ pb.constraint = d.constraint /\ pb.stages = w
      /\ pb.candidate = d.candidate /\ pb.unsupported = Narrowed(d.unsupported)
  BY <1>4
<1>9. Carried(d) = [state |-> d.state, source |-> d.source, constraint |-> d.constraint, candidate |-> d.candidate,
                    fresh |-> d.fresh, unsupported |-> Narrowed(d.unsupported), starved |-> d.starved,
                    stages |-> d.stages]
  BY <1>2, Zenon DEF Carried
<1>10. DiagnosisFromProto(pb) = IF ConstraintIsThere(d) THEN Carried(d) ELSE Refused
  BY <1>1, <1>5, <1>6, <1>7, <1>8, <1>9, Zenon DEF DiagnosisFromProto, ConstraintIsThere
<1>11. QED
  BY <1>10 DEF pb

(* For every diagnosis: it arrives as it was sent if its unsupported count  *)
(* fits in 32 bits, and else with a count that has wrapped around           *)
(* (tocpb/convert.go:216); a constraint that is not among the stages is     *)
(* refused.  If it is valid, the same holds when the peer is older and      *)
(* leaves out the state (tocpb/convert.go:251-315).                         *)
THEOREM DiagnosesArrive ==
  ASSUME NEW Names, NEW d \in SoundDiagnoses(Names)
  PROVE  /\ DiagnosisFromProto(DiagnosisToProto(d)) = IF ConstraintIsThere(d) THEN Carried(d) ELSE Refused
         /\ Valid(d) /\ d.state \in {"Identified", "Emerging", "Unknown"} =>
              DiagnosisFromProto([DiagnosisToProto(d) EXCEPT !.state = "Unspecified"])
                = IF ConstraintIsThere(d) THEN Carried(d) ELSE Refused
         /\ d.unsupported \in Counts => Carried(d) = d
<1>1. /\ d.state \in ConstraintStates \ {"Unspecified"} /\ d.source \in ConstraintSources
  BY DEF SoundDiagnoses, DiagnosisRecords
<1>2. \A s : /\ [DiagnosisToProto(d) EXCEPT !.state = s].state = s
             /\ [DiagnosisToProto(d) EXCEPT !.state = s].source = d.source
             /\ [DiagnosisToProto(d) EXCEPT !.state = s].constraint = d.constraint
             /\ [DiagnosisToProto(d) EXCEPT !.state = s].candidate = d.candidate
  BY <1>1, MessageWithState DEF Named
<1>3. Named(d.state, ConstraintStates) = d.state /\ Named(d.source, ConstraintSources) = d.source
  BY <1>1 DEF Named
<1>4. DiagnosisFromProto(DiagnosisToProto(d)) = IF ConstraintIsThere(d) THEN Carried(d) ELSE Refused
  <2>1. [DiagnosisToProto(d) EXCEPT !.state = d.state] = DiagnosisToProto(d)
    BY <1>3, MessageWithState, Zenon DEF DiagnosisToProto
  <2>2. StateRead([DiagnosisToProto(d) EXCEPT !.state = d.state]) = [state |-> d.state, source |-> d.source]
    BY <1>1, <1>2, <1>3, Zenon DEF StateRead
  <2>3. QED
    BY <2>1, <2>2, DiagnosisReadBack
<1>5. ASSUME Valid(d), d.state \in {"Identified", "Emerging", "Unknown"}
      PROVE  DiagnosisFromProto([DiagnosisToProto(d) EXCEPT !.state = "Unspecified"])
               = IF ConstraintIsThere(d) THEN Carried(d) ELSE Refused
  <2>. DEFINE pb == [DiagnosisToProto(d) EXCEPT !.state = "Unspecified"]
  <2>1. Named(pb.state, ConstraintStates) = "Unspecified"
    BY <1>2 DEF Named
  <2>2. /\ pb.source = d.source /\ pb.constraint = d.constraint /\ pb.candidate = d.candidate
    BY <1>2
  <2>. HIDE DEF pb
  <2>3. StateRead(pb) = InferredState(pb)
    BY <2>1, Zenon DEF StateRead
  <2>4. InferredState(pb) = [state |-> d.state, source |-> d.source]
    <3>1. CASE d.state = "Identified"
      BY <1>3, <1>5, <2>2, <3>1 DEF InferredState, Valid
    <3>2. CASE d.state = "Emerging"
      BY <1>3, <1>5, <2>2, <3>2 DEF InferredState, Valid
    <3>3. CASE d.state = "Unknown"
      BY <1>3, <1>5, <2>2, <3>3 DEF InferredState, Valid
    <3>4. QED
      BY <1>5, <3>1, <3>2, <3>3
  <2>5. StateRead(pb) = [state |-> d.state, source |-> d.source]
    BY <2>3, <2>4
  <2>6. QED
    BY <2>5, DiagnosisReadBack DEF pb
<1>6. ASSUME d.unsupported \in Counts PROVE Carried(d) = d
  <2>1. Narrowed(d.unsupported) = d.unsupported
    BY <1>6, NarrowedIs
  <2>2. [d EXCEPT !.unsupported = d.unsupported] = d
    BY DEF SoundDiagnoses, DiagnosisRecords
  <2>3. QED
    BY <2>1, <2>2, Zenon DEF Carried
<1>7. QED
  BY <1>4, <1>5, <1>6

\* The stages and the diagnoses that the runs try are such.
LEMMA SmallStages == StageDiagnoses \subseteq SoundStages({"x"})
<1>1. ASSUME NEW o \in StageDiagnoses
      PROVE  o \in SoundStages({"x"})
  <2>1. PICK s \in StageStates, u \in {0, 100}, f \in {0, 1}, r \in UNION {[fs -> {0, 100}] : fs \in SUBSET OptionalRatios} :
          o = [stage |-> "x", state |-> s, utilization |-> u, errorRate |-> 0, queueGrowth |-> -1,
               completions |-> 1, failures |-> f, arrivals |-> 0, ratios |-> r]
    BY DEF StageDiagnoses
  <2>2. r \in Ratios
    BY DEF Ratios, Ratio
  <2>3. "x" # NoName
    BY Zenon DEF NoName
  <2>4. u \in Ratio /\ 0 \in Ratio /\ 1 \in Nat /\ f \in Nat /\ f <= 1 /\ -1 \in Int
    BY DEF Ratio
  <2>5. o \in StageRecords({"x"})
    BY <2>1, <2>2, <2>4 DEF StageRecords
  <2>6. o.stage # NoName /\ o.failures <= o.completions
    BY <2>1, <2>3, <2>4
  <2>7. QED
    BY <2>5, <2>6 DEF SoundStages
<1>2. QED
  BY <1>1

\* So are the diagnoses that the runs build of them.
LEMMA SmallDiagnoses ==
  ASSUME NEW stages \in Seq(SoundStages({"x"})), IsInjective(Stages(stages)),
         NEW d \in DiagnosesOver(stages), d.state # "Unspecified"
  PROVE  /\ d \in SoundDiagnoses({NoName, "x", "y"}) /\ d.stages = stages
         /\ d.unsupported \in {0, 1, CountMax, CountMax + 1}
<1>1. PICK t \in ConstraintStates \X ConstraintSources \X {NoName, "x", "y"} \X {NoName, "x", "y"}
                \X {0, 5, 10} \X {0, 1, CountMax, CountMax + 1} :
        d = [state |-> t[1], source |-> t[2], constraint |-> t[3], candidate |-> t[4], fresh |-> t[5],
             unsupported |-> t[6], starved |-> 1, stages |-> stages]
  BY DEF DiagnosesOver
<1>2. stages \in Seq(SoundStages({NoName, "x", "y"}))
  BY DEF SoundStages, StageRecords
<1>3. /\ t[1] \in ConstraintStates /\ t[2] \in ConstraintSources
      /\ t[3] \in {NoName, "x", "y"} /\ t[4] \in {NoName, "x", "y"} /\ t[5] \in 0..10 /\ t[6] \in Int
      /\ t[6] \in {0, 1, CountMax, CountMax + 1}
  BY ConvertAssumption
<1>4. d \in DiagnosisRecords({NoName, "x", "y"})
  BY <1>1, <1>2, <1>3 DEF DiagnosisRecords
<1>5. QED
  BY <1>1, <1>4 DEF SoundDiagnoses

(* The conversion loses nothing but the upper half of a count beyond 32    *)
(* bits and refuses exactly what breaks an invariant, for every limit of   *)
(* the unsigned sum and of the count (tocpb/convert.go 55-137, 203-218,    *)
(* 251-315).                                                               *)
THEOREM ConversionsHold == ConversionsAreFaithful
<1>1. ObservationsSurvive
  BY SmallObservations, ObservationsArrive DEF ObservationsSurvive
<1>2. ASSUME NEW s \in StageDiagnoses
      PROVE  /\ StageDiagnosisFromProto(StageDiagnosisToProto(s)) = s
             /\ \A bad \in {-1, 101, NaN} :
                  StageDiagnosisFromProto(StageDiagnosisToProto([s EXCEPT !.utilization = bad])) = Refused
  <2>1. StageDiagnosisFromProto(StageDiagnosisToProto(s)) = s
    BY SmallStages, StageDiagnosisArrives
  <2>2. ASSUME NEW bad \in {-1, 101, NaN}
        PROVE  StageDiagnosisFromProto(StageDiagnosisToProto([s EXCEPT !.utilization = bad])) = Refused
    <3>1. ~InRange(bad, 0, 100)
      BY DEF InRange
    <3>2. [s EXCEPT !.utilization = bad].utilization = bad
      BY SmallStages DEF SoundStages, StageRecords
    <3>3. QED
      BY <3>1, <3>2, BadRatioIsRefused
  <2>3. QED
    BY <2>1, <2>2
<1>3. ASSUME NEW stages \in {<<>>} \cup {<<s>> : s \in {x \in StageDiagnoses : x.ratios = <<>>}},
             NEW d \in DiagnosesOver(stages), Valid(d), d.state # "Unspecified"
      PROVE  LET pb == DiagnosisToProto(d)
                 there == d.constraint = NoName \/ d.constraint \in ToSet(Stages(stages))
                 got == IF d.unsupported <= CountMax THEN d
                        ELSE [d EXCEPT !.unsupported = -CountMax - 1]
             IN  /\ DiagnosisFromProto(pb) = IF there THEN got ELSE Refused
                 /\ d.state \in {"Identified", "Emerging", "Unknown"} /\ there =>
                      DiagnosisFromProto([pb EXCEPT !.state = "Unspecified"]) = got
  <2>1. stages \in Seq(SoundStages({"x"})) /\ IsInjective(Stages(stages))
    <3>1. CASE stages = <<>>
      BY <3>1 DEF IsInjective, Stages
    <3>2. CASE stages # <<>>
      <4>1. PICK s \in StageDiagnoses : stages = <<s>>
        BY <3>2
      <4>2. s \in SoundStages({"x"})
        BY SmallStages
      <4>3. QED
        BY <4>1, <4>2 DEF IsInjective, Stages
    <3>3. QED
      BY <3>1, <3>2
  <2>2. /\ d \in SoundDiagnoses({NoName, "x", "y"}) /\ d.stages = stages
        /\ d.unsupported \in {0, 1, CountMax, CountMax + 1}
    BY <1>3, <2>1, SmallDiagnoses
  <2>3. Carried(d) = IF d.unsupported <= CountMax THEN d
                     ELSE [d EXCEPT !.unsupported = -CountMax - 1]
    <3>1. CASE d.unsupported <= CountMax
      <4>1. d.unsupported \in Counts
        BY <2>2, <3>1, ConvertAssumption DEF Counts
      <4>2. Carried(d) = d
        BY <2>2, <4>1, DiagnosesArrive
      <4>3. QED
        BY <3>1, <4>2
    <3>2. CASE ~(d.unsupported <= CountMax)
      <4>1. d.unsupported = CountMax + 1
        BY <2>2, <3>2, ConvertAssumption
      <4>2. QED
        BY <3>2, <4>1, NarrowedIs DEF Carried
    <3>3. QED
      BY <3>1, <3>2
  <2>4. QED
    BY <1>3, <2>2, <2>3, DiagnosesArrive, Zenon DEF ConstraintIsThere
<1>4. DiagnosesSurvive
  BY <1>2, <1>3, Zenon DEF DiagnosesSurvive
<1>5. QED
  BY <1>1, <1>4 DEF ConversionsAreFaithful
------------------------------------------------------------------------------
(* The line from the publishers to the handlers.                           *)

\* s is a sequence, of whatever.
IsSeq(s) == s \in Seq(ToSet(s))

\* What a subscription of either kind makes of a message.
DecodedAs(kind, m) == IF kind = "observe" THEN DecodedBatchOf(m) ELSE DecodedDiagnosisOf(m)

\* The callback has a message that its handler will be given.
Arriving(kind, c) == c.at = "entered" /\ DecodedAs(kind, c.msg) # Refused

\* Each message that handlers were or will be given has its place among those
\* published: e for those heard, m for the one in the callback and w for those
\* under way, in this order.
Placed(kind, s, h, c, q, e, m, w) ==
  /\ \A k \in DOMAIN h : h[k] = s[e[k]]
  /\ \A j, k \in DOMAIN h : j < k => e[j] < e[k]
  /\ Arriving(kind, c) =>
       /\ m \in DOMAIN s /\ s[m] = DecodedAs(kind, c.msg)
       /\ \A j \in DOMAIN h : e[j] < m
  /\ \A k \in DOMAIN q : DecodedAs(kind, q[k]) # Refused =>
       /\ w[k] \in DOMAIN s /\ s[w[k]] = DecodedAs(kind, q[k])
       /\ \A j \in DOMAIN h : e[j] < w[k]
       /\ Arriving(kind, c) => m < w[k]
       /\ \A j \in DOMAIN q : j < k /\ DecodedAs(kind, q[j]) # Refused => w[j] < w[k]

\* Such places exist.
LineOK(kind, s, h, c, q) ==
  /\ IsSeq(s) /\ IsSeq(h) /\ IsSeq(q)
  /\ \E e \in [DOMAIN h -> DOMAIN s], m \in 0..Len(s), w \in [DOMAIN q -> 0..Len(s)] :
       Placed(kind, s, h, c, q, e, m, w)

\* The line from publishers to handlers is in order, and other clients send
\* nothing else than what they may.
LineInv ==
  /\ infix \in {"observe", "diagnose"}
  /\ LineOK(infix, sent, heard, cb, wire)
  /\ \A m \in foreign : m \in ForeignMessages /\ m.subject[1] = infix

\* Sequences stay sequences when they grow or lose their head.
LEMMA SeqIs ==
  ASSUME NEW s, IsSeq(s)
  PROVE  Len(s) \in Nat /\ DOMAIN s = 1..Len(s)
BY DEF IsSeq

LEMMA SeqGrows ==
  ASSUME NEW s, IsSeq(s), NEW x
  PROVE  /\ IsSeq(Append(s, x)) /\ Len(Append(s, x)) = Len(s) + 1
         /\ DOMAIN Append(s, x) = 1..(Len(s) + 1)
         /\ Append(s, x)[Len(s) + 1] = x
         /\ \A k \in 1..Len(s) : Append(s, x)[k] = s[k]
<1>. DEFINE S == ToSet(s)
            t == Append(s, x)
<1>1. s \in Seq(S)
  BY DEF IsSeq
<1>. HIDE DEF S
<1>2. s \in Seq(S \cup {x})
  BY <1>1
<1>3. /\ t \in Seq(S \cup {x}) /\ Len(t) = Len(s) + 1 /\ DOMAIN t = 1..(Len(s) + 1)
      /\ t[Len(s) + 1] = x /\ \A k \in 1..Len(s) : t[k] = s[k]
  BY <1>2
<1>. HIDE DEF t
<1>4. t \in Seq(ToSet(t))
  BY <1>3 DEF ToSet
<1>5. QED
  BY <1>3, <1>4 DEF IsSeq, t

LEMMA SeqShrinks ==
  ASSUME NEW s, IsSeq(s), s # <<>>
  PROVE  /\ IsSeq(Tail(s)) /\ DOMAIN Tail(s) = 1..(Len(s) - 1) /\ Len(s) >= 1
         /\ \A k \in 1..(Len(s) - 1) : Tail(s)[k] = s[k + 1] /\ k + 1 \in 1..Len(s)
         /\ Head(s) = s[1]
<1>. DEFINE S == ToSet(s)
            t == Tail(s)
<1>1. s \in Seq(S)
  BY DEF IsSeq
<1>. HIDE DEF S
<1>2. /\ t \in Seq(S) /\ DOMAIN t = 1..(Len(s) - 1) /\ Len(s) >= 1 /\ Len(s) \in Nat
      /\ \A k \in 1..(Len(s) - 1) : t[k] = s[k + 1]
      /\ Head(s) = s[1]
  BY <1>1
<1>. HIDE DEF t
<1>3. t \in Seq(ToSet(t))
  BY <1>2 DEF ToSet
<1>4. \A k \in 1..(Len(s) - 1) : k + 1 \in 1..Len(s)
  BY <1>2
<1>5. QED
  BY <1>2, <1>3, <1>4 DEF IsSeq, t

\* Places stay when more is published.
LEMMA PlacesStay ==
  ASSUME NEW kind, NEW s, NEW h, NEW c, NEW q, NEW e, NEW m, NEW w, NEW n \in Nat, NEW s1, NEW n1 \in Nat,
         Placed(kind, s, h, c, q, e, m, w),
         e \in [DOMAIN h -> 1..n], DOMAIN s = 1..n, DOMAIN s1 = 1..n1, n <= n1, \A k \in 1..n : s1[k] = s[k]
  PROVE  /\ Placed(kind, s1, h, c, q, e, m, w)
         /\ \A j \in DOMAIN h : e[j] <= n
         /\ Arriving(kind, c) => m <= n
         /\ \A k \in DOMAIN q : DecodedAs(kind, q[k]) # Refused => w[k] <= n
<1>1. \A k \in 1..n : k \in 1..n1 /\ k <= n
  OBVIOUS
<1>2. \A j \in DOMAIN h : e[j] \in 1..n
  OBVIOUS
<1>3. QED
  BY <1>1, <1>2, Zenon DEF Placed

\* q1 and its places v are q and w with one more element.
Extends(q1, q, v, w, n) ==
  DOMAIN q = 1..n /\ DOMAIN q1 = 1..(n + 1) /\ \A k \in 1..n : q1[k] = q[k] /\ v[k] = w[k]

\* The place "last" of a message is behind all others.
AfterAll(kind, s, h, c, q, e, m, w, msg, last) ==
  /\ last \in DOMAIN s /\ s[last] = DecodedAs(kind, msg)
  /\ \A j \in DOMAIN h : e[j] < last
  /\ Arriving(kind, c) => m < last
  /\ \A k \in DOMAIN q : DecodedAs(kind, q[k]) # Refused => w[k] < last

\* A message on the line that nobody will be given, or that has a later place
\* than all others, is placed too.
LEMMA PlacesGrow ==
  ASSUME NEW kind, NEW s, NEW h, NEW c, NEW q, NEW e, NEW m, NEW w, NEW n \in Nat, NEW q1, NEW v,
         Placed(kind, s, h, c, q, e, m, w), Extends(q1, q, v, w, n),
         \/ DecodedAs(kind, q1[n + 1]) = Refused
         \/ AfterAll(kind, s, h, c, q, e, m, w, q1[n + 1], v[n + 1])
  PROVE  Placed(kind, s, h, c, q1, e, m, v)
<1>1. \A k \in DOMAIN q1 : k = n + 1 \/ (k \in 1..n /\ k \in DOMAIN q /\ q1[k] = q[k] /\ v[k] = w[k])
  BY DEF Extends
<1>2. \A j, k \in DOMAIN q1 : j < k => j \in 1..n /\ j \in DOMAIN q /\ q1[j] = q[j] /\ v[j] = w[j]
  BY DEF Extends
<1>3. QED
  BY <1>1, <1>2, Zenon DEF Placed, AfterAll

\* Something is published, and lost.
LEMMA LineKeepsPlaces ==
  ASSUME NEW kind, NEW s, NEW h, NEW c, NEW q, LineOK(kind, s, h, c, q), NEW x
  PROVE  LineOK(kind, Append(s, x), h, c, q)
<1>1. IsSeq(s) /\ IsSeq(h) /\ IsSeq(q)
  BY DEF LineOK
<1>2. PICK e \in [DOMAIN h -> DOMAIN s], m \in 0..Len(s), w \in [DOMAIN q -> 0..Len(s)] :
        Placed(kind, s, h, c, q, e, m, w)
  BY DEF LineOK
<1>. DEFINE t == Append(s, x)
            n == Len(s)
            n1 == n + 1
<1>3. /\ n \in Nat /\ n1 \in Nat /\ n <= n1 /\ DOMAIN s = 1..n
      /\ IsSeq(t) /\ Len(t) = n1 /\ DOMAIN t = 1..n1 /\ \A k \in 1..n : t[k] = s[k]
  <2>1. n \in Nat /\ DOMAIN s = 1..n
    BY <1>1, SeqIs, Zenon
  <2>2. n1 \in Nat /\ n <= n1
    BY <2>1
  <2>3. IsSeq(t) /\ Len(t) = n1 /\ DOMAIN t = 1..n1 /\ \A k \in 1..n : t[k] = s[k]
    BY <1>1, SeqGrows
  <2>4. QED
    BY <2>1, <2>2, <2>3
<1>. HIDE DEF t, n, n1
<1>4. e \in [DOMAIN h -> 1..n] /\ e \in [DOMAIN h -> 1..n1] /\ m \in 0..n1 /\ w \in [DOMAIN q -> 0..n1]
  BY <1>3 DEF n
<1>5. Placed(kind, t, h, c, q, e, m, w)
  BY <1>2, <1>3, <1>4, PlacesStay
<1>6. LineOK(kind, t, h, c, q)
  BY <1>1, <1>3, <1>4, <1>5, Zenon DEF LineOK
<1>7. QED
  BY <1>6 DEF t

\* What nobody will be given comes onto the line.
LEMMA LineTakesGarbage ==
  ASSUME NEW kind, NEW s, NEW h, NEW c, NEW q, LineOK(kind, s, h, c, q),
         NEW msg, DecodedAs(kind, msg) = Refused
  PROVE  LineOK(kind, s, h, c, Append(q, msg))
<1>1. IsSeq(s) /\ IsSeq(h) /\ IsSeq(q)
  BY DEF LineOK
<1>2. PICK e \in [DOMAIN h -> DOMAIN s], m \in 0..Len(s), w \in [DOMAIN q -> 0..Len(s)] :
        Placed(kind, s, h, c, q, e, m, w)
  BY DEF LineOK
<1>. DEFINE t == Append(q, msg)
            n == Len(q)
<1>3. /\ n \in Nat /\ DOMAIN q = 1..n
      /\ IsSeq(t) /\ DOMAIN t = 1..(n + 1) /\ t[n + 1] = msg /\ \A k \in 1..n : t[k] = q[k]
  <2>1. n \in Nat /\ DOMAIN q = 1..n
    BY <1>1, SeqIs, Zenon
  <2>2. IsSeq(t) /\ DOMAIN t = 1..(n + 1) /\ t[n + 1] = msg /\ \A k \in 1..n : t[k] = q[k]
    BY <1>1, SeqGrows
  <2>3. QED
    BY <2>1, <2>2
<1>. HIDE DEF t, n
<1>. DEFINE v == [k \in 1..(n + 1) |-> IF k = n + 1 THEN 0 ELSE w[k]]
<1>4. /\ v = [k \in 1..(n + 1) |-> IF k = n + 1 THEN 0 ELSE w[k]]
      /\ v[n + 1] = 0 /\ \A k \in 1..n : t[k] = q[k] /\ v[k] = w[k]
  BY <1>3
<1>. HIDE DEF v
<1>5. Placed(kind, s, h, c, t, e, m, v)
  <2>1. Extends(t, q, v, w, n)
    BY <1>3, <1>4 DEF Extends
  <2>2. DecodedAs(kind, t[n + 1]) = Refused
    BY <1>3
  <2>3. QED
    BY <1>2, <1>3, <2>1, <2>2, PlacesGrow, Zenon
<1>6. v \in [DOMAIN t -> 0..Len(s)]
  BY <1>1, <1>3, <1>4, SeqIs
<1>7. LineOK(kind, s, h, c, t)
  BY <1>1, <1>2, <1>3, <1>5, <1>6, Zenon DEF LineOK
<1>8. QED
  BY <1>7 DEF t

\* A message is published and comes onto the line: its place is the last.
LEMMA LineTakesMessage ==
  ASSUME NEW kind, NEW s, NEW h, NEW c, NEW q, LineOK(kind, s, h, c, q),
         NEW msg, NEW x, DecodedAs(kind, msg) = x
  PROVE  LineOK(kind, Append(s, x), h, c, Append(q, msg))
<1>1. IsSeq(s) /\ IsSeq(h) /\ IsSeq(q)
  BY DEF LineOK
<1>2. PICK e \in [DOMAIN h -> DOMAIN s], m \in 0..Len(s), w \in [DOMAIN q -> 0..Len(s)] :
        Placed(kind, s, h, c, q, e, m, w)
  BY DEF LineOK
<1>. DEFINE s1 == Append(s, x)
            ns == Len(s)
            last == ns + 1
            t == Append(q, msg)
            n == Len(q)
<1>3. /\ ns \in Nat /\ last \in Nat /\ DOMAIN s = 1..ns
      /\ ns <= last /\ last \in 1..last /\ \A k \in Int : k <= ns => k < last
      /\ IsSeq(s1) /\ Len(s1) = last /\ DOMAIN s1 = 1..last /\ s1[last] = x
      /\ \A k \in 1..ns : s1[k] = s[k]
  <2>1. ns \in Nat /\ DOMAIN s = 1..ns
    BY <1>1, SeqIs, Zenon
  <2>2. /\ last \in Nat /\ ns <= last /\ last \in 1..last
        /\ \A k \in Int : k <= ns => k < last
    BY <2>1
  <2>3. /\ IsSeq(s1) /\ Len(s1) = last /\ DOMAIN s1 = 1..last /\ s1[last] = x
        /\ \A k \in 1..ns : s1[k] = s[k]
    BY <1>1, SeqGrows
  <2>4. QED
    BY <2>1, <2>2, <2>3, Zenon
<1>. HIDE DEF s1, last
<1>4. /\ n \in Nat /\ DOMAIN q = 1..n
      /\ IsSeq(t) /\ DOMAIN t = 1..(n + 1) /\ t[n + 1] = msg /\ \A k \in 1..n : t[k] = q[k]
  <2>1. n \in Nat /\ DOMAIN q = 1..n
    BY <1>1, SeqIs, Zenon
  <2>2. IsSeq(t) /\ DOMAIN t = 1..(n + 1) /\ t[n + 1] = msg /\ \A k \in 1..n : t[k] = q[k]
    BY <1>1, SeqGrows
  <2>3. QED
    BY <2>1, <2>2
<1>. HIDE DEF t, n
<1>5. /\ e \in [DOMAIN h -> 1..ns] /\ e \in [DOMAIN h -> 1..last]
      /\ m \in 0..last /\ w \in [1..n -> 0..last] /\ m \in Int
      /\ \A j \in DOMAIN h : e[j] \in Int /\ \A k \in DOMAIN q : w[k] \in Int
  BY <1>3, <1>4
<1>. HIDE DEF ns
<1>6. /\ Placed(kind, s1, h, c, q, e, m, w)
      /\ \A j \in DOMAIN h : e[j] <= ns
      /\ Arriving(kind, c) => m <= ns
      /\ \A k \in DOMAIN q : DecodedAs(kind, q[k]) # Refused => w[k] <= ns
  BY <1>2, <1>3, <1>5, PlacesStay
<1>. DEFINE v == [k \in 1..(n + 1) |-> IF k = n + 1 THEN last ELSE w[k]]
<1>7. /\ v = [k \in 1..(n + 1) |-> IF k = n + 1 THEN last ELSE w[k]]
      /\ v[n + 1] = last /\ \A k \in 1..n : t[k] = q[k] /\ v[k] = w[k]
  BY <1>4
<1>. HIDE DEF v
<1>8. Placed(kind, s1, h, c, t, e, m, v)
  <2>2. /\ \A j \in DOMAIN h : e[j] < last
        /\ Arriving(kind, c) => m < last
        /\ \A k \in DOMAIN q : DecodedAs(kind, q[k]) # Refused => w[k] < last
    BY <1>3, <1>5, <1>6 DEF Arriving
  <2>3. last \in DOMAIN s1 /\ s1[last] = DecodedAs(kind, t[n + 1])
    BY <1>3, <1>4, <1>5
  <2>4. AfterAll(kind, s1, h, c, q, e, m, w, t[n + 1], v[n + 1])
    BY <1>7, <2>2, <2>3, Zenon DEF AfterAll
  <2>5. Extends(t, q, v, w, n)
    BY <1>4, <1>7 DEF Extends
  <2>6. QED
    BY <1>4, <1>6, <2>4, <2>5, PlacesGrow, Zenon
<1>9. v \in [DOMAIN t -> 0..last]
  BY <1>3, <1>4, <1>5, <1>7
<1>10. LineOK(kind, s1, h, c, t)
  BY <1>1, <1>3, <1>4, <1>5, <1>8, <1>9, Zenon DEF LineOK
<1>11. QED
  BY <1>10 DEF s1, t

\* The callback takes a message off the line, or the message is dropped.
LEMMA LineGivesMessage ==
  ASSUME NEW kind, NEW s, NEW h, NEW q, LineOK(kind, s, h, Idle, q), q # <<>>, NEW c,
         c = Idle \/ (c.at = "entered" /\ c.msg = Head(q))
  PROVE  LineOK(kind, s, h, c, Tail(q))
<1>1. IsSeq(s) /\ IsSeq(h) /\ IsSeq(q)
  BY DEF LineOK
<1>2. PICK e \in [DOMAIN h -> DOMAIN s], m \in 0..Len(s), w \in [DOMAIN q -> 0..Len(s)] :
        Placed(kind, s, h, Idle, q, e, m, w)
  BY DEF LineOK
<1>3. PICK t, n :
        /\ n \in Nat /\ t = Tail(q) /\ n = Len(q) /\ n >= 1 /\ DOMAIN q = 1..n /\ Head(q) = q[1]
        /\ IsSeq(t) /\ DOMAIN t = 1..(n - 1) /\ \A k \in 1..(n - 1) : t[k] = q[k + 1] /\ k + 1 \in 1..n
  BY <1>1, SeqIs, SeqShrinks
<1>4. PICK v : v = [k \in 1..(n - 1) |-> w[k + 1]]
  OBVIOUS
<1>5. /\ v \in [DOMAIN t -> 0..Len(s)] /\ w[1] \in 0..Len(s) /\ 1 \in DOMAIN q
      /\ \A k \in DOMAIN t : v[k] = w[k + 1] /\ k + 1 \in DOMAIN q /\ t[k] = q[k + 1] /\ 1 < k + 1
      /\ \A j, k \in DOMAIN t : j < k => j + 1 < k + 1
  BY <1>3, <1>4
<1>6. Arriving(kind, c) => DecodedAs(kind, c.msg) = DecodedAs(kind, q[1]) /\ DecodedAs(kind, q[1]) # Refused
  BY <1>3 DEF Arriving, Idle
<1>7. Placed(kind, s, h, c, t, e, w[1], v)
  <2>1. Arriving(kind, c) =>
          /\ w[1] \in DOMAIN s /\ s[w[1]] = DecodedAs(kind, c.msg)
          /\ \A j \in DOMAIN h : e[j] < w[1]
    BY <1>2, <1>5, <1>6, Zenon DEF Placed
  <2>2. ASSUME NEW k \in DOMAIN t, DecodedAs(kind, t[k]) # Refused
        PROVE  /\ v[k] \in DOMAIN s /\ s[v[k]] = DecodedAs(kind, t[k])
               /\ \A j \in DOMAIN h : e[j] < v[k]
               /\ Arriving(kind, c) => w[1] < v[k]
               /\ \A j \in DOMAIN t : j < k /\ DecodedAs(kind, t[j]) # Refused => v[j] < v[k]
    <3>1. /\ k + 1 \in DOMAIN q /\ v[k] = w[k + 1] /\ t[k] = q[k + 1] /\ 1 < k + 1
      BY <1>5
    <3>2. /\ w[k + 1] \in DOMAIN s /\ s[w[k + 1]] = DecodedAs(kind, q[k + 1])
          /\ \A j \in DOMAIN h : e[j] < w[k + 1]
          /\ \A j \in DOMAIN q : j < k + 1 /\ DecodedAs(kind, q[j]) # Refused => w[j] < w[k + 1]
      BY <1>2, <2>2, <3>1, Zenon DEF Placed
    <3>3. Arriving(kind, c) => w[1] < v[k]
      BY <1>5, <1>6, <3>1, <3>2, Zenon
    <3>4. \A j \in DOMAIN t : j < k /\ DecodedAs(kind, t[j]) # Refused => v[j] < v[k]
      BY <1>5, <3>1, <3>2, Zenon
    <3>5. QED
      BY <3>1, <3>2, <3>3, <3>4, Zenon
  <2>3. /\ \A k \in DOMAIN h : h[k] = s[e[k]]
        /\ \A j, k \in DOMAIN h : j < k => e[j] < e[k]
    BY <1>2, Zenon DEF Placed
  <2>4. QED
    BY <2>1, <2>2, <2>3, Zenon DEF Placed
<1>8. LineOK(kind, s, h, c, t)
  BY <1>1, <1>3, <1>5, <1>7, Zenon DEF LineOK
<1>9. QED
  BY <1>3, <1>8

\* What is pending is dropped, and a callback that is not entering gives nothing.
LEMMA LineLosesMessages ==
  ASSUME NEW kind, NEW s, NEW h, NEW c, NEW q, LineOK(kind, s, h, c, q)
  PROVE  /\ LineOK(kind, s, h, c, <<>>)
         /\ \A c1 : c1.at # "entered" => LineOK(kind, s, h, c1, q)
<1>1. IsSeq(s) /\ IsSeq(h) /\ IsSeq(q)
  BY DEF LineOK
<1>2. PICK e \in [DOMAIN h -> DOMAIN s], m \in 0..Len(s), w \in [DOMAIN q -> 0..Len(s)] :
        Placed(kind, s, h, c, q, e, m, w)
  BY DEF LineOK
<1>3. LineOK(kind, s, h, c, <<>>)
  <2>1. IsSeq(<<>>) /\ DOMAIN <<>> = {} /\ <<>> \in [DOMAIN <<>> -> 0..Len(s)]
    BY DEF IsSeq
  <2>2. Placed(kind, s, h, c, <<>>, e, m, <<>>)
    BY <1>2, <2>1, Zenon DEF Placed
  <2>3. QED
    BY <1>1, <1>2, <2>1, <2>2, Zenon DEF LineOK
<1>4. ASSUME NEW c1, c1.at # "entered"
      PROVE  LineOK(kind, s, h, c1, q)
  <2>1. ~Arriving(kind, c1)
    BY <1>4 DEF Arriving
  <2>2. Placed(kind, s, h, c1, q, e, m, w)
    BY <1>2, <2>1, Zenon DEF Placed
  <2>3. QED
    BY <1>1, <1>2, <2>2, Zenon DEF LineOK
<1>5. QED
  BY <1>3, <1>4

\* The handler is given the message in the callback.
LEMMA LineDelivers ==
  ASSUME NEW kind, NEW s, NEW h, NEW c, NEW q, LineOK(kind, s, h, c, q), Arriving(kind, c),
         NEW c1, c1.at # "entered"
  PROVE  LineOK(kind, s, Append(h, DecodedAs(kind, c.msg)), c1, q)
<1>1. IsSeq(s) /\ IsSeq(h) /\ IsSeq(q)
  BY DEF LineOK
<1>2. PICK e \in [DOMAIN h -> DOMAIN s], m \in 0..Len(s), w \in [DOMAIN q -> 0..Len(s)] :
        Placed(kind, s, h, c, q, e, m, w)
  BY DEF LineOK
<1>. DEFINE x == DecodedAs(kind, c.msg)
            t == Append(h, x)
            n == Len(h)
<1>3. /\ n \in Nat /\ DOMAIN h = 1..n
      /\ IsSeq(t) /\ DOMAIN t = 1..(n + 1) /\ t[n + 1] = x /\ \A k \in 1..n : t[k] = h[k]
  <2>1. n \in Nat /\ DOMAIN h = 1..n
    BY <1>1, SeqIs, Zenon
  <2>2. IsSeq(t) /\ DOMAIN t = 1..(n + 1) /\ t[n + 1] = x /\ \A k \in 1..n : t[k] = h[k]
    BY <1>1, SeqGrows
  <2>3. QED
    BY <2>1, <2>2
<1>. HIDE DEF t, n
<1>4. PICK v : v = [k \in 1..(n + 1) |-> IF k = n + 1 THEN m ELSE e[k]]
  OBVIOUS
<1>5. m \in DOMAIN s /\ s[m] = x /\ \A j \in DOMAIN h : e[j] < m
  BY <1>2, <1>3, Zenon DEF Placed
<1>6. /\ v \in [DOMAIN t -> DOMAIN s] /\ v[n + 1] = m
      /\ \A k \in DOMAIN t : k = n + 1 \/ (k \in DOMAIN h /\ t[k] = h[k] /\ v[k] = e[k])
      /\ \A j, k \in DOMAIN t : j < k => j \in DOMAIN h /\ v[j] = e[j]
  BY <1>3, <1>4, <1>5
<1>7. ~Arriving(kind, c1)
  BY DEF Arriving
<1>8. Placed(kind, s, t, c1, q, v, m, w)
  <2>1. \A k \in DOMAIN t : t[k] = s[v[k]]
    BY <1>2, <1>3, <1>5, <1>6, Zenon DEF Placed
  <2>2. ASSUME NEW j \in DOMAIN t, NEW k \in DOMAIN t, j < k
        PROVE  v[j] < v[k]
    BY <1>2, <1>5, <1>6, <2>2, Zenon DEF Placed
  <2>3. ASSUME NEW k \in DOMAIN q, DecodedAs(kind, q[k]) # Refused
        PROVE  /\ w[k] \in DOMAIN s /\ s[w[k]] = DecodedAs(kind, q[k])
               /\ \A j \in DOMAIN t : v[j] < w[k]
               /\ \A j \in DOMAIN q : j < k /\ DecodedAs(kind, q[j]) # Refused => w[j] < w[k]
    BY <1>2, <1>6, <2>3, Zenon DEF Placed
  <2>4. QED
    BY <1>7, <2>1, <2>2, <2>3, Zenon DEF Placed
<1>9. LineOK(kind, s, t, c1, q)
  BY <1>1, <1>2, <1>3, <1>6, <1>8, Zenon DEF LineOK
<1>10. QED
  BY <1>9 DEF t

\* A message is published: it comes onto the line, or is lost.
LEMMA LinePublishes ==
  ASSUME NEW kind, NEW s, NEW h, NEW c, NEW q, LineOK(kind, s, h, c, q),
         NEW x, NEW msg, DecodedAs(kind, msg) \in {x, Refused}
  PROVE  /\ LineOK(kind, Append(s, x), h, c, q)
         /\ LineOK(kind, Append(s, x), h, c, Append(q, msg))
<1>1. CASE DecodedAs(kind, msg) = x
  BY <1>1, LineKeepsPlaces, LineTakesMessage
<1>2. CASE DecodedAs(kind, msg) = Refused
  <2>1. LineOK(kind, s, h, c, Append(q, msg))
    BY <1>2, LineTakesGarbage
  <2>2. QED
    BY <2>1, LineKeepsPlaces
<1>3. QED
  BY <1>1, <1>2

\* A batch arrives as it was sent, or is refused.
LEMMA BatchArrives ==
  ASSUME NEW b, IsBatch(b)
  PROVE  BatchFromProto(BatchToProto(b)) \in {b, Refused}
<1>. DEFINE pb == BatchToProto(b)
            read == [k \in DOMAIN pb.observations |-> ObservationFromProto(pb.observations[k])]
<1>1. /\ b = [pipeline |-> b.pipeline, timestamp |-> b.timestamp, duration |-> b.duration,
              observations |-> b.observations]
      /\ b.observations = [k \in DOMAIN b.observations |-> b.observations[k]]
      /\ \A k \in DOMAIN b.observations : Shaped(b.observations[k])
  BY DEF IsBatch
<1>2. /\ pb = [pipeline |-> b.pipeline, timestamp |-> b.timestamp, duration |-> b.duration,
               observations |-> pb.observations]
      /\ DOMAIN pb.observations = DOMAIN b.observations
      /\ \A k \in DOMAIN b.observations : pb.observations[k] = ObservationToProto(b.observations[k])
  BY DEF BatchToProto
<1>. HIDE DEF pb
<1>3. \A k \in DOMAIN b.observations : read[k] \in {b.observations[k], Refused}
  BY <1>1, <1>2, ReadBack DEF ObservationFromProto
<1>4. ASSUME Refused \notin ToSet(read)
      PROVE  [pb EXCEPT !.observations = read] = b
  <2>1. \A k \in DOMAIN b.observations : read[k] # Refused
    BY <1>2, <1>4 DEF ToSet
  <2>2. read = [k \in DOMAIN b.observations |-> b.observations[k]]
    BY <1>2, <1>3, <2>1
  <2>3. read = b.observations
    BY <1>1, <2>2
  <2>. HIDE DEF read
  <2>4. [pb EXCEPT !.observations = read] =
          [pipeline |-> b.pipeline, timestamp |-> b.timestamp, duration |-> b.duration, observations |-> read]
    BY <1>2
  <2>5. QED
    BY <1>1, <2>3, <2>4
<1>5. BatchFromProto(pb) \in {b, Refused}
  <2>. HIDE DEF read
  <2>1. BatchFromProto(pb) \in {[pb EXCEPT !.observations = read], Refused}
        /\ (Refused \in ToSet(read) => BatchFromProto(pb) = Refused)
    BY DEF BatchFromProto, read
  <2>2. QED
    BY <1>4, <2>1
<1>6. QED
  BY <1>5 DEF pb

\* So does the message that carries it.
LEMMA BatchMessageArrives ==
  ASSUME NEW b, IsBatch(b)
  PROVE  DecodedAs("observe", [subject |-> <<"observe", b.pipeline>>, data |-> BatchToProto(b), header |-> <<>>])
           \in {b, Refused}
<1>. DEFINE m == [subject |-> <<"observe", b.pipeline>>, data |-> BatchToProto(b), header |-> <<>>]
<1>1. m.data = BatchToProto(b) /\ m.subject[2] = b.pipeline
  OBVIOUS
<1>. HIDE DEF m
<1>2. DecodedBatchOf(m) \in {b, Refused}
  BY <1>1, BatchArrives, Zenon DEF DecodedBatchOf
<1>3. QED
  BY <1>2 DEF DecodedAs, m

\* So does the message that carries a diagnosis.
LEMMA DiagnosisMessageArrives ==
  ASSUME NEW p, NEW n \in Nat, NEW d, d \in SoundDiagnoses(NamesIn(d)),
         d.unsupported \in Counts, NEW msg,
         msg = [pipeline |-> p, timestamp |-> n, diagnosis |-> d]
  PROVE  DecodedAs("diagnose", [subject |-> <<"diagnose", msg.pipeline>>, data |-> DiagnosisToProto(msg.diagnosis),
                                header |-> <<msg.timestamp>>])
           \in {msg, Refused}
<1>. DEFINE m == [subject |-> <<"diagnose", msg.pipeline>>, data |-> DiagnosisToProto(msg.diagnosis),
                  header |-> <<msg.timestamp>>]
<1>1. m.data = DiagnosisToProto(d) /\ m.subject[2] = p /\ m.header[1] = n
  OBVIOUS
<1>. HIDE DEF m
<1>2. DiagnosisFromProto(DiagnosisToProto(d)) \in {d, Refused}
  BY DiagnosesArrive
<1>3. DecodedDiagnosisOf(m) \in {msg, Refused}
  BY <1>1, <1>2, Zenon DEF DecodedDiagnosisOf
<1>4. DecodedAs("diagnose", m) = DecodedDiagnosisOf(m)
  BY DEF DecodedAs
<1>5. QED
  BY <1>3, <1>4 DEF m

\* What the observer publishes is a batch.
LEMMA WindowIsBatch ==
  ASSUME NEW old, NEW new
  PROVE  IsBatch(Window(old, new))
<1>1. \A name, x, y, n : Shaped(Adapt(name, x, y, n))
  BY DEF Shaped, Adapt
<1>2. QED
  BY <1>1 DEF Window, IsBatch

\* What the adapter publishes is a batch.
LEMMA AdapterMakesBatches ==
  ASSUME NEW current
  PROVE  IsBatch([pipeline |-> AdapterID, timestamp |-> clock,
                  duration |-> PollInterval, observations |-> Observations(current)])
<1>1. ASSUME NEW s, NEW old, NEW new, NEW n
      PROVE  Shaped(ComputeObservation(s, old, new, n))
  <2>. DEFINE o == ComputeObservation(s, old, new, n)
              both == DOMAIN old \cap DOMAIN new
  <2>1. o.mask = (both \cap (OptionalWork \cup {"completions", "failures"})) \cup (DOMAIN new \cap {"queueDepth"})
    BY DEF ComputeObservation
  <2>2. /\ o["completions"] = Delta(old, new, "completions") /\ o["failures"] = Delta(old, new, "failures")
        /\ o["idle"] = Delta(old, new, "idle") /\ o["blocked"] = Delta(old, new, "blocked")
        /\ o["queueDepth"] = Gauge(new, "queueDepth")
    BY DEF ComputeObservation
  <2>3. o = [stage |-> o.stage, mask |-> o.mask, busy |-> o.busy, capacity |-> o.capacity,
          arrivals |-> o.arrivals, workers |-> o.workers, idle |-> o.idle, blocked |-> o.blocked,
          completions |-> o.completions, failures |-> o.failures, queueDepth |-> o.queueDepth]
    BY DEF ComputeObservation
  <2>. HIDE DEF o
  <2>4. \A f : f \notin both => Delta(old, new, f) = 0
    BY DEF Delta
  <2>5. "queueDepth" \notin DOMAIN new => Gauge(new, "queueDepth") = 0
    BY DEF Gauge
  <2>6. o.mask \subseteq Optional
    BY <2>1 DEF Optional, OptionalWork, OptionalCounts
  <2>7. \A f \in Optional \ o.mask : o[f] = 0
    <3>. HIDE DEF both
    <3>1. QED
      BY <2>1, <2>2, <2>4, <2>5 DEF Optional, OptionalWork, OptionalCounts
  <2>8. QED
    BY <2>3, <2>6, <2>7 DEF Shaped, o
<1>2. QED
  BY <1>1 DEF Observations, IsBatch

\* The line is in order at first.
LEMMA LineInvInit == TransportInit => LineInv
<1>. SUFFICES ASSUME TransportInit PROVE LineInv
  OBVIOUS
<1>1. /\ infix \in {"observe", "diagnose"} /\ wire = <<>> /\ cb = Idle /\ sent = <<>> /\ heard = <<>>
      /\ foreign = {m \in ForeignMessages : Matches(m.subject)}
  BY DEF TransportInit
<1>2. IsSeq(<<>>) /\ DOMAIN <<>> = {} /\ Len(<<>>) = 0
  BY DEF IsSeq
<1>3. ~Arriving(infix, Idle)
  BY DEF Arriving, Idle
<1>4. Placed(infix, <<>>, <<>>, Idle, <<>>, <<>>, 0, <<>>)
  BY <1>2, <1>3, Zenon DEF Placed
<1>5. <<>> \in [DOMAIN <<>> -> DOMAIN <<>>] /\ 0 \in 0..Len(<<>>) /\ <<>> \in [DOMAIN <<>> -> 0..Len(<<>>)]
  BY <1>2
<1>6. LineOK(infix, <<>>, <<>>, Idle, <<>>)
  BY <1>2, <1>4, <1>5, Zenon DEF LineOK
<1>7. \A m \in foreign : m \in ForeignMessages /\ m.subject[1] = infix
  BY <1>1 DEF Matches
<1>8. QED
  BY <1>1, <1>6, <1>7 DEF LineInv

\* Who does not publish leaves the line alone.
LEMMA LineKept ==
  ASSUME LineInv, UNCHANGED <<infix, wire, foreign, cb, sent, heard>>
  PROVE  LineInv'
BY DEF LineInv

\* Publishing a batch keeps the line in order.
LEMMA BatchKeepsLine ==
  ASSUME LineInv, NEW b, IsBatch(b), PublishObservations(b)
  PROVE  LineInv'
<1>. DEFINE m == [subject |-> <<"observe", b.pipeline>>, data |-> BatchToProto(b), header |-> <<>>]
<1>1. m.subject[1] = "observe"
  OBVIOUS
<1>2. UNCHANGED <<infix, foreign, cb, heard>>
  BY DEF PublishObservations, subscriptionVars
<1>3. \/ PublishFails
      \/ Transmit(m) /\ sent' = Append(sent, b)
  BY DEF PublishObservations
<1>4. CASE PublishFails
  BY <1>2, <1>4, LineKept DEF PublishFails
<1>5. CASE Transmit(m) /\ sent' = Append(sent, b)
  <2>1. DecodedAs("observe", m) \in {b, Refused}
    BY BatchMessageArrives
  <2>. HIDE DEF m
  <2>2. wire' = wire \/ (infix = "observe" /\ wire' = Append(wire, m))
    BY <1>1, <1>5 DEF Transmit, Matches
  <2>3. LineOK(infix, sent, heard, cb, wire)
    BY DEF LineInv
  <2>4. LineOK(infix, sent', heard, cb, wire')
    <3>1. CASE wire' = wire
      BY <1>5, <2>3, <3>1, LineKeepsPlaces
    <3>2. CASE infix = "observe" /\ wire' = Append(wire, m)
      BY <1>5, <2>1, <2>3, <3>2, LinePublishes
    <3>3. QED
      BY <2>2, <3>1, <3>2
  <2>5. QED
    BY <1>2, <2>4 DEF LineInv
<1>6. QED
  BY <1>3, <1>4, <1>5

\* Publishing a diagnosis keeps it.
LEMMA DiagnosisKeepsLine ==
  ASSUME LineInv, NEW d, d \in SoundDiagnoses(NamesIn(d)), d.unsupported \in Counts, NEW msg,
         msg = [pipeline |-> PipelineID, timestamp |-> Len(sent), diagnosis |-> d],
         PublishDiagnosis(msg)
  PROVE  LineInv'
<1>. DEFINE m == [subject |-> <<"diagnose", msg.pipeline>>, data |-> DiagnosisToProto(msg.diagnosis),
                  header |-> <<msg.timestamp>>]
<1>1. m.subject[1] = "diagnose"
  OBVIOUS
<1>2. UNCHANGED <<infix, foreign, cb, heard>>
  BY DEF PublishDiagnosis, subscriptionVars
<1>3. \/ PublishFails
      \/ Transmit(m) /\ sent' = Append(sent, msg)
  BY DEF PublishDiagnosis
<1>4. CASE PublishFails
  BY <1>2, <1>4, LineKept DEF PublishFails
<1>5. CASE Transmit(m) /\ sent' = Append(sent, msg)
  <2>1. LineOK(infix, sent, heard, cb, wire)
    BY DEF LineInv
  <2>2. Len(sent) \in Nat
    BY <2>1, SeqIs DEF LineOK
  <2>3. DecodedAs("diagnose", m) \in {msg, Refused}
    BY <2>2, DiagnosisMessageArrives
  <2>. HIDE DEF m
  <2>4. wire' = wire \/ (infix = "diagnose" /\ wire' = Append(wire, m))
    BY <1>1, <1>5 DEF Transmit, Matches
  <2>5. LineOK(infix, sent', heard, cb, wire')
    <3>1. CASE wire' = wire
      BY <1>5, <2>1, <3>1, LineKeepsPlaces
    <3>2. CASE infix = "diagnose" /\ wire' = Append(wire, m)
      BY <1>5, <2>1, <2>3, <3>2, LinePublishes
    <3>3. QED
      BY <2>4, <3>1, <3>2
  <2>6. QED
    BY <1>2, <2>5 DEF LineInv
<1>6. QED
  BY <1>3, <1>4, <1>5

\* Each publisher keeps it.
LEMMA PublishersKeepLine ==
  ASSUME LineInv, WorkerStep \/ ObserverStep \/ PollingStep \/ Tell \/ Pass
  PROVE  LineInv'
<1>1. CASE UNCHANGED transportVars
  BY <1>1, LineKept DEF transportVars, subscriptionVars
<1>2. CASE WorkerStep \/ Pass
  BY <1>1, <1>2 DEF WorkerStep, Pass
<1>3. CASE ObserverStep
  <2>1. UNCHANGED transportVars \/ PublishObservations(Window(prev, snap))
    BY <1>3 DEF ObserverStep, BeginSnapshot, ReadCounter, PublishOnSnapshot, SetClockBack
  <2>2. QED
    BY <1>1, <2>1, WindowIsBatch, BatchKeepsLine
<1>4. CASE PollingStep
  <2>1. \/ UNCHANGED transportVars
        \/ \E current : PublishObservations([pipeline |-> AdapterID, timestamp |-> clock,
                                    duration |-> PollInterval, observations |-> Observations(current)])
    BY <1>4 DEF PollingStep, DoPollCycle, Progress, Restart
  <2>2. QED
    BY <1>1, <2>1, AdapterMakesBatches, BatchKeepsLine
<1>5. CASE Tell
  <2>1. CASE \E b \in Batches : PublishObservations(b)
    BY <2>1, BatchKeepsLine, ObservingAssumption
  <2>2. CASE \E d \in Diagnoses :
               PublishDiagnosis([pipeline |-> PipelineID, timestamp |-> Len(sent), diagnosis |-> d])
    BY <2>2, DiagnosisKeepsLine, ObservingAssumption
  <2>3. QED
    BY <1>5, <2>1, <2>2 DEF Tell
<1>6. QED
  BY <1>2, <1>3, <1>4, <1>5

\* The callback's four steps keep it.
LEMMA CallbackKeepsLine ==
  ASSUME LineInv, SubscriptionInv, CallbackStep
  PROVE  LineInv'
<1>1. LineOK(infix, sent, heard, cb, wire)
  BY DEF LineInv
<1>2. UNCHANGED <<infix, foreign, sent>>
  BY DEF CallbackStep, EnterCallback, CallHandler, HandlerReturns, ExitCallback, subscriptionVars
<1>3. SUFFICES LineOK(infix, sent, heard', cb', wire')
  BY <1>2 DEF LineInv
<1>4. CASE EnterCallback
  <2>1. wire # <<>> /\ cb = Idle /\ wire' = Tail(wire) /\ heard' = heard
    BY <1>4 DEF EnterCallback
  <2>2. cb' = Idle \/ cb' = [at |-> "entered", msg |-> Head(wire)]
    BY <1>4 DEF EnterCallback
  <2>3. cb' = Idle \/ (cb'.at = "entered" /\ cb'.msg = Head(wire))
    BY <2>2
  <2>4. QED
    BY <1>1, <2>1, <2>3, LineGivesMessage
<1>5. CASE CallHandler
  <2>1. /\ cb.at = "entered" /\ wire' = wire /\ cb = [at |-> cb.at, msg |-> cb.msg]
    BY <1>5 DEF CallHandler, SubscriptionInv, SubscriptionTypeOK, Idle
  <2>2. Decoded(cb.msg) = DecodedAs(infix, cb.msg)
    BY DEF Decoded, DecodedAs
  <2>3. CASE Decoded(cb.msg) = Refused
    <3>1. cb' = [cb EXCEPT !.at = "leaving"] /\ heard' = heard
      BY <1>5, <2>3 DEF CallHandler
    <3>2. cb'.at # "entered"
      BY <2>1, <3>1
    <3>3. QED
      BY <1>1, <2>1, <3>1, <3>2, LineLosesMessages
  <2>4. CASE Decoded(cb.msg) # Refused
    <3>1. cb' = [cb EXCEPT !.at = "handler"] /\ heard' = Append(heard, DecodedAs(infix, cb.msg))
      BY <1>5, <2>2, <2>4 DEF CallHandler
    <3>2. cb'.at # "entered"
      BY <2>1, <3>1
    <3>3. Arriving(infix, cb)
      BY <2>1, <2>2, <2>4 DEF Arriving
    <3>4. QED
      BY <1>1, <2>1, <3>1, <3>2, <3>3, LineDelivers
  <2>5. QED
    BY <2>3, <2>4
<1>6. CASE HandlerReturns \/ ExitCallback
  <2>1. wire' = wire /\ heard' = heard
    BY <1>6 DEF HandlerReturns, ExitCallback
  <2>2. cb'.at # "entered"
    BY <1>6 DEF HandlerReturns, ExitCallback, SubscriptionInv, SubscriptionTypeOK, Idle
  <2>3. LineOK(infix, sent, heard, cb', wire)
    BY <1>1, <2>2, LineLosesMessages
  <2>4. QED
    BY <2>1, <2>3
<1>7. QED
  BY <1>4, <1>5, <1>6 DEF CallbackStep

\* The other steps of a subscription: what other clients send is refused.
LEMMA SubscriptionKeepsLine ==
  ASSUME LineInv, SubscriptionInv, SubscriptionStep
  PROVE  LineInv'
<1>1. LineOK(infix, sent, heard, cb, wire)
  BY DEF LineInv
<1>2. CASE CallbackStep
  BY <1>2, CallbackKeepsLine
<1>3. CASE DropPending
  <2>1. wire' = <<>> /\ UNCHANGED <<infix, foreign, cb, sent, heard>>
    BY <1>3 DEF DropPending, subscriptionVars
  <2>2. LineOK(infix, sent, heard, cb, <<>>)
    BY <1>1, LineLosesMessages
  <2>3. QED
    BY <2>1, <2>2 DEF LineInv
<1>4. CASE ForeignMessage
  <2>1. PICK m \in foreign : foreign' = foreign \ {m} /\ Transmit(m)
    BY <1>4 DEF ForeignMessage
  <2>2. UNCHANGED <<infix, cb, sent, heard>>
    BY <1>4 DEF ForeignMessage, subscriptionVars
  <2>3. DecodedAs(infix, m) = Refused
    <3>1. m \in ForeignMessages /\ m.subject[1] = infix /\ infix \in {"observe", "diagnose"}
      BY DEF LineInv
    <3>2. QED
      BY <3>1, ObservingAssumption DEF DecodedAs
  <2>4. wire' = wire \/ wire' = Append(wire, m)
    BY <2>1 DEF Transmit
  <2>5. LineOK(infix, sent, heard, cb, wire')
    BY <1>1, <2>3, <2>4, LineTakesGarbage
  <2>6. QED
    BY <2>1, <2>2, <2>5 DEF LineInv
<1>5. CASE Register \/ SubscribeReturns \/ CancelParent
  BY <1>5, LineKept DEF Register, SubscribeReturns, CancelParent
<1>6. CASE (\E c \in Closers : CallClose(c) \/ CloserStep(c)) \/ WatcherLeaves
  BY <1>6, LineKept DEF CallClose, CloserStep, ShutGate, CancelHandlers, Unsubscribe, CloseEnds,
                        SecondCloseEnds, WatcherLeaves, CloseStep
<1>7. QED
  BY <1>2, <1>3, <1>4, <1>5, <1>6 DEF SubscriptionStep

\* Every step keeps the line in order.
LEMMA LineInvStep ==
  ASSUME LineInv, SubscriptionInv, [ObservingNext]_observingVars
  PROVE  LineInv'
<1>1. CASE SubscriptionStep
  BY <1>1, SubscriptionKeepsLine
<1>2. CASE UNCHANGED observingVars
  BY <1>2, LineKept DEF observingVars, transportVars, subscriptionVars
<1>3. CASE WorkerStep \/ ObserverStep \/ PollingStep \/ Tell \/ Pass
  BY <1>3, PublishersKeepLine
<1>4. QED
  BY <1>1, <1>2, <1>3 DEF ObservingNext

\* What handlers were given has its place among what was sent.
LEMMA LineHears == LineInv => HeardWasSent
<1>. SUFFICES ASSUME LineInv PROVE HeardWasSent
  OBVIOUS
<1>1. PICK e \in [DOMAIN heard -> DOMAIN sent], m \in 0..Len(sent), w \in [DOMAIN wire -> 0..Len(sent)] :
        Placed(infix, sent, heard, cb, wire, e, m, w)
  BY DEF LineInv, LineOK
<1>2. QED
  BY <1>1, Zenon DEF Placed, HeardWasSent
------------------------------------------------------------------------------
(* The accounts of the windows.                                            *)

\* What an observer knows of its stages.
ObservedNames == ToSet(Observed)
Fields == {"submitted", "completed", "failed", "serviceNs", "idleNs", "blockedNs"}
Snaps == [at : Nat, unixNano : Int, stats : [ObservedNames -> [Fields -> Int]]]

\* The completions of a stage have been read for the snapshot.
Taken(x) == \E k \in 1..pos : Readings[k] = <<x, "completed">>

\* The observer's baseline is what was told last; what is read since then lies
\* between it and the counters.
ObserverInv ==
  /\ restarted = {} /\ pos \in Nat /\ wall \in Int
  /\ since \in [ObservedNames -> Int] /\ counters \in [ObservedNames -> [Fields -> Int]]
  /\ prev = NoSnapshot \/ (prev \in Snaps /\ \A x \in ObservedNames : prev.stats[x].completed = latest[x])
  /\ snap = NoSnapshot \/ (snap \in Snaps /\ \A x \in ObservedNames : Taken(x) =>
       snap.stats[x].completed \in latest[x]..counters[x].completed)
  /\ \A x \in ObservedNames : latest[x] <= counters[x].completed

\* A stage has counted no more since its baseline than it has completed since
\* the last reading, and as much if it was not restarted.
BaselineOK(s) ==
  "completions" \in DOMAIN tracker[s].prev =>
    /\ tracker[s].prev.completions \in Nat
    /\ counter[s] - tracker[s].prev.completions <= total[s] - latest[s]
    /\ s \notin restarted => tracker[s].prev.completions = latest[s]

AdapterInv ==
  /\ counter \in [Polled -> Nat] /\ total \in [Polled -> Nat]
  /\ \A s \in Polled : /\ latest[s] <= total[s]
                       /\ s \notin restarted => counter[s] = total[s]
  /\ DOMAIN tracker \subseteq Polled
  /\ \A s \in DOMAIN tracker :
       /\ tracker[s] = [prev |-> tracker[s].prev, prevTime |-> tracker[s].prevTime, missed |-> tracker[s].missed]
       /\ BaselineOK(s)

\* The accounts are numbers.
AccountsOK ==
  /\ clock \in Nat
  /\ told \in [StageNames -> Int] /\ skipped \in [StageNames -> Int] /\ latest \in [StageNames -> Int]

\* They add up, and the publisher's baselines are where they should be.
AccountsInv ==
  /\ AccountsOK /\ WindowsAddUp
  /\ publisher = "observer" => ObserverInv
  /\ publisher = "adapter" => AdapterInv

\* The counters that are read.
LEMMA FieldsRead == ToSet(StatsOrder) = Fields
BY DEF ToSet, StatsOrder, Fields

\* The accounts hold at first.
LEMMA AccountsInvInit == ObservingInit => AccountsInv
<1>. SUFFICES ASSUME ObservingInit PROVE AccountsInv
  OBVIOUS
<1>1. AccountsOK /\ WindowsAddUp
  BY DEF ObservingInit, WindowsInit, AccountsOK, WindowsAddUp
<1>2. \A x : x \in StageNames => latest[x] = 0
  BY DEF ObservingInit, WindowsInit
<1>3. ObservedNames \subseteq StageNames
  BY SnapshotsAssumption DEF ObservedNames, ToSet
<1>4. ObserverInv
  <2>1. /\ restarted = {} /\ pos = 0 /\ wall = 0 /\ prev = NoSnapshot /\ snap = NoSnapshot
        /\ since = [x \in ObservedNames |-> 0] /\ counters = [x \in ObservedNames |-> [f \in Fields |-> 0]]
    BY FieldsRead DEF ObservingInit, WindowsInit, SnapshotsInit, ObservedNames
  <2>2. \A x \in ObservedNames : latest[x] = 0 /\ counters[x].completed = 0
    BY <1>2, <1>3, <2>1 DEF Fields
  <2>3. QED
    BY <2>1, <2>2 DEF ObserverInv
<1>5. AdapterInv
  <2>1. /\ counter = [s \in Polled |-> 0] /\ total = [s \in Polled |-> 0] /\ tracker = <<>>
    BY DEF ObservingInit, PollingInit
  <2>2. DOMAIN tracker = {}
    BY <2>1
  <2>3. \A s \in Polled : latest[s] = 0
    BY <1>2, PollingAssumption
  <2>4. QED
    BY <2>1, <2>2, <2>3 DEF AdapterInv
<1>6. QED
  BY <1>1, <1>4, <1>5 DEF AccountsInv

\* A worker's counter goes up.
LEMMA AddCounts ==
  ASSUME NEW c \in [Fields -> Int], NEW f \in Fields, NEW n \in Int
  PROVE  /\ Add(c, f, n) \in [Fields -> Int]
         /\ f # "completed" => Add(c, f, n).completed = c.completed
         /\ n >= 0 => c.completed <= Add(c, f, n).completed
BY DEF Add, Fields

\* A worker's step: completions only grow.
LEMMA WorkersCount ==
  ASSUME AccountsOK, ObserverInv, WorkerStep
  PROVE  /\ since' \in [ObservedNames -> Int] /\ counters' \in [ObservedNames -> [Fields -> Int]]
         /\ \A x \in ObservedNames : counters[x].completed <= counters'[x].completed
<1>1. clock \in Int /\ since \in [ObservedNames -> Int] /\ counters \in [ObservedNames -> [Fields -> Int]]
  BY DEF AccountsOK, ObserverInv
<1>2. \A x \in ObservedNames : counters[x].completed \in Int
  BY <1>1 DEF Fields
<1>3. PICK x \in ObservedNames : TakeItem(x) \/ FnReturns(x) \/ CountItem(x) \/ Emit(x)
  BY DEF WorkerStep, ObservedNames
<1>4. SUFFICES ASSUME NEW c \in [Fields -> Int], counters' = [counters EXCEPT ![x] = c],
                      counters[x].completed <= c.completed,
                      since' \in [ObservedNames -> Int]
               PROVE  /\ since' \in [ObservedNames -> Int] /\ counters' \in [ObservedNames -> [Fields -> Int]]
                      /\ \A y \in ObservedNames : counters[y].completed <= counters'[y].completed
  <2>1. clock - since[x] \in Int /\ counters[x] \in [Fields -> Int]
    BY <1>1
  <2>2. CASE TakeItem(x)
    <3>. DEFINE c1 == Add(counters[x], "submitted", 1)
                c2 == Add(c1, "idleNs", clock - since[x])
    <3>1. c1 \in [Fields -> Int] /\ c1.completed = counters[x].completed
      <4>1. "submitted" \in Fields /\ "submitted" # "completed" /\ 1 \in Int
        BY DEF Fields
      <4>2. QED
        BY <2>1, <4>1, AddCounts
    <3>2. c2 \in [Fields -> Int] /\ c2.completed = c1.completed
      <4>. HIDE DEF c1
      <4>1. QED
        BY <2>1, <3>1, AddCounts DEF Fields
    <3>3. counters' = [counters EXCEPT ![x] = c2] /\ since' \in [ObservedNames -> Int]
      BY <1>1, <2>2 DEF TakeItem
    <3>4. counters[x].completed <= c2.completed
      <4>. HIDE DEF c2, c1
      <4>1. QED
        BY <1>2, <3>1, <3>2
    <3>. HIDE DEF c2
    <3>5. QED
      BY <1>4, <3>2, <3>3, <3>4
  <2>3. ASSUME NEW f \in Fields, NEW from, NEW to, Charge(x, f, from, to), f # "completed"
        PROVE  /\ since' \in [ObservedNames -> Int] /\ counters' \in [ObservedNames -> [Fields -> Int]]
               /\ \A y \in ObservedNames : counters[y].completed <= counters'[y].completed
    <3>. DEFINE c == Add(counters[x], f, clock - since[x])
    <3>1. c \in [Fields -> Int] /\ c.completed = counters[x].completed
      BY <2>1, <2>3, AddCounts
    <3>2. counters' = [counters EXCEPT ![x] = c] /\ since' \in [ObservedNames -> Int]
      BY <1>1, <2>3 DEF Charge
    <3>3. counters[x].completed <= c.completed
      <4>. HIDE DEF c
      <4>1. QED
        BY <1>2, <3>1
    <3>. HIDE DEF c
    <3>4. QED
      BY <1>4, <3>1, <3>2, <3>3
  <2>4. ASSUME NEW f \in Fields, NEW from, NEW to, Count(x, f, from, to)
        PROVE  /\ since' \in [ObservedNames -> Int] /\ counters' \in [ObservedNames -> [Fields -> Int]]
               /\ \A y \in ObservedNames : counters[y].completed <= counters'[y].completed
    <3>. DEFINE c == Add(counters[x], f, 1)
    <3>1. c \in [Fields -> Int] /\ counters[x].completed <= c.completed
      BY <2>1, AddCounts
    <3>2. counters' = [counters EXCEPT ![x] = c] /\ since' \in [ObservedNames -> Int]
      BY <1>1, <2>4 DEF Count
    <3>. HIDE DEF c
    <3>3. QED
      BY <1>4, <3>1, <3>2
  <2>5. CASE FnReturns(x) \/ Emit(x)
    BY <2>3, <2>5 DEF FnReturns, Emit, Fields
  <2>6. CASE CountItem(x)
    BY <2>4, <2>6 DEF CountItem, Fields
  <2>7. QED
    BY <1>3, <2>2, <2>5, <2>6
<1>5. counters' \in [ObservedNames -> [Fields -> Int]]
  BY <1>1, <1>4
<1>6. \A y \in ObservedNames : counters[y].completed <= counters'[y].completed
  BY <1>1, <1>2, <1>4
<1>7. QED
  BY <1>4, <1>5, <1>6

\* Its step keeps the observer's invariant.
LEMMA WorkersKeepAccounts ==
  ASSUME AccountsOK, ObserverInv, WorkerStep
  PROVE  ObserverInv'
<1>1. UNCHANGED <<restarted, pos, wall, prev, snap, latest>>
  BY DEF WorkerStep, observerVars, windowVars
<1>2. /\ since' \in [ObservedNames -> Int] /\ counters' \in [ObservedNames -> [Fields -> Int]]
      /\ \A x \in ObservedNames : counters[x].completed <= counters'[x].completed
  BY WorkersCount
<1>3. \A x \in ObservedNames : /\ counters[x].completed \in Int /\ counters'[x].completed \in Int
                               /\ latest[x] \in Int /\ latest[x] <= counters[x].completed
  <2>1. ObservedNames \subseteq StageNames
    BY SnapshotsAssumption DEF ObservedNames, ToSet
  <2>2. QED
    BY <1>2, <2>1 DEF ObserverInv, AccountsOK, Fields
<1>4. \A x \in ObservedNames : /\ latest[x] <= counters'[x].completed
                               /\ \A n \in latest[x]..counters[x].completed : n \in latest[x]..counters'[x].completed
  BY <1>2, <1>3
<1>5. \A x : Taken(x)' = Taken(x)
  BY <1>1 DEF Taken, Readings
<1>6. QED
  BY <1>1, <1>2, <1>4, <1>5 DEF ObserverInv

\* A publisher that tells of a stage what it has completed since the last
\* reading, no more, and as much if it was not restarted, keeps its accounts.
LEMMA AccountsKept ==
  ASSUME AccountsOK, WindowsAddUp, UNCHANGED clock, NEW obs, NEW seen, KeepAccounts(obs, seen),
         \A s \in StageNames : s \in DOMAIN seen => seen[s] \in Int,
         NEW d,
         \A s \in StageNames : \A o \in Tells(obs, s) :
           /\ s \in DOMAIN seen /\ o.completions = d[s] /\ d[s] \in Int
           /\ d[s] <= seen[s] - latest[s]
           /\ s \notin restarted => d[s] = seen[s] - latest[s]
  PROVE  /\ AccountsOK' /\ WindowsAddUp' /\ restarted' = restarted
         /\ \A s \in StageNames : latest'[s] = IF s \in DOMAIN seen THEN seen[s] ELSE latest[s]
<1>. DEFINE Empty(s) == Tells(obs, s) = {}
<1>1. ASSUME NEW s \in StageNames, ~Empty(s)
      PROVE  (CHOOSE o \in Tells(obs, s) : TRUE).completions = d[s]
  <2>1. (CHOOSE o \in Tells(obs, s) : TRUE) \in Tells(obs, s)
    BY <1>1
  <2>2. QED
    BY <2>1
<1>2. \A s \in StageNames : ~Empty(s) =>
        /\ s \in DOMAIN seen /\ d[s] \in Int /\ d[s] <= seen[s] - latest[s]
        /\ s \notin restarted => d[s] = seen[s] - latest[s]
  OBVIOUS
<1>3. /\ told' = [s \in StageNames |-> told[s] + (IF Empty(s) THEN 0 ELSE (CHOOSE o \in Tells(obs, s) : TRUE).completions)]
      /\ latest' = [s \in StageNames |-> IF s \in DOMAIN seen THEN seen[s] ELSE latest[s]]
      /\ skipped' = [s \in StageNames |-> IF s \in DOMAIN seen /\ Empty(s) THEN seen[s] - told[s] ELSE skipped[s]]
      /\ restarted' = restarted
  BY DEF KeepAccounts
<1>. HIDE DEF Empty
<1>4. \A s \in StageNames :
        /\ told'[s] = told[s] + (IF Empty(s) THEN 0 ELSE d[s])
        /\ latest'[s] = IF s \in DOMAIN seen THEN seen[s] ELSE latest[s]
        /\ skipped'[s] = IF s \in DOMAIN seen /\ Empty(s) THEN seen[s] - told[s] ELSE skipped[s]
  BY <1>1, <1>3
<1>5. \A s \in StageNames : told[s] \in Int /\ skipped[s] \in Int /\ latest[s] \in Int
  BY DEF AccountsOK
<1>6. \A s \in StageNames : told'[s] \in Int /\ skipped'[s] \in Int /\ latest'[s] \in Int
  BY <1>2, <1>4, <1>5
<1>7. AccountsOK'
  <2>1. /\ told' = [s \in StageNames |-> told'[s]] /\ skipped' = [s \in StageNames |-> skipped'[s]]
        /\ latest' = [s \in StageNames |-> latest'[s]]
    BY <1>3
  <2>2. QED
    BY <1>6, <2>1 DEF AccountsOK
<1>8. ASSUME NEW s \in StageNames
      PROVE  /\ told'[s] + skipped'[s] <= latest'[s]
             /\ s \notin restarted => told'[s] + skipped'[s] = latest'[s]
  <2>1. /\ told[s] + skipped[s] <= latest[s]
        /\ s \notin restarted => told[s] + skipped[s] = latest[s]
    BY DEF WindowsAddUp
  <2>2. CASE Empty(s)
    BY <1>4, <1>5, <2>1, <2>2
  <2>3. CASE ~Empty(s)
    BY <1>2, <1>4, <1>5, <2>1, <2>3
  <2>4. QED
    BY <2>2, <2>3
<1>9. WindowsAddUp'
  BY <1>3, <1>8 DEF WindowsAddUp
<1>10. QED
  BY <1>3, <1>4, <1>7, <1>9

\* When all counters have been read, so have the completions of each stage.
LEMMA AllTaken ==
  ASSUME pos = Len(Readings), NEW x \in ObservedNames
  PROVE  Taken(x)
<1>. DEFINE n == Len(Observed)
<1>1. n \in Nat /\ DOMAIN Observed = 1..n
  BY SnapshotsAssumption
<1>2. PICK i \in 1..n : x = Observed[i]
  BY <1>1 DEF ObservedNames, ToSet
<1>. HIDE DEF n
<1>. DEFINE k == 6 * (i - 1) + 2
<1>3. k \in 1..(6 * n) /\ (k - 1) \div 6 = i - 1 /\ (k - 1) % 6 = 1
  BY <1>1, <1>2
<1>. HIDE DEF k
<1>4. ((k - 1) \div 6) + 1 = i /\ ((k - 1) % 6) + 1 = 2
  BY <1>1, <1>2, <1>3
<1>5. Readings = [j \in 1..(6 * n) |-> <<Observed[((j - 1) \div 6) + 1], StatsOrder[((j - 1) % 6) + 1]>>]
  BY DEF Readings, n
<1>6. Readings[k] = <<x, StatsOrder[2]>> /\ Len(Readings) = 6 * n
  BY <1>1, <1>2, <1>3, <1>4, <1>5
<1>7. StatsOrder[2] = "completed"
  BY DEF StatsOrder
<1>8. QED
  BY <1>3, <1>6, <1>7 DEF Taken

\* The snapshot becomes the baseline, and a window what lies between the two.
LEMMA PublishingKeepsAccounts ==
  ASSUME AccountsOK, WindowsAddUp, ObserverInv, PublishOnSnapshot
  PROVE  AccountsOK' /\ WindowsAddUp' /\ ObserverInv'
<1>1. /\ snap \in Snaps
      /\ \A x \in ObservedNames : snap.stats[x].completed \in latest[x]..counters[x].completed
  <2>1. snap # NoSnapshot /\ pos = Len(Readings)
    BY DEF PublishOnSnapshot
  <2>2. QED
    BY <2>1, AllTaken DEF ObserverInv
<1>2. \A x \in ObservedNames : /\ x \in StageNames /\ latest[x] \in Int
                               /\ snap.stats[x].completed \in Int /\ counters[x].completed \in Int
  <2>1. ObservedNames \subseteq StageNames
    BY SnapshotsAssumption DEF ObservedNames, ToSet
  <2>2. QED
    BY <1>1, <2>1 DEF ObserverInv, AccountsOK, Snaps, Fields
<1>. DEFINE seen == Completed(snap)
<1>3. DOMAIN seen = ObservedNames /\ \A x \in ObservedNames : seen[x] = snap.stats[x].completed
  BY <1>1 DEF Completed, Snaps
<1>4. UNCHANGED <<clock, wall, since, counters>>
  BY DEF PublishOnSnapshot, stageVars
<1>5. \A s \in StageNames : s \in DOMAIN seen => seen[s] \in Int
  BY <1>2, <1>3
<1>. DEFINE Result == /\ AccountsOK' /\ WindowsAddUp' /\ restarted' = restarted
                      /\ \A s \in StageNames : latest'[s] = IF s \in DOMAIN seen THEN seen[s] ELSE latest[s]
<1>6. Result
  <2>1. CASE NeedsBaseline \/ ~IsInjective(Observed)
    <3>1. KeepAccounts(<<>>, seen)
      BY <2>1 DEF PublishOnSnapshot
    <3>2. \A s : Tells(<<>>, s) = {}
      BY DEF Tells, ToSet
    <3>. HIDE DEF seen
    <3>3. QED
      BY <1>4, <1>5, <3>1, <3>2, AccountsKept
  <2>2. CASE ~(NeedsBaseline \/ ~IsInjective(Observed))
    <3>. DEFINE obs == Window(prev, snap).observations
                d == [s \in ObservedNames |-> snap.stats[s].completed - latest[s]]
    <3>1. KeepAccounts(obs, seen)
      BY <2>2 DEF PublishOnSnapshot
    <3>2. prev \in Snaps /\ \A x \in ObservedNames : prev.stats[x].completed = latest[x]
      BY <2>2 DEF NeedsBaseline, ObserverInv
    <3>3. ASSUME NEW s \in StageNames, NEW o \in Tells(obs, s)
          PROVE  /\ s \in DOMAIN seen /\ o.completions = d[s] /\ d[s] \in Int
                 /\ d[s] <= seen[s] - latest[s]
                 /\ s \notin restarted => d[s] = seen[s] - latest[s]
      <4>1. obs = [k \in DOMAIN Observed |->
                     Adapt(Observed[k], prev.stats[Observed[k]], snap.stats[Observed[k]], snap.at - prev.at)]
        BY DEF Window
      <4>2. o \in ToSet(obs) /\ o.stage = s
        BY <3>3 DEF Tells
      <4>3. PICK k \in DOMAIN Observed :
              o = Adapt(Observed[k], prev.stats[Observed[k]], snap.stats[Observed[k]], snap.at - prev.at)
        BY <4>1, <4>2 DEF ToSet
      <4>4. s = Observed[k] /\ s \in ObservedNames
        BY <4>2, <4>3 DEF Adapt, ObservedNames, ToSet
      <4>5. o.completions = SafeDelta(prev.stats[s].completed, snap.stats[s].completed)
        BY <4>3, <4>4 DEF Adapt
      <4>6. SafeDelta(latest[s], snap.stats[s].completed) = snap.stats[s].completed - latest[s]
        BY <1>1, <1>2, <4>4 DEF SafeDelta
      <4>7. o.completions = d[s] /\ d[s] = seen[s] - latest[s]
        BY <1>3, <3>2, <4>4, <4>5, <4>6
      <4>8. d[s] \in Int /\ d[s] <= seen[s] - latest[s]
        <5>1. seen[s] \in Int /\ latest[s] \in Int
          BY <1>2, <1>3, <4>4
        <5>. HIDE DEF d, seen
        <5>2. QED
          BY <4>7, <5>1
      <4>9. QED
        BY <1>3, <4>4, <4>7, <4>8
    <3>. HIDE DEF obs, d, seen
    <3>4. QED
      BY <1>4, <1>5, <3>1, <3>3, AccountsKept
  <2>3. QED
    BY <2>1, <2>2
<1>7. \A x \in ObservedNames : latest'[x] = snap.stats[x].completed
  <2>. HIDE DEF seen
  <2>1. QED
    BY <1>2, <1>3, <1>6
<1>8. prev' = NoSnapshot \/ prev' = snap
  BY DEF PublishOnSnapshot, NextBaseline
<1>9. snap' = NoSnapshot /\ pos' = 0
  BY DEF PublishOnSnapshot
<1>10. \A x \in ObservedNames : latest'[x] <= counters[x].completed
  BY <1>1, <1>2, <1>7
<1>11. ObserverInv'
  <2>1. prev' = NoSnapshot \/ (prev' \in Snaps /\ \A x \in ObservedNames : prev'.stats[x].completed = latest'[x])
    BY <1>1, <1>7, <1>8
  <2>2. restarted' = {}
    BY <1>6 DEF ObserverInv
  <2>3. QED
    BY <1>4, <1>9, <1>10, <2>1, <2>2 DEF ObserverInv
<1>12. QED
  BY <1>6, <1>11

\* A counter is read: it is at least what was told last, for it never goes down.
LEMMA ReadingKeepsAccounts ==
  ASSUME AccountsOK, ObserverInv, ReadCounter
  PROVE  ObserverInv'
<1>. DEFINE x == Readings[pos + 1][1]
            f == Readings[pos + 1][2]
            n == Len(Observed)
<1>1. pos \in Nat /\ pos + 1 \in Nat /\ pos < Len(Readings)
  BY DEF ObserverInv, ReadCounter
<1>2. x \in ObservedNames /\ f \in Fields
  <2>1. n \in Nat /\ DOMAIN Observed = 1..n
    BY SnapshotsAssumption
  <2>. HIDE DEF n
  <2>2. Readings = [j \in 1..(6 * n) |-> <<Observed[((j - 1) \div 6) + 1], StatsOrder[((j - 1) % 6) + 1]>>]
    BY DEF Readings, n
  <2>3. Len(Readings) = 6 * n
    BY <2>1, <2>2
  <2>4. PICK i, r : /\ i = (pos \div 6) + 1 /\ r = (pos % 6) + 1
    OBVIOUS
  <2>5. i \in 1..n /\ r \in 1..6 /\ pos + 1 \in 1..(6 * n)
    BY <1>1, <2>1, <2>3, <2>4
  <2>6. Readings[pos + 1] = <<Observed[i], StatsOrder[r]>>
    BY <1>1, <2>2, <2>4, <2>5
  <2>7. Observed[i] \in ObservedNames
    BY <2>1, <2>5 DEF ObservedNames, ToSet
  <2>8. StatsOrder[r] \in Fields
    BY <2>5, FieldsRead DEF StatsOrder, ToSet
  <2>9. QED
    BY <2>6, <2>7, <2>8
<1>3. snap # NoSnapshot /\ snap \in Snaps
  BY DEF ObserverInv, ReadCounter
<1>4. snap' = [snap EXCEPT !.stats[x][f] = counters[x][f]] /\ pos' = pos + 1
  BY DEF ReadCounter
<1>5. UNCHANGED <<restarted, wall, since, counters, prev, latest>>
  BY Zenon DEF ReadCounter, stageVars, windowVars
<1>6. \A y : Taken(y)' => Taken(y) \/ (x = y /\ f = "completed")
  <2>1. ASSUME NEW y, NEW k \in 1..(pos + 1), Readings[k] = <<y, "completed">>
        PROVE  Taken(y) \/ (x = y /\ f = "completed")
    <3>1. CASE k = pos + 1
      BY <2>1, <3>1
    <3>2. CASE k # pos + 1
      <4>1. k \in 1..pos
        BY <1>1, <3>2
      <4>2. QED
        BY <2>1, <4>1 DEF Taken
    <3>3. QED
      BY <3>1, <3>2
  <2>2. QED
    BY <1>4, <2>1, Zenon DEF Taken, Readings
<1>. HIDE DEF x, f, n
<1>7. counters \in [ObservedNames -> [Fields -> Int]] /\ snap.stats \in [ObservedNames -> [Fields -> Int]]
  BY <1>3 DEF ObserverInv, Snaps
<1>8. PICK stats : stats = [snap.stats EXCEPT ![x][f] = counters[x][f]]
  OBVIOUS
<1>9. /\ stats \in [ObservedNames -> [Fields -> Int]]
      /\ \A y \in ObservedNames :
           stats[y].completed = IF x = y /\ f = "completed" THEN counters[y].completed
                                ELSE snap.stats[y].completed
  <2>1. counters[x][f] \in Int
    BY <1>2, <1>7
  <2>2. stats \in [ObservedNames -> [Fields -> Int]]
    BY <1>2, <1>7, <1>8, <2>1
  <2>3. ASSUME NEW y \in ObservedNames
        PROVE  stats[y].completed = IF x = y /\ f = "completed" THEN counters[y].completed
                                    ELSE snap.stats[y].completed
    <3>1. snap.stats[y] \in [Fields -> Int] /\ "completed" \in Fields
      BY <1>7 DEF Fields
    <3>2. stats[y] = IF x = y THEN [snap.stats[y] EXCEPT ![f] = counters[x][f]] ELSE snap.stats[y]
      BY <1>7, <1>8
    <3>3. QED
      BY <3>1, <3>2
  <2>4. QED
    BY <2>2, <2>3
<1>10. snap' \in Snaps /\ snap'.stats = stats
  BY <1>3, <1>4, <1>8, <1>9 DEF Snaps
<1>11. \A y \in ObservedNames : Taken(y)' => stats[y].completed \in latest[y]..counters[y].completed
  <2>1. \A y \in ObservedNames : latest[y] \in Int /\ counters[y].completed \in Int
    <3>1. ObservedNames \subseteq StageNames
      BY SnapshotsAssumption DEF ObservedNames, ToSet
    <3>2. QED
      BY <1>7, <3>1 DEF AccountsOK, Fields
  <2>2. \A y \in ObservedNames : counters[y].completed \in latest[y]..counters[y].completed
    BY <2>1 DEF ObserverInv
  <2>3. \A y \in ObservedNames : Taken(y) => snap.stats[y].completed \in latest[y]..counters[y].completed
    BY <1>3, Zenon DEF ObserverInv, ReadCounter
  <2>4. QED
    BY <1>6, <1>9, <2>2, <2>3
<1>12. QED
  BY <1>1, <1>4, <1>5, <1>10, <1>11 DEF ObserverInv

\* The other steps of the observer.
LEMMA SnapshotsKeepAccounts ==
  ASSUME AccountsOK, ObserverInv, BeginSnapshot \/ SetClockBack
  PROVE  ObserverInv'
<1>1. CASE BeginSnapshot
  <2>1. /\ UNCHANGED <<restarted, wall, since, counters, prev, latest>> /\ pos' = 0
        /\ snap' = [at |-> clock, unixNano |-> clock - wall,
                    stats |-> [x \in ObservedNames |-> [f \in Fields |-> 0]]]
    BY <1>1, FieldsRead DEF BeginSnapshot, stageVars, windowVars, ObservedNames
  <2>2. clock \in Nat /\ clock - wall \in Int
    BY DEF AccountsOK, ObserverInv
  <2>3. snap' \in Snaps
    BY <2>1, <2>2 DEF Snaps
  <2>4. \A x : ~Taken(x)'
    BY <2>1 DEF Taken, Readings
  <2>5. QED
    BY <2>1, <2>3, <2>4 DEF ObserverInv
<1>2. CASE SetClockBack
  <2>1. UNCHANGED <<restarted, since, counters, prev, snap, pos, latest>> /\ wall' = wall + 1
    BY <1>2 DEF SetClockBack, stageVars, windowVars
  <2>2. wall' \in Int
    BY <2>1 DEF ObserverInv
  <2>3. \A x : Taken(x)' = Taken(x)
    BY <2>1 DEF Taken, Readings
  <2>4. QED
    BY <2>1, <2>2, <2>3 DEF ObserverInv
<1>3. QED
  BY <1>1, <1>2

\* All steps of the stages and the observer keep it, and the accounts.
LEMMA ObserverKeepsAccounts ==
  ASSUME AccountsOK, WindowsAddUp, ObserverInv, WorkerStep \/ ObserverStep
  PROVE  AccountsOK' /\ WindowsAddUp' /\ ObserverInv'
<1>1. CASE PublishOnSnapshot
  BY <1>1, PublishingKeepsAccounts
<1>2. CASE WorkerStep \/ BeginSnapshot \/ ReadCounter \/ SetClockBack
  <2>1. UNCHANGED <<clock, told, skipped, latest, restarted>>
    BY <1>2 DEF WorkerStep, BeginSnapshot, ReadCounter, SetClockBack, windowVars
  <2>2. AccountsOK' /\ WindowsAddUp'
    BY <2>1 DEF AccountsOK, WindowsAddUp
  <2>3. ObserverInv'
    BY <1>2, WorkersKeepAccounts, ReadingKeepsAccounts, SnapshotsKeepAccounts
  <2>4. QED
    BY <2>2, <2>3
<1>3. QED
  BY <1>1, <1>2 DEF ObserverStep

\* What a poll finds of a stage is what its counters are.
LEMMA PollsFindCounters ==
  ASSUME NEW current \in Polls
  PROVE  /\ DOMAIN current \subseteq Polled
         /\ \A s \in DOMAIN current :
              "completions" \in DOMAIN current[s] => current[s].completions = counter[s]
<1>1. PICK found \in SUBSET Polled : \E missing \in [found -> SUBSET (Required \cup OptionalFields)] :
        current = [s \in found |-> Extract(s, missing[s])]
  BY DEF Polls
<1>2. PICK missing \in [found -> SUBSET (Required \cup OptionalFields)] :
        current = [s \in found |-> Extract(s, missing[s])]
  BY <1>1
<1>3. DOMAIN current = found /\ \A s \in found : current[s] = Extract(s, missing[s])
  BY <1>2
<1>4. ASSUME NEW s, NEW m, "completions" \in DOMAIN Extract(s, m)
      PROVE  Extract(s, m).completions = counter[s]
  BY <1>4 DEF Extract, Cumulative
<1>5. QED
  BY <1>3, <1>4

\* The adapter tells only of stages that it can compare with a baseline.
LEMMA ToldAreComparable ==
  ASSUME NEW current, NEW o \in ToSet(Observations(current))
  PROVE  \E s \in Comparable(current) :
           o = ComputeObservation(s, tracker[s].prev, current[s], clock - tracker[s].prevTime)
<1>. DEFINE C == Comparable(current)
            pieces == [k \in DOMAIN NameOrder |->
                         IF NameOrder[k] \in C THEN <<NameOrder[k]>> ELSE <<>>]
            seq == FlattenSeq(pieces)
<1>1. NameOrder \in Seq(Polled)
  BY PollingAssumption DEF Validate
<1>2. pieces \in Seq(Seq(C))
  <2>1. PICK n \in Nat : DOMAIN NameOrder = 1..n
    BY <1>1
  <2>. HIDE DEF C
  <2>2. \A k \in 1..n : (IF NameOrder[k] \in C THEN <<NameOrder[k]>> ELSE <<>>) \in Seq(C)
    OBVIOUS
  <2>. DEFINE P == Seq(C)
  <2>3. \A k \in 1..n : (IF NameOrder[k] \in C THEN <<NameOrder[k]>> ELSE <<>>) \in P
    BY <2>2
  <2>. HIDE DEF P
  <2>4. pieces \in [1..n -> P]
    BY <2>1, <2>3
  <2>5. pieces \in Seq(P)
    <3>. HIDE DEF pieces
    <3>1. QED
      BY <2>4
  <2>6. QED
    BY <2>5 DEF P
<1>3. seq \in Seq(C)
  <2>. HIDE DEF pieces, C
  <2>1. QED
    BY <1>2, FlattenWithin
<1>4. Observations(current) =
        [k \in DOMAIN seq |-> ComputeObservation(seq[k], tracker[seq[k]].prev, current[seq[k]],
                                                 clock - tracker[seq[k]].prevTime)]
  BY DEF Observations
<1>. HIDE DEF seq
<1>5. PICK k \in DOMAIN seq :
        o = ComputeObservation(seq[k], tracker[seq[k]].prev, current[seq[k]], clock - tracker[seq[k]].prevTime)
  BY <1>4 DEF ToSet
<1>6. seq[k] \in C
  BY <1>3
<1>7. QED
  BY <1>5, <1>6

\* A poll cycle: the window tells what a stage has counted since its baseline,
\* and the baseline is replaced.
LEMMA CycleKeepsAccounts ==
  ASSUME AccountsOK, WindowsAddUp, AdapterInv, DoPollCycle
  PROVE  AccountsOK' /\ WindowsAddUp' /\ AdapterInv'
<1>1. PICK current \in Polls :
        /\ tracker' = NextTracker(current)
        /\ KeepAccounts(Observations(current),
             [s \in {x \in DOMAIN current : "completions" \in DOMAIN current[x]} |-> total[s]])
  BY DEF DoPollCycle
<1>2. UNCHANGED <<counter, total, clock>>
  BY DEF DoPollCycle
<1>. DEFINE obs == Observations(current)
            S == {x \in DOMAIN current : "completions" \in DOMAIN current[x]}
            seen == [s \in S |-> total[s]]
            d == [s \in S |-> SafeDelta(tracker[s].prev.completions, counter[s])]
<1>3. /\ DOMAIN current \subseteq Polled
      /\ \A s \in DOMAIN current :
           "completions" \in DOMAIN current[s] => current[s].completions = counter[s]
  BY PollsFindCounters
<1>4. /\ Polled \subseteq StageNames
      /\ \A s \in Polled : /\ counter[s] \in Nat /\ total[s] \in Nat /\ latest[s] \in Int
                           /\ latest[s] <= total[s]
                           /\ s \notin restarted => counter[s] = total[s]
  BY PollingAssumption DEF AdapterInv, AccountsOK
<1>5. \A s \in StageNames : s \in DOMAIN seen => seen[s] \in Int
  BY <1>3, <1>4
<1>6. ASSUME NEW s \in StageNames, NEW o \in Tells(obs, s)
      PROVE  /\ s \in DOMAIN seen /\ o.completions = d[s] /\ d[s] \in Int
             /\ d[s] <= seen[s] - latest[s]
             /\ s \notin restarted => d[s] = seen[s] - latest[s]
  <2>1. o \in ToSet(obs) /\ o.stage = s /\ "completions" \in o.mask
    BY DEF Tells
  <2>2. PICK r \in Comparable(current) :
          o = ComputeObservation(r, tracker[r].prev, current[r], clock - tracker[r].prevTime)
    BY <2>1, ToldAreComparable
  <2>3. r = s
    BY <2>1, <2>2 DEF ComputeObservation
  <2>4. s \in DOMAIN current /\ s \in DOMAIN tracker
    BY <2>2, <2>3 DEF Comparable
  <2>5. "completions" \in DOMAIN tracker[s].prev /\ "completions" \in DOMAIN current[s]
    <3>1. o.mask = ((DOMAIN tracker[s].prev \cap DOMAIN current[s]) \cap (OptionalWork \cup {"completions", "failures"}))
                     \cup (DOMAIN current[s] \cap {"queueDepth"})
      BY <2>2, <2>3 DEF ComputeObservation
    <3>2. QED
      BY <2>1, <3>1
  <2>6. o.completions = SafeDelta(tracker[s].prev.completions, counter[s])
    <3>1. o.completions = Delta(tracker[s].prev, current[s], "completions")
      BY <2>2, <2>3 DEF ComputeObservation
    <3>2. QED
      BY <1>3, <2>4, <2>5, <3>1 DEF Delta
  <2>7. /\ tracker[s].prev.completions \in Nat
        /\ counter[s] - tracker[s].prev.completions <= total[s] - latest[s]
        /\ s \notin restarted => tracker[s].prev.completions = latest[s]
    BY <2>4, <2>5 DEF AdapterInv, BaselineOK
  <2>8. s \in S /\ s \in Polled /\ s \in DOMAIN seen /\ seen[s] = total[s]
    BY <1>3, <2>4, <2>5
  <2>9. d[s] = SafeDelta(tracker[s].prev.completions, counter[s])
    BY <2>8
  <2>. DEFINE p == tracker[s].prev.completions
              delta == SafeDelta(p, counter[s])
  <2>10. /\ delta \in Int /\ delta <= total[s] - latest[s]
         /\ s \notin restarted => delta = total[s] - latest[s]
    <3>1. p \in Nat /\ counter[s] - p <= total[s] - latest[s] /\ (s \notin restarted => p = latest[s])
      BY <2>7
    <3>. HIDE DEF p
    <3>2. QED
      BY <1>4, <2>8, <3>1 DEF SafeDelta
  <2>. HIDE DEF d, seen, S, p
  <2>11. QED
    BY <2>6, <2>8, <2>9, <2>10 DEF p
<1>. HIDE DEF obs, d
<1>7. /\ AccountsOK' /\ WindowsAddUp' /\ restarted' = restarted
      /\ \A s \in StageNames : latest'[s] = IF s \in DOMAIN seen THEN seen[s] ELSE latest[s]
  <2>1. KeepAccounts(obs, seen)
    BY <1>1 DEF obs
  <2>. HIDE DEF seen
  <2>2. QED
    BY <1>2, <1>5, <1>6, <2>1, AccountsKept
<1>8. \A s \in Polled : latest'[s] = IF s \in S THEN total[s] ELSE latest[s]
  <2>1. DOMAIN seen = S /\ \A s \in S : seen[s] = total[s]
    OBVIOUS
  <2>. HIDE DEF seen, S
  <2>2. QED
    BY <1>4, <1>7, <2>1
<1>9. DOMAIN tracker' \subseteq DOMAIN current \cup DOMAIN tracker
  BY <1>1 DEF NextTracker, NextBaselines, Missed
<1>10. ASSUME NEW s \in DOMAIN tracker'
       PROVE  /\ tracker'[s] = [prev |-> tracker'[s].prev, prevTime |-> tracker'[s].prevTime, missed |-> tracker'[s].missed]
              /\ BaselineOK(s)'
  <2>1. CASE s \in DOMAIN current
    <3>1. tracker'[s] = [prev |-> current[s], prevTime |-> clock, missed |-> 0]
      BY <1>1, <2>1 DEF NextTracker, NextBaselines
    <3>2. tracker'[s].prev = current[s]
      BY <3>1
    <3>3. ASSUME "completions" \in DOMAIN current[s]
          PROVE  current[s].completions = counter[s] /\ latest'[s] = total[s] /\ s \in Polled
      BY <1>3, <1>8, <2>1, <3>3
    <3>4. BaselineOK(s)'
      <4>1. SUFFICES ASSUME "completions" \in DOMAIN current[s]
                     PROVE  /\ counter[s] \in Nat
                            /\ counter[s] - counter[s] <= total[s] - total[s]
                            /\ s \notin restarted => counter[s] = total[s]
        BY <1>2, <1>7, <3>2, <3>3 DEF BaselineOK
      <4>2. QED
        BY <1>4, <3>3, <4>1
    <3>5. QED
      BY <3>1, <3>4
  <2>2. CASE s \notin DOMAIN current
    <3>1. s \in DOMAIN tracker /\ tracker'[s] = [tracker[s] EXCEPT !.missed = @ + 1]
      BY <1>1, <2>2 DEF NextTracker, NextBaselines, Missed
    <3>2. /\ tracker[s] = [prev |-> tracker[s].prev, prevTime |-> tracker[s].prevTime, missed |-> tracker[s].missed]
          /\ BaselineOK(s) /\ s \in Polled
      BY <3>1 DEF AdapterInv
    <3>3. /\ tracker'[s].prev = tracker[s].prev
          /\ tracker'[s] = [prev |-> tracker'[s].prev, prevTime |-> tracker'[s].prevTime, missed |-> tracker'[s].missed]
      BY <3>1, <3>2
    <3>4. latest'[s] = latest[s]
      BY <1>8, <2>2, <3>2
    <3>5. BaselineOK(s)'
      BY <1>2, <1>7, <3>2, <3>3, <3>4 DEF BaselineOK
    <3>6. QED
      BY <3>3, <3>5
  <2>3. QED
    BY <2>1, <2>2
<1>11. \A s \in Polled : latest'[s] <= total[s]
  <2>. HIDE DEF S
  <2>1. QED
    BY <1>4, <1>8
<1>12. AdapterInv'
  <2>1. DOMAIN tracker' \subseteq Polled
    BY <1>3, <1>9 DEF AdapterInv
  <2>2. QED
    BY <1>2, <1>4, <1>7, <1>10, <1>11, <2>1 DEF AdapterInv
<1>13. QED
  BY <1>7, <1>12

\* The stages that are polled work, and restart.
LEMMA PolledKeepAccounts ==
  ASSUME AccountsOK, WindowsAddUp, AdapterInv, NEW s \in Polled, Progress(s) \/ Restart(s)
  PROVE  AccountsOK' /\ WindowsAddUp' /\ AdapterInv'
<1>1. /\ Polled \subseteq StageNames /\ counter \in [Polled -> Nat] /\ total \in [Polled -> Nat]
      /\ DOMAIN tracker \subseteq Polled
  BY PollingAssumption DEF AdapterInv
<1>2. \A r \in Polled : /\ latest[r] \in Int /\ latest[r] <= total[r]
                        /\ r \notin restarted => counter[r] = total[r]
  BY <1>1 DEF AdapterInv, AccountsOK
<1>3. UNCHANGED <<tracker, clock, told, skipped, latest>>
  BY DEF Progress, Restart, windowVars
<1>4. AccountsOK'
  BY <1>3 DEF AccountsOK
<1>5. restarted \subseteq restarted' /\ WindowsAddUp'
  BY <1>3 DEF WindowsAddUp, Progress, Restart, windowVars
<1>6. CASE Progress(s)
  <2>1. /\ counter' = [counter EXCEPT ![s] = @ + 1] /\ total' = [total EXCEPT ![s] = @ + 1]
        /\ restarted' = restarted
    BY <1>6 DEF Progress, windowVars
  <2>2. counter' \in [Polled -> Nat] /\ total' \in [Polled -> Nat]
    BY <1>1, <2>1
  <2>3. \A r \in Polled : /\ counter'[r] = (IF r = s THEN counter[r] + 1 ELSE counter[r])
                          /\ total'[r] = (IF r = s THEN total[r] + 1 ELSE total[r])
    BY <1>1, <2>1
  <2>4. \A r \in Polled : /\ latest[r] <= total'[r]
                          /\ r \notin restarted => counter'[r] = total'[r]
    BY <1>1, <1>2, <2>3
  <2>5. ASSUME NEW r \in DOMAIN tracker
        PROVE  BaselineOK(r)'
    <3>1. BaselineOK(r) /\ r \in Polled
      BY <1>1 DEF AdapterInv
    <3>2. \A n \in Nat : counter[r] - n <= total[r] - latest[r] => counter'[r] - n <= total'[r] - latest[r]
      BY <1>1, <1>2, <2>3, <3>1
    <3>3. QED
      BY <1>3, <2>1, <3>1, <3>2 DEF BaselineOK
  <2>6. QED
    BY <1>3, <1>4, <1>5, <2>1, <2>2, <2>4, <2>5 DEF AdapterInv
<1>7. CASE Restart(s)
  <2>1. /\ counter' = [counter EXCEPT ![s] = 0] /\ total' = total
        /\ restarted' = restarted \cup {s}
    BY <1>7 DEF Restart
  <2>2. counter' \in [Polled -> Nat]
    BY <1>1, <2>1
  <2>3. \A r \in Polled : counter'[r] = (IF r = s THEN 0 ELSE counter[r])
    BY <1>1, <2>1
  <2>4. \A r \in Polled : r \notin restarted' => counter'[r] = total'[r]
    BY <1>2, <2>1, <2>3
  <2>5. ASSUME NEW r \in DOMAIN tracker
        PROVE  BaselineOK(r)'
    <3>1. BaselineOK(r) /\ r \in Polled
      BY <1>1 DEF AdapterInv
    <3>2. \A n \in Nat : counter[r] - n <= total[r] - latest[r] => counter'[r] - n <= total[r] - latest[r]
      BY <1>1, <1>2, <2>3, <3>1
    <3>3. QED
      BY <1>3, <2>1, <3>1, <3>2 DEF BaselineOK
  <2>6. QED
    BY <1>1, <1>2, <1>3, <1>4, <1>5, <2>1, <2>2, <2>4, <2>5 DEF AdapterInv
<1>8. QED
  BY <1>4, <1>5, <1>6, <1>7

\* Every step keeps the accounts.
LEMMA AccountsInvStep ==
  ASSUME AccountsInv, [ObservingNext]_observingVars
  PROVE  AccountsInv'
<1>1. CASE UNCHANGED <<publisher, told, skipped, latest, restarted, snapshotVars, pollingVars>> /\ clock' \in {clock, clock + 1}
  <2>1. AccountsOK' /\ WindowsAddUp'
    BY <1>1 DEF AccountsInv, AccountsOK, WindowsAddUp
  <2>2. publisher = "observer" => ObserverInv'
    BY <1>1 DEF AccountsInv, ObserverInv, Taken, Readings, snapshotVars, stageVars, observerVars
  <2>3. publisher = "adapter" => AdapterInv'
    BY <1>1 DEF AccountsInv, AdapterInv, BaselineOK, pollingVars
  <2>4. QED
    BY <1>1, <2>1, <2>2, <2>3 DEF AccountsInv
<1>2. CASE publisher = "observer" /\ (WorkerStep \/ ObserverStep) /\ UNCHANGED publisher
  <2>1. AccountsOK' /\ WindowsAddUp' /\ ObserverInv'
    BY <1>2, ObserverKeepsAccounts DEF AccountsInv
  <2>2. QED
    BY <1>2, <2>1 DEF AccountsInv
<1>3. CASE publisher = "adapter" /\ PollingStep /\ UNCHANGED publisher
  <2>1. AccountsOK' /\ WindowsAddUp' /\ AdapterInv'
    BY <1>3, CycleKeepsAccounts, PolledKeepAccounts DEF AccountsInv, PollingStep
  <2>2. QED
    BY <1>3, <2>1 DEF AccountsInv
<1>4. CASE Tell /\ UNCHANGED <<publisher, snapshotVars, pollingVars>>
  BY <1>1, <1>4 DEF Tell, windowVars
<1>5. CASE Pass /\ UNCHANGED <<publisher, snapshotVars, pollingVars>>
  BY <1>1, <1>5 DEF Pass, windowVars
<1>6. CASE UNCHANGED <<publisher, clock, windowVars, snapshotVars, pollingVars>>
  BY <1>1, <1>6 DEF windowVars
<1>7. CASE UNCHANGED observingVars
  BY <1>6, <1>7 DEF observingVars
<1>8. QED
  BY <1>2, <1>3, <1>4, <1>5, <1>6, <1>7 DEF ObservingNext

(* Whatever is published, lost or refused, however closing and calling     *)
(* interleave, and however many polls go unanswered: handlers are given    *)
(* what was sent, in its order and each at most once, and the windows of a *)
(* stage that was not restarted tell each of its completions once, but for *)
(* those that fell before a baseline (src/transport.go:79-89,              *)
(* src/publish.go:43-123, src/internal/adapter/delta.go:47-142).           *)
THEOREM HeardAlwaysAddsUp == ObservingSpec => []HeardAddsUp
<1>. DEFINE IInv == SubscriptionInv /\ LineInv /\ AccountsInv
<1>1. ObservingInit => IInv
  BY SubscriptionInvInit, LineInvInit, AccountsInvInit DEF ObservingInit
<1>2. IInv /\ [ObservingNext]_observingVars => IInv'
  BY SubscriptionInvStep, LineInvStep, AccountsInvStep
<1>3. IInv => HeardAddsUp
  BY LineHears DEF AccountsInv, HeardAddsUp
<1>4. QED
  BY <1>1, <1>2, <1>3, PTL DEF ObservingSpec
==============================================================================
