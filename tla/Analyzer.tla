------------------------------- MODULE Analyzer -------------------------------
(***************************************************************************)
(* The constraint analyzer (core/analyzer.go): one Step per window         *)
(* classifies the stages, finds the sole top saturated one, and moves the  *)
(* incumbent and its challenger.                                           *)
(*                                                                         *)
(* A sample is what one window shows of one stage, its ratios in percent:  *)
(* [util, idle, blocked, error, depth].  "idle" and "blocked" are Absent when  *)
(* the source does not report them, "util" when the data do not suffice.    *)
(***************************************************************************)
EXTENDS Integers, Sequences, FiniteSets, FiniteSetsExt

CONSTANTS
  Stages, NoStage,
  Samples,            \* samples a window may show
  Drums,              \* stages the operator may name as override
  HysteresisWindows, DemotionWindows,
  MaxCount            \* bound: supportN and starvationN are counted up to it

ASSUME AnalyzerAssumption ==
  /\ IsFiniteSet(Stages) /\ NoStage \notin Stages /\ Drums \subseteq Stages
  /\ HysteresisWindows \in Nat \ {0} /\ DemotionWindows \in Nat \ {0}   \* else it panics
  /\ MaxCount \in Nat /\ MaxCount >= HysteresisWindows

VARIABLES
  prevQueueDepth,     \* [stages seen -> depth]
  drum, prevDrum,     \* manual override
  incumbent, unsupportedN, supportN,
  challenger, challengerN,
  starvationN,
  diag,               \* the last Diagnosis, None before the first window
  tops,               \* history: sole tops of the last windows without override
  fromOverride        \* history: how many of them came after the last override

analyzerVars == <<prevQueueDepth, drum, prevDrum, incumbent, unsupportedN, supportN,
                  challenger, challengerN, starvationN, diag, tops,
                  fromOverride>>

Absent == -1
None == [state |-> "None"]

Diagnosis(state, source, constraint, candidate, fresh, unsupported, starved) ==
  [state |-> state, source |-> source, constraint |-> constraint, candidate |-> candidate,
   fresh |-> fresh, unsupported |-> unsupported, starved |-> starved]

AnalyzerInit ==
  /\ prevQueueDepth = [s \in {} |-> 0]
  /\ drum \in {NoStage} \cup Drums /\ prevDrum = NoStage
  /\ incumbent = NoStage /\ unsupportedN = 0 /\ supportN = 0
  /\ challenger = NoStage /\ challengerN = 0 /\ starvationN = 0
  /\ diag = None /\ tops = <<>> /\ fromOverride = 0

-------------------------------------------------------------------------------
(* Classification of one stage in one window.                              *)

\* No growth is known without a previous depth.
QueueGrowth(s, x) == IF s \in DOMAIN prevQueueDepth THEN x.depth - prevQueueDepth[s] ELSE 0

\* classify, with the default thresholds: the first test that holds decides.
Classify(s, x) ==
  IF x.util = Absent THEN "Unknown"
  ELSE IF x.error > 20 THEN "Broken"
  ELSE IF x.idle > 50 /\ QueueGrowth(s, x) <= 0 THEN "Starved"
  ELSE IF x.blocked > 30 THEN "Blocked"
  ELSE IF x.util > 70 /\ x.idle < 30 /\ x.blocked < 20 THEN "Saturated"
  ELSE "Healthy"

TieMargin == 5

\* The saturated stage that leads all others by the margin, if there is one.
SoleTop(saturated, w) ==
  IF \E s \in saturated : \A x \in saturated \ {s} : w[s].util - w[x].util >= TieMargin
  THEN CHOOSE s \in saturated : \A x \in saturated \ {s} : w[s].util - w[x].util >= TieMargin
  ELSE NoStage

Saturated(w) == {s \in DOMAIN w : Classify(s, w[s]) = "Saturated"}
Tied(w) == Saturated(w) # {} /\ SoleTop(Saturated(w), w) = NoStage

-------------------------------------------------------------------------------
(* One window.  w maps the stages observed to their samples.               *)

\* trackStarvation, for the stage that is the constraint after this window.
StarvedFor(target, w, n) ==
  IF target = NoStage THEN n
  ELSE IF target \in DOMAIN w /\ Classify(target, w[target]) = "Starved"
       THEN Min({n + 1, MaxCount}) ELSE 0

SeeDepths(w) ==
  prevQueueDepth' = [s \in DOMAIN prevQueueDepth \cup DOMAIN w |->
                       IF s \in DOMAIN w THEN w[s].depth ELSE prevQueueDepth[s]]

Memory == Max({HysteresisWindows, DemotionWindows})
Record(top) ==
  LET seen == Append(tops, top)
  IN  /\ tops' = SubSeq(seen, Max({1, Len(seen) - Memory + 1}), Len(seen))
      /\ fromOverride' = Min({fromOverride + 1, Memory})

\* The override decides; incumbent and its counts stay as they are.
OverrideWindow(w) ==
  /\ drum # NoStage
  /\ IF drum # prevDrum
     THEN challenger' = NoStage /\ challengerN' = 0
     ELSE UNCHANGED <<challenger, challengerN>>
  /\ prevDrum' = drum
  /\ starvationN' = StarvedFor(drum, w, starvationN)
  /\ diag' = Diagnosis("Identified", "ManualOverride", drum, NoStage, MaxCount, 0, starvationN')
  /\ fromOverride' = 0
  /\ UNCHANGED <<incumbent, unsupportedN, supportN, tops>>

\* Mutant of Challenge: a gap keeps the count, so windows need not be consecutive.
ChallengeAcrossGaps(top) ==
  IF top \notin {NoStage, incumbent}
  THEN [name |-> top, n |-> IF top = challenger THEN challengerN + 1 ELSE 1]
  ELSE [name |-> challenger, n |-> challengerN]

\* Step 4: a gap resets the challenger's count and keeps its name.
Challenge(top) ==
  IF top \notin {NoStage, incumbent}
  THEN [name |-> top, n |-> IF top = challenger THEN challengerN + 1 ELSE 1]
  ELSE [name |-> challenger, n |-> 0]

\* Steps 6 and 7: support of incumbent i, or its demotion.
Supported(i, n, uns, top) ==
  IF i = NoStage THEN [i |-> i, n |-> n, uns |-> uns]
  ELSE IF top = i THEN [i |-> i, n |-> Min({n + 1, MaxCount}), uns |-> 0]
  ELSE IF uns + 1 >= DemotionWindows THEN [i |-> NoStage, n |-> 0, uns |-> 0]
  ELSE [i |-> i, n |-> 0, uns |-> uns + 1]

State(w) ==
  IF DOMAIN w = {} THEN "Unknown"
  ELSE IF incumbent' # NoStage THEN "Identified"
  ELSE IF challenger' # NoStage /\ challengerN' > 0 THEN "Emerging"
  ELSE IF Tied(w) THEN "Ambiguous" ELSE "Unconstrained"

\* Mutant of Emit: freshness and unsupported count are set before the switch.
EmitSupportAlways(w) ==
  diag' = Diagnosis(State(w), IF State(w) = "Identified" THEN "Inferred" ELSE "Unspecified",
                    IF State(w) = "Identified" THEN incumbent' ELSE NoStage,
                    IF State(w) = "Emerging" THEN challenger' ELSE NoStage,
                    supportN', unsupportedN', starvationN')

Emit(w) ==
  LET building == challenger' # NoStage /\ challengerN' > 0 /\ challenger' # incumbent'
      candidate == IF building THEN challenger' ELSE NoStage
  IN  diag' = CASE State(w) = "Identified" ->
                     Diagnosis("Identified", "Inferred", incumbent', candidate,
                               supportN', unsupportedN', starvationN')
                [] State(w) = "Emerging" ->
                     Diagnosis("Emerging", "Unspecified", NoStage, challenger', 0, 0, starvationN')
                [] OTHER ->
                     Diagnosis(State(w), "Unspecified", NoStage, NoStage, 0, 0, starvationN')

AutomaticWindow(w) ==
  LET top == SoleTop(Saturated(w), w)
      c == Challenge(top)
      promote == c.name \notin {NoStage, incumbent} /\ c.n >= HysteresisWindows
      now == IF promote THEN Supported(c.name, HysteresisWindows, 0, top)
                        ELSE Supported(incumbent, supportN, unsupportedN, top)
      starved == IF promote \/ (incumbent # NoStage /\ now.i = NoStage) THEN 0 ELSE starvationN
  IN  /\ drum = NoStage
      /\ prevDrum' = drum
      /\ challenger' = IF promote THEN NoStage ELSE c.name
      /\ challengerN' = IF promote THEN 0 ELSE c.n
      /\ incumbent' = now.i /\ supportN' = now.n /\ unsupportedN' = now.uns
      /\ starvationN' = StarvedFor(now.i, w, starved)
      /\ Record(top)
      /\ Emit(w)

Step(w) ==
  /\ OverrideWindow(w) \/ AutomaticWindow(w)
  /\ SeeDepths(w)
  /\ UNCHANGED drum

SetDrum(name) ==
  /\ drum' = name
  /\ UNCHANGED <<prevQueueDepth, prevDrum, incumbent, unsupportedN, supportN, challenger,
                 challengerN, starvationN, diag, tops, fromOverride>>

Windows == UNION {[S -> Samples] : S \in SUBSET Stages}

AnalyzerNext ==
  \/ \E w \in Windows : Step(w)
  \/ \E name \in Drums \cup {NoStage} : SetDrum(name)

AnalyzerSpec == AnalyzerInit /\ [][AnalyzerNext]_analyzerVars

-------------------------------------------------------------------------------
(* Properties.                                                             *)

\* Diagnosis.Valid (core/core.go:174): every diagnosis is consistent in itself,
\* whatever override, gap and promotion led to it.
DiagnosisValid ==
  diag # None =>
    /\ diag.state = "Identified" =>
         diag.constraint # NoStage /\ diag.source # "Unspecified"
    /\ diag.state = "Emerging" => diag.candidate # NoStage /\ diag.constraint = NoStage
    /\ diag.state \notin {"Identified", "Emerging"} =>
         diag.constraint = NoStage /\ diag.candidate = NoStage
    /\ diag.state # "Identified" =>
         diag.source = "Unspecified" /\ diag.fresh = 0 /\ diag.unsupported = 0
    /\ diag.candidate # NoStage => diag.candidate # diag.constraint

LastAll(n, Test(_)) ==
  Len(tops') >= n /\ \A k \in Len(tops') - n + 1..Len(tops') : Test(tops'[k])

\* "Promotion requires HysteresisWindows consecutive windows as sole top" and
\* demotion as many unsupported ones (core/analyzer.go:46): the incumbent changes
\* only on that evidence.  An override in between voids a promotion; for a
\* demotion its windows are skipped.
IncumbentStep ==
  incumbent' # incumbent =>
    \/ /\ incumbent' # NoStage /\ fromOverride' >= HysteresisWindows
       /\ LastAll(HysteresisWindows, LAMBDA t : t = incumbent')
    \/ incumbent' = NoStage /\ LastAll(DemotionWindows, LAMBDA t : t # incumbent)
IncumbentEarned == [][IncumbentStep]_analyzerVars
===============================================================================
