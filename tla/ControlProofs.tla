---------------------------- MODULE ControlProofs ----------------------------
(***************************************************************************)
(* The analyzer and the rebalancer, for every set of stages, every sample, *)
(* every hysteresis, every policy and every cooldown.                      *)
(*                                                                         *)
(* Analyzer: its counters are evidence.  challengerN is the number of last *)
(* windows whose sole top was the challenger, unsupportedN that of the     *)
(* last windows whose sole top was not the incumbent, and neither survives *)
(* what voids it.                                                          *)
(*                                                                         *)
(* Rebalancer: whoever is on its way out, what a tick has read of a stage  *)
(* is no less than the handles it still has (CountInv).  While moves and   *)
(* reversals are punctual the handles of donor and receiver are known at   *)
(* every place in a tick, so that setting workers to a number read earlier *)
(* moves exactly one (RebalancerInv).                                      *)
(***************************************************************************)
EXTENDS Rebalancer, Lemmas

-------------------------------------------------------------------------------
(* The analyzer.                                                           *)

Names == Stages \cup {NoStage}

\* The last n windows of history q had their top in S.
EndsIn(q, n, S) == Len(q) >= n /\ \A k \in (Len(q) - n + 1)..Len(q) : q[k] \in S

AnalyzerTypes ==
  /\ drum \in Names /\ incumbent \in Names /\ challenger \in Names
  /\ challengerN \in Nat /\ unsupportedN \in Nat /\ fromOverride \in Nat
  /\ tops \in Seq(Names) /\ Len(tops) <= Memory

ChallengeIsEvidence ==
  /\ challengerN < HysteresisWindows /\ challengerN <= fromOverride
  /\ prevDrum # NoStage => challengerN = 0
  /\ EndsIn(tops, challengerN, {challenger})

DemotionIsEvidence ==
  /\ unsupportedN < DemotionWindows
  /\ incumbent # NoStage => EndsIn(tops, unsupportedN, Names \ {incumbent})

AnalyzerInv == AnalyzerTypes /\ ChallengeIsEvidence /\ DemotionIsEvidence

\* The memory of windows is as long as both hystereses.
LEMMA MemoryIs ==
  /\ Memory \in Nat \ {0} /\ HysteresisWindows <= Memory /\ DemotionWindows <= Memory
BY AnalyzerAssumption, MaxOfTwo DEF Memory

\* A window's sole top is one of the stages, if there is one.
LEMMA TopIsAStage ==
  ASSUME NEW w \in Windows
  PROVE  SoleTop(Saturated(w), w) \in Names
<1>1. Saturated(w) \subseteq Stages
  BY DEF Saturated, Windows
<1>2. QED
  BY <1>1 DEF SoleTop, Names

\* Recording a top extends what is known of the last windows by one.
LEMMA RecordExtends ==
  ASSUME tops \in Seq(Names), Len(tops) <= Memory, fromOverride \in Nat,
         NEW top \in Names, Record(top)
  PROVE  /\ tops' \in Seq(Names) /\ Len(tops') <= Memory
         /\ fromOverride' = (IF fromOverride + 1 <= Memory THEN fromOverride + 1 ELSE Memory)
         /\ \A n \in Nat : \A S : n + 1 <= Memory /\ EndsIn(tops, n, S) /\ top \in S
                                => EndsIn(tops', n + 1, S)
<1>. DEFINE L == Len(tops)
            first == IF L + 1 <= Memory THEN 1 ELSE L + 2 - Memory
            seq == Append(tops, top)
<1>1. L \in Nat /\ Memory \in Nat \ {0}
  BY MemoryIs
<1>2. seq \in Seq(Names) /\ Len(seq) = L + 1 /\ seq[L + 1] = top
      /\ \A k \in 1..L : seq[k] = tops[k]
  OBVIOUS
<1>3. Max({1, Len(seq) - Memory + 1}) = first
  <2>1. Max({1, Len(seq) - Memory + 1})
          = IF 1 <= Len(seq) - Memory + 1 THEN Len(seq) - Memory + 1 ELSE 1
    BY <1>1, <1>2, MaxOfTwo
  <2>2. QED
    BY <2>1, <1>1, <1>2
<1>4. tops' = SubSeq(seq, first, L + 1)
  BY <1>2, <1>3 DEF Record
<1>5. first \in 1..(L + 1)
  BY <1>1
<1>. HIDE DEF seq, first
<1>6. /\ tops' \in Seq(Names) /\ Len(tops') = L + 2 - first
      /\ \A k \in 1..(L + 2 - first) : tops'[k] = seq[first + k - 1]
  BY <1>1, <1>2, <1>4, <1>5
<1>7. Len(tops') <= Memory
  BY <1>1, <1>6 DEF first
<1>8. fromOverride' = IF fromOverride + 1 <= Memory THEN fromOverride + 1 ELSE Memory
  <2>1. fromOverride + 1 \in Int /\ Memory \in Int
    BY <1>1
  <2>2. Min({fromOverride + 1, Memory})
          = IF fromOverride + 1 <= Memory THEN fromOverride + 1 ELSE Memory
    BY <2>1, MaxOfTwo
  <2>3. QED
    BY <2>2 DEF Record
<1>9. ASSUME NEW n \in Nat, NEW S, n + 1 <= Memory, EndsIn(tops, n, S), top \in S
      PROVE  EndsIn(tops', n + 1, S)
  <2>1. n <= L /\ \A k \in (L - n + 1)..L : tops[k] \in S
    BY <1>9 DEF EndsIn
  <2>2. Len(tops') >= n + 1
    <3>1. L + 2 - first >= n + 1
      <4>1. L \in Int /\ Memory \in Int /\ n \in Int /\ n <= L /\ n + 1 <= Memory
        BY <1>1, <1>9, <2>1
      <4>2. first = IF L + 1 <= Memory THEN 1 ELSE L + 2 - Memory
        BY DEF first
      <4>. HIDE DEF L
      <4>3. QED
        BY <4>1, <4>2
    <3>2. QED
      BY <1>6, <3>1
  <2>3. ASSUME NEW k \in (Len(tops') - (n + 1) + 1)..Len(tops')
        PROVE  tops'[k] \in S
    <3>1. tops'[k] = seq[first + k - 1]
      BY <1>1, <1>6, <2>2, <2>3, <1>5
    <3>2. first + k - 1 \in (L - n + 1)..(L + 1)
      BY <1>1, <1>6, <2>2, <2>3, <1>5
    <3>3. CASE first + k - 1 = L + 1
      BY <3>1, <3>3, <1>2, <1>9
    <3>4. CASE first + k - 1 # L + 1
      <4>1. first + k - 1 \in (L - n + 1)..L /\ first + k - 1 \in 1..L
        <5>. DEFINE j == first + k - 1
        <5>1. j \in Int /\ L - n + 1 <= j /\ j <= L + 1 /\ j # L + 1
          BY <3>2, <3>4, <1>1, <2>1, <1>5
        <5>. HIDE DEF j
        <5>2. j \in (L - n + 1)..L /\ j \in 1..L
          BY <5>1, <1>1, <2>1
        <5>3. QED
          BY <5>2 DEF j
      <4>2. QED
        BY <3>1, <4>1, <1>2, <2>1
    <3>5. QED
      BY <3>3, <3>4
  <2>4. QED
    BY <2>2, <2>3 DEF EndsIn
<1>10. QED
  BY <1>6, <1>7, <1>8, <1>9

\* The counters are evidence at first: there is none.
LEMMA AnalyzerInitially ==
  ASSUME AnalyzerInit
  PROVE  AnalyzerInv
<1>1. AnalyzerTypes
  BY AnalyzerAssumption, MemoryIs DEF AnalyzerInit, AnalyzerTypes, Names
<1>2. HysteresisWindows \in Nat \ {0} /\ DemotionWindows \in Nat \ {0}
  BY AnalyzerAssumption
<1>3. ChallengeIsEvidence /\ DemotionIsEvidence
  BY <1>2 DEF AnalyzerInit, ChallengeIsEvidence, DemotionIsEvidence, EndsIn
<1>4. QED
  BY <1>1, <1>3 DEF AnalyzerInv

\* What the challenger's count after a window says, before any promotion.
LEMMA ChallengeHolds ==
  ASSUME AnalyzerInv, NEW top \in Names, Record(top)
  PROVE  LET c == Challenge(top)
         IN  /\ c.name \in Names /\ c.n \in Nat
             /\ c.n <= HysteresisWindows /\ c.n <= fromOverride'
             /\ EndsIn(tops', c.n, {c.name})
             /\ c.n > 0 => c.name = top /\ top \notin {NoStage, incumbent}
<1>1. /\ HysteresisWindows \in Nat \ {0} /\ Memory \in Nat \ {0}
      /\ HysteresisWindows <= Memory
  BY AnalyzerAssumption, MemoryIs
<1>2. /\ tops \in Seq(Names) /\ Len(tops) <= Memory /\ fromOverride \in Nat
      /\ challengerN \in Nat /\ challenger \in Names
      /\ challengerN < HysteresisWindows /\ challengerN <= fromOverride
      /\ EndsIn(tops, challengerN, {challenger})
  BY DEF AnalyzerInv, AnalyzerTypes, ChallengeIsEvidence
<1>3. /\ tops' \in Seq(Names)
      /\ fromOverride' = (IF fromOverride + 1 <= Memory THEN fromOverride + 1 ELSE Memory)
      /\ \A n \in Nat : \A S : n + 1 <= Memory /\ EndsIn(tops, n, S) /\ top \in S
                             => EndsIn(tops', n + 1, S)
  BY <1>2, RecordExtends
<1>4. EndsIn(tops, 0, {top})
  BY <1>2 DEF EndsIn
<1>5. EndsIn(tops', 0, {challenger})
  BY <1>3 DEF EndsIn
<1>6. CASE top \in {NoStage, incumbent}
  <2>1. Challenge(top) = [name |-> challenger, n |-> 0]
    BY <1>6 DEF Challenge
  <2>2. 0 <= fromOverride'
    BY <1>1, <1>2, <1>3
  <2>3. QED
    BY <2>1, <2>2, <1>1, <1>2, <1>5
<1>7. CASE top \notin {NoStage, incumbent} /\ top = challenger
  <2>1. Challenge(top) = [name |-> top, n |-> challengerN + 1]
    BY <1>7 DEF Challenge
  <2>2. challengerN + 1 <= Memory /\ challengerN + 1 <= fromOverride'
    BY <1>1, <1>2, <1>3
  <2>3. EndsIn(tops', challengerN + 1, {top})
    BY <1>2, <1>3, <1>7, <2>2
  <2>4. QED
    BY <2>1, <2>2, <2>3, <1>1, <1>2, <1>7
<1>8. CASE top \notin {NoStage, incumbent} /\ top # challenger
  <2>1. Challenge(top) = [name |-> top, n |-> 1]
    BY <1>8 DEF Challenge
  <2>2. 1 <= Memory /\ 1 <= fromOverride' /\ 1 <= HysteresisWindows
    BY <1>1, <1>2, <1>3
  <2>3. EndsIn(tops', 0 + 1, {top})
    BY <1>3, <1>4, <2>2
  <2>4. QED
    BY <2>1, <2>2, <2>3, <1>8
<1>9. QED
  BY <1>6, <1>7, <1>8

\* Without an override the window's evidence is counted, and only a full count
\* changes the incumbent.
LEMMA AutomaticStep ==
  ASSUME AnalyzerInv, NEW w \in Windows, AutomaticWindow(w), drum' = drum
  PROVE  AnalyzerInv' /\ IncumbentStep
<1>. DEFINE top == SoleTop(Saturated(w), w)
            c == Challenge(top)
            promote == c.name \notin {NoStage, incumbent} /\ c.n >= HysteresisWindows
            now == IF promote THEN Supported(c.name, HysteresisWindows, 0, top)
                              ELSE Supported(incumbent, supportN, unsupportedN, top)
<1>1. /\ drum = NoStage /\ prevDrum' = NoStage /\ Record(top)
      /\ challenger' = (IF promote THEN NoStage ELSE c.name)
      /\ challengerN' = (IF promote THEN 0 ELSE c.n)
      /\ incumbent' = now.i /\ unsupportedN' = now.uns
  BY DEF AutomaticWindow
<1>2. top \in Names
  BY TopIsAStage
<1>3. /\ c.name \in Names /\ c.n \in Nat
      /\ c.n <= HysteresisWindows /\ c.n <= fromOverride'
      /\ EndsIn(tops', c.n, {c.name})
      /\ c.n > 0 => c.name = top /\ top \notin {NoStage, incumbent}
  BY <1>1, <1>2, ChallengeHolds
<1>4. /\ HysteresisWindows \in Nat \ {0} /\ DemotionWindows \in Nat \ {0}
      /\ Memory \in Nat \ {0} /\ DemotionWindows <= Memory
  BY AnalyzerAssumption, MemoryIs
<1>5. /\ tops \in Seq(Names) /\ Len(tops) <= Memory /\ fromOverride \in Nat
      /\ unsupportedN \in Nat /\ incumbent \in Names /\ drum \in Names
      /\ unsupportedN < DemotionWindows
      /\ incumbent # NoStage => EndsIn(tops, unsupportedN, Names \ {incumbent})
  BY DEF AnalyzerInv, AnalyzerTypes, DemotionIsEvidence
<1>. HIDE DEF top, c
<1>6. /\ tops' \in Seq(Names) /\ Len(tops') <= Memory
      /\ fromOverride' = (IF fromOverride + 1 <= Memory THEN fromOverride + 1 ELSE Memory)
      /\ \A n \in Nat : \A S : n + 1 <= Memory /\ EndsIn(tops, n, S) /\ top \in S
                             => EndsIn(tops', n + 1, S)
  BY <1>1, <1>2, <1>5, RecordExtends
<1>7. fromOverride' \in Nat
  BY <1>4, <1>5, <1>6
<1>8. \A S : EndsIn(tops', 0, S)
  BY <1>6 DEF EndsIn
<1>9. NoStage \in Names
  BY DEF Names
<1>10. CASE promote
  <2>1. c.n = HysteresisWindows /\ c.name = top /\ top \notin {NoStage, incumbent}
    BY <1>3, <1>4, <1>10
  <2>2. Supported(c.name, HysteresisWindows, 0, top).i = top
        /\ Supported(c.name, HysteresisWindows, 0, top).uns = 0
    BY <2>1 DEF Supported
  <2>3. now.i = top /\ now.uns = 0
    BY <1>10, <2>2
  <2>4. /\ incumbent' = top /\ unsupportedN' = 0
        /\ challenger' = NoStage /\ challengerN' = 0
    BY <1>1, <1>10, <2>3
  <2>5. EndsIn(tops', HysteresisWindows, {top}) /\ fromOverride' >= HysteresisWindows
    BY <1>3, <1>4, <1>7, <2>1
  <2>6. IncumbentStep
    BY <2>1, <2>4, <2>5 DEF IncumbentStep, LastAll, EndsIn
  <2>7. AnalyzerTypes'
    BY <2>4, <1>2, <1>5, <1>6, <1>7, <1>9, MemoryIs DEF AnalyzerTypes, Memory
  <2>8. ChallengeIsEvidence' /\ DemotionIsEvidence'
    BY <2>4, <1>1, <1>4, <1>7, <1>8 DEF ChallengeIsEvidence, DemotionIsEvidence
  <2>9. QED
    BY <2>6, <2>7, <2>8 DEF AnalyzerInv
<1>11. CASE ~promote
  <2>1. challenger' = c.name /\ challengerN' = c.n
    BY <1>1, <1>11
  <2>2. c.n < HysteresisWindows
    BY <1>3, <1>4, <1>11
  <2>3. ChallengeIsEvidence'
    BY <2>1, <2>2, <1>1, <1>3 DEF ChallengeIsEvidence
  <2>. DEFINE kept == Supported(incumbent, supportN, unsupportedN, top)
  <2>4. incumbent' = kept.i /\ unsupportedN' = kept.uns
    BY <1>1, <1>11
  <2>5. /\ incumbent' \in Names /\ unsupportedN' \in Nat
        /\ DemotionIsEvidence' /\ IncumbentStep
    <3>1. CASE incumbent = NoStage
      <4>1. incumbent' = NoStage /\ unsupportedN' = unsupportedN
        BY <2>4, <3>1 DEF Supported
      <4>2. QED
        BY <4>1, <3>1, <1>5, <1>9 DEF DemotionIsEvidence, IncumbentStep
    <3>2. CASE incumbent # NoStage /\ top = incumbent
      <4>1. incumbent' = incumbent /\ unsupportedN' = 0
        BY <2>4, <3>2 DEF Supported
      <4>2. QED
        BY <4>1, <1>4, <1>5, <1>8 DEF DemotionIsEvidence, IncumbentStep
    <3>3. CASE incumbent # NoStage /\ top # incumbent /\ unsupportedN + 1 >= DemotionWindows
      <4>1. incumbent' = NoStage /\ unsupportedN' = 0
        BY <2>4, <3>3 DEF Supported
      <4>2. unsupportedN + 1 = DemotionWindows
        BY <3>3, <1>4, <1>5
      <4>3. EndsIn(tops', DemotionWindows, Names \ {incumbent})
        BY <4>2, <3>3, <1>2, <1>4, <1>5, <1>6
      <4>4. IncumbentStep
        BY <4>1, <4>3 DEF EndsIn, IncumbentStep, LastAll
      <4>5. QED
        BY <4>1, <4>4, <1>4, <1>9 DEF DemotionIsEvidence
    <3>4. CASE incumbent # NoStage /\ top # incumbent
               /\ ~(unsupportedN + 1 >= DemotionWindows)
      <4>1. incumbent' = incumbent /\ unsupportedN' = unsupportedN + 1
        BY <2>4, <3>4 DEF Supported
      <4>2. unsupportedN + 1 < DemotionWindows /\ unsupportedN + 1 <= Memory
        BY <3>4, <1>4, <1>5
      <4>3. EndsIn(tops', unsupportedN + 1, Names \ {incumbent})
        BY <4>2, <3>4, <1>2, <1>5, <1>6
      <4>4. QED
        BY <4>1, <4>2, <4>3, <1>5 DEF DemotionIsEvidence, IncumbentStep
    <3>5. QED
      BY <3>1, <3>2, <3>3, <3>4
  <2>6. AnalyzerTypes'
    BY <2>1, <2>5, <1>3, <1>5, <1>6, <1>7 DEF AnalyzerTypes, Memory
  <2>7. QED
    BY <2>3, <2>5, <2>6 DEF AnalyzerInv
<1>12. QED
  BY <1>10, <1>11

\* A window under override counts for nobody, and it voids the challenge.
LEMMA OverrideStep ==
  ASSUME AnalyzerInv, NEW w \in Windows, OverrideWindow(w), drum' = drum
  PROVE  AnalyzerInv' /\ IncumbentStep
<1>1. /\ challengerN' = 0 /\ challenger' \in Names
      /\ fromOverride' = 0 /\ incumbent' = incumbent /\ unsupportedN' = unsupportedN
      /\ tops' = tops
  BY DEF OverrideWindow, AnalyzerInv, AnalyzerTypes, ChallengeIsEvidence, Names
<1>2. HysteresisWindows \in Nat \ {0}
  BY AnalyzerAssumption
<1>3. AnalyzerTypes'
  BY <1>1 DEF AnalyzerInv, AnalyzerTypes, Memory
<1>4. ChallengeIsEvidence'
  BY <1>1, <1>2 DEF AnalyzerInv, AnalyzerTypes, ChallengeIsEvidence, EndsIn
<1>5. DemotionIsEvidence'
  BY <1>1 DEF AnalyzerInv, DemotionIsEvidence
<1>6. QED
  BY <1>1, <1>3, <1>4, <1>5 DEF AnalyzerInv, IncumbentStep

\* A window that is judged leaves the counters evidence.
LEMMA AnalyzerStep ==
  ASSUME AnalyzerInv, [AnalyzerNext]_analyzerVars
  PROVE  AnalyzerInv' /\ IncumbentStep
<1>1. ASSUME NEW w \in Windows, Step(w)
      PROVE  AnalyzerInv' /\ IncumbentStep
  BY <1>1, AutomaticStep, OverrideStep DEF Step
<1>2. ASSUME NEW name \in Drums \cup {NoStage}, SetDrum(name)
      PROVE  AnalyzerInv' /\ IncumbentStep
  BY <1>2, AnalyzerAssumption
     DEF SetDrum, AnalyzerInv, AnalyzerTypes, ChallengeIsEvidence, DemotionIsEvidence,
         IncumbentStep, Names, Memory
<1>3. CASE UNCHANGED analyzerVars
  BY <1>3 DEF analyzerVars, AnalyzerInv, AnalyzerTypes, ChallengeIsEvidence,
              DemotionIsEvidence, IncumbentStep, Memory
<1>4. QED
  BY <1>1, <1>2, <1>3 DEF AnalyzerNext

\* The incumbent, whose stage the operator is told to protect and workers are
\* moved to, changes on the evidence it documents and on nothing else: so many
\* consecutive windows for a promotion, none of them from before an override,
\* and as many unsupported ones for a demotion (core/analyzer.go:46).
THEOREM IncumbentIsEarned == AnalyzerSpec => IncumbentEarned
<1>1. AnalyzerInit => AnalyzerInv
  BY AnalyzerInitially
<1>2. AnalyzerInv /\ [AnalyzerNext]_analyzerVars
        => AnalyzerInv' /\ [IncumbentStep]_analyzerVars
  BY AnalyzerStep
<1>3. QED
  BY <1>1, <1>2, PTL DEF AnalyzerSpec, IncumbentEarned

\* Whatever override, gap and promotion led to it, a diagnosis is consistent in
\* itself (Diagnosis.Valid, core/core.go:174): it is built from the state after
\* the window, so it names a constraint exactly when it identifies one.
THEOREM DiagnosisIsValid == AnalyzerSpec => []DiagnosisValid
<1>1. AnalyzerInit => DiagnosisValid
  BY DEF AnalyzerInit, DiagnosisValid
<1>2. DiagnosisValid /\ [AnalyzerNext]_analyzerVars => DiagnosisValid'
  <2>1. ASSUME NEW w, OverrideWindow(w)
        PROVE  DiagnosisValid'
    BY <2>1 DEF OverrideWindow, Diagnosis, DiagnosisValid
  <2>2. ASSUME NEW w, AutomaticWindow(w)
        PROVE  DiagnosisValid'
    <3>1. Emit(w)
      BY <2>2 DEF AutomaticWindow
    <3>2. CASE State(w) = "Identified"
      <4>1. incumbent' # NoStage
        BY <3>2 DEF State
      <4>2. QED
        BY <3>1, <3>2, <4>1 DEF Emit, Diagnosis, DiagnosisValid
    <3>3. CASE State(w) = "Emerging"
      <4>1. challenger' # NoStage
        BY <3>3 DEF State
      <4>2. QED
        BY <3>1, <3>3, <4>1 DEF Emit, Diagnosis, DiagnosisValid
    <3>4. CASE State(w) \notin {"Identified", "Emerging"}
      BY <3>1, <3>4 DEF Emit, Diagnosis, DiagnosisValid
    <3>5. QED
      BY <3>2, <3>3, <3>4
  <2>3. DiagnosisValid /\ diag' = diag => DiagnosisValid'
    BY DEF DiagnosisValid
  <2>4. QED
    BY <2>1, <2>2, <2>3
       DEF AnalyzerNext, Step, SetDrum, analyzerVars
<1>3. QED
  BY <1>1, <1>2, PTL DEF AnalyzerSpec

-------------------------------------------------------------------------------
(* Sequences of handles.                                                   *)

\* Of the handles q the first m are workers that stay, the others are cancelled.
FirstStay(q, m) == m \in 0..Len(q) /\ \A k \in 1..Len(q) : q[k] <=> k > m

\* What SetWorkers makes of the handles q of a stage that is to have n workers.
Resized(q, n) ==
  [k \in 1..Max({n, Len(q)}) |-> k \in DOMAIN q /\ (k > n \/ q[k])]

\* Asked for no more workers than it has handles, or when none is on its way
\* out, a stage ends up with the n it was asked for or the m it had.
LEMMA ResizedStays ==
  ASSUME NEW q \in Seq(BOOLEAN), NEW m, FirstStay(q, m),
         NEW n \in Nat, n <= Len(q) \/ m = Len(q)
  PROVE  /\ Resized(q, n) \in Seq(BOOLEAN)
         /\ Len(Resized(q, n)) = (IF n <= Len(q) THEN Len(q) ELSE n)
         /\ FirstStay(Resized(q, n), IF n <= Len(q) /\ m <= n THEN m ELSE n)
<1>. DEFINE L == IF n <= Len(q) THEN Len(q) ELSE n
            r == Resized(q, n)
<1>1. Len(q) \in Nat /\ L \in Nat /\ m \in Nat /\ m <= Len(q)
  BY DEF FirstStay
<1>2. Max({n, Len(q)}) = L
  BY <1>1, MaxOfTwo
<1>3. r = [k \in 1..L |-> k \in DOMAIN q /\ (k > n \/ q[k])]
  BY <1>2 DEF Resized
<1>4. r \in Seq(BOOLEAN) /\ Len(r) = L
  BY <1>1, <1>3
<1>5. ASSUME NEW k \in 1..L
      PROVE  r[k] <=> k > (IF n <= Len(q) /\ m <= n THEN m ELSE n)
  <2>1. r[k] <=> k \in 1..Len(q) /\ (k > n \/ q[k])
    <3>. HIDE DEF r, L
    <3>1. r[k] = (k \in DOMAIN q /\ (k > n \/ q[k]))
      BY <1>3, <1>5
    <3>2. DOMAIN q = 1..Len(q)
      OBVIOUS
    <3>3. QED
      BY <3>1, <3>2
  <2>2. r[k] <=> k \in 1..Len(q) /\ (k > n \/ k > m)
    BY <2>1 DEF FirstStay
  <2>3. QED
    BY <1>1, <1>5, <2>2
<1>6. (IF n <= Len(q) /\ m <= n THEN m ELSE n) \in 0..L
  BY <1>1
<1>. HIDE DEF r, L
<1>7. FirstStay(r, IF n <= Len(q) /\ m <= n THEN m ELSE n)
  BY <1>4, <1>5, <1>6 DEF FirstStay
<1>8. QED
  BY <1>4, <1>7 DEF r, L

\* An exit takes nobody who stays.
LEMMA ExitStays ==
  ASSUME NEW q \in Seq(BOOLEAN), NEW m, FirstStay(q, m),
         NEW k \in 1..Len(q), q[k]
  PROVE  /\ Len(RemoveAt(q, k)) = Len(q) - 1 /\ m < Len(q)
         /\ FirstStay(RemoveAt(q, k), m)
<1>. DEFINE r == RemoveAt(q, k)
<1>1. Len(q) \in Nat /\ m \in 0..Len(q) /\ k > m
  BY DEF FirstStay
<1>2. /\ r \in Seq(BOOLEAN) /\ Len(r) = Len(q) - 1
      /\ \A j \in 1..(Len(q) - 1) : r[j] = q[IF j < k THEN j ELSE j + 1]
  BY TakeOutElement DEF RemoveAt
<1>3. m \in 0..(Len(q) - 1)
  BY <1>1
<1>4. ASSUME NEW j \in 1..(Len(q) - 1)
      PROVE  r[j] <=> j > m
  <2>1. CASE j < k
    BY <2>1, <1>1, <1>2, <1>4 DEF FirstStay
  <2>2. CASE ~(j < k)
    <3>1. j + 1 \in 1..Len(q) /\ j > m
      BY <2>2, <1>1, <1>4
    <3>2. r[j] = q[j + 1]
      BY <2>2, <1>2, <1>4
    <3>3. q[j + 1]
      BY <3>1, <1>1 DEF FirstStay
    <3>4. QED
      BY <3>1, <3>2, <3>3
  <2>3. QED
    BY <2>1, <2>2
<1>. HIDE DEF r
<1>5. FirstStay(r, m)
  BY <1>2, <1>3, <1>4 DEF FirstStay
<1>6. QED
  BY <1>1, <1>2, <1>5 DEF r

\* The workers that stay, of handles q, and of each stage.
Kept(q) == Cardinality({k \in DOMAIN q : ~q[k]})
KeptBy(handles) == [s \in Stages |-> Kept(handles[s])]

\* The handles that stay, when the first m do.
LEMMA KeptIs ==
  ASSUME NEW q \in Seq(BOOLEAN), NEW m, FirstStay(q, m)
  PROVE  Kept(q) = m
<1>1. {k \in DOMAIN q : ~q[k]} = 1..m
  BY DEF FirstStay
<1>2. m \in Nat
  BY DEF FirstStay
<1>3. Cardinality(1..m) = IF 1 > m THEN 0 ELSE m - 1 + 1
  BY <1>2, FS_Interval
<1>4. Cardinality(1..m) = m
  BY <1>2, <1>3
<1>5. QED
  BY <1>1, <1>4 DEF Kept

-------------------------------------------------------------------------------
(* The rebalancer's invariant.                                             *)

PoolTypes ==
  /\ workers \in [Stages -> Seq(BOOLEAN)] /\ target \in [Stages -> Nat]
  /\ stopping \in SUBSET Stages

Donor == move.donor
Receiver == move.receiver

Places == {"idle", "read", "readDonor", "donate", "receive", "giveBack",
           "revertDonor", "raiseDonor", "revertReceiver", "lowerReceiver"}

MoveShape ==
  /\ pc \in Places /\ seen \in Nat
  /\ move = NoMove => pc = "idle"
  /\ move # NoMove =>
       /\ move \in [donor : Stages, receiver : Stages, donorActive : Nat, receiverActive : Nat]
       /\ Donor # Receiver

\* Every target is within the policy.
InPolicy ==
  \A s \in Stages : /\ MinWorkers[s] <= target[s]
                    /\ MaxWorkers[s] > 0 => target[s] <= MaxWorkers[s]

Fits(s, n) == MinWorkers[s] <= n /\ (MaxWorkers[s] > 0 => n <= MaxWorkers[s])

\* What is known of a stage that is not shutting down: m workers stay, and
\* n would be within its policy too.
Known(s, m, n) ==
  s \notin stopping => FirstStay(workers[s], m) /\ Fits(s, m) /\ Fits(s, n)
\* The same, and none is on its way out.
AtRest(s, m, n) ==
  s \notin stopping => Known(s, m, n) /\ Len(workers[s]) = m

\* What the rebalancer may rely on at each place in a tick.
AtPlace ==
  /\ pc \in {"read", "readDonor"} =>
       AtRest(Donor, ActiveWorkers(Donor), ActiveWorkers(Donor) - 1)
  /\ pc = "read" => AtRest(Receiver, ActiveWorkers(Receiver), ActiveWorkers(Receiver) + 1)
  /\ pc = "donate" => AtRest(Donor, move.donorActive, move.donorActive - 1)
  /\ pc \in {"readDonor", "donate", "receive"} =>
       AtRest(Receiver, move.receiverActive, move.receiverActive + 1)
  /\ pc \in {"idle", "receive", "giveBack"} =>
       Known(Donor, move.donorActive - 1, move.donorActive)
  /\ pc \in {"receive", "giveBack"} =>
       (Donor \notin stopping => Len(workers[Donor]) <= move.donorActive)
  /\ pc = "giveBack" => Receiver \in stopping
  /\ pc = "idle" => Known(Receiver, move.receiverActive + 1, move.receiverActive)
  /\ pc \in {"revertDonor", "raiseDonor"} =>
       AtRest(Donor, move.donorActive - 1, move.donorActive)
  /\ pc = "raiseDonor" /\ Donor \notin stopping => seen = move.donorActive - 1
  /\ pc \in {"revertDonor", "raiseDonor", "revertReceiver", "lowerReceiver"} =>
       AtRest(Receiver, move.receiverActive + 1, move.receiverActive)
  /\ pc = "lowerReceiver" /\ Receiver \notin stopping => seen = move.receiverActive + 1

EachFits ==
  \A s \in Stages \ stopping : \E m \in Nat : FirstStay(workers[s], m) /\ Fits(s, m)

\* Between the two halves of a move one worker is missing, between those of
\* its undoing there is one too many.
InFlight == IF pc = "receive" THEN -1
            ELSE IF pc \in {"revertReceiver", "lowerReceiver"} THEN 1 ELSE 0
AllStages == Cardinality(Stages) * StartWorkers
NoneLost ==
  stopping = {} => SumOf(KeptBy(workers), Stages) = AllStages + InFlight

RebalancerInv ==
  /\ PoolTypes /\ MoveShape /\ (move # NoMove => AtPlace)
  /\ EachFits /\ InPolicy /\ NoneLost

\* What the constants of the rebalancer are.
LEMMA NumbersAre ==
  /\ IsFiniteSet(Stages) /\ NoStage \notin Stages /\ StartWorkers \in Nat \ {0}
  /\ Cardinality(Stages) \in Nat /\ AllStages \in Nat /\ Cooldown \in Nat \ {0}
  /\ \A s \in Stages : /\ MinWorkers[s] \in Nat \ {0} /\ MaxWorkers[s] \in Nat
                       /\ Fits(s, StartWorkers)
<1>1. IsFiniteSet(Stages) /\ NoStage \notin Stages /\ StartWorkers \in Nat \ {0}
      /\ Cooldown \in Nat \ {0}
  BY AnalyzerAssumption, RebalancerAssumption
<1>2. Cardinality(Stages) \in Nat
  BY <1>1, FS_CardinalityType
<1>3. AllStages \in Nat
  <2>1. \A a, b \in Nat : a * b \in Nat
    OBVIOUS
  <2>2. QED
    BY <1>1, <1>2, <2>1 DEF AllStages
<1>4. QED
  BY <1>1, <1>2, <1>3, RebalancerAssumption DEF Fits

\* If one stage changes, the workers that stay change by what changes there.
LEMMA KeptChanges ==
  ASSUME PoolTypes, PoolTypes', NEW s \in Stages,
         \A t \in Stages \ {s} : workers'[t] = workers[t],
         NEW m, FirstStay(workers[s], m), NEW n, FirstStay(workers'[s], n)
  PROVE  /\ SumOf(KeptBy(workers), Stages) \in Int
         /\ SumOf(KeptBy(workers'), Stages) = SumOf(KeptBy(workers), Stages) + (n - m)
<1>. DEFINE f == KeptBy(workers)
            g == KeptBy(workers')
<1>1. \A t \in Stages : workers[t] \in Seq(BOOLEAN) /\ workers'[t] \in Seq(BOOLEAN)
  BY DEF PoolTypes
<1>2. m \in Nat /\ n \in Nat
  BY <1>1 DEF FirstStay
<1>3. \A t \in Stages : Kept(workers[t]) \in Int /\ Kept(workers'[t]) \in Int
  <2>1. \A q \in Seq(BOOLEAN) : Kept(q) \in Int
    <3>1. SUFFICES ASSUME NEW q \in Seq(BOOLEAN) PROVE Kept(q) \in Int
      OBVIOUS
    <3>2. IsFiniteSet(1..Len(q)) /\ {k \in DOMAIN q : ~q[k]} \subseteq 1..Len(q)
      BY FS_Interval
    <3>3. IsFiniteSet({k \in DOMAIN q : ~q[k]})
      BY <3>2, FS_Subset
    <3>4. QED
      BY <3>3, FS_CardinalityType DEF Kept
  <2>2. QED
    BY <1>1, <2>1
<1>4. f[s] = m /\ g[s] = n
  BY <1>1, KeptIs DEF KeptBy
<1>5. \A t \in Stages : f[t] \in Int /\ g[t] \in Int
  BY <1>3 DEF KeptBy
<1>6. \A t \in Stages \ {s} : f[t] = g[t]
  BY DEF KeptBy
<1>7. IsFiniteSet(Stages)
  BY NumbersAre
<1>. HIDE DEF f, g
<1>8. /\ SumOf(f, Stages) \in Int /\ SumOf(g, Stages) \in Int
      /\ SumOf(g, Stages) - SumOf(f, Stages) = g[s] - f[s]
  BY <1>5, <1>6, <1>7, SumChange
<1>9. SumOf(g, Stages) = SumOf(f, Stages) + (n - m)
  BY <1>2, <1>4, <1>8
<1>10. QED
  BY <1>8, <1>9 DEF f, g

\* SetWorkers on a stage whose handles are known.
LEMMA SetWorkersResizes ==
  ASSUME PoolTypes, NEW s \in Stages, s \notin stopping,
         NEW n \in Nat \ {0}, SetWorkers(s, n),
         NEW m, FirstStay(workers[s], m), n <= Len(workers[s]) \/ m = Len(workers[s])
  PROVE  /\ PoolTypes' /\ stopping' = stopping
         /\ \A t \in Stages \ {s} : workers'[t] = workers[t] /\ target'[t] = target[t]
         /\ target'[s] = n
         /\ Len(workers'[s]) = (IF n <= Len(workers[s]) THEN Len(workers[s]) ELSE n)
         /\ FirstStay(workers'[s], IF n <= Len(workers[s]) /\ m <= n THEN m ELSE n)
         /\ SumOf(KeptBy(workers'), Stages)
              = SumOf(KeptBy(workers), Stages)
                  + ((IF n <= Len(workers[s]) /\ m <= n THEN m ELSE n) - m)
         /\ SumOf(KeptBy(workers), Stages) \in Int
<1>. DEFINE q == workers[s]
            p == IF n <= Len(q) /\ m <= n THEN m ELSE n
<1>1. q \in Seq(BOOLEAN)
  BY DEF PoolTypes
<1>2. Max({n, 1}) = n
  BY MaxOfTwo
<1>3. /\ workers' = [workers EXCEPT ![s] = Resized(workers[s], n)]
      /\ target' = [target EXCEPT ![s] = n] /\ stopping' = stopping
  BY <1>2 DEF SetWorkers, Applied, Refused, Resized
<1>4. /\ Resized(q, n) \in Seq(BOOLEAN)
      /\ Len(Resized(q, n)) = (IF n <= Len(q) THEN Len(q) ELSE n)
      /\ FirstStay(Resized(q, n), p)
  BY <1>1, ResizedStays
<1>5. workers'[s] = Resized(q, n) /\ target'[s] = n
  BY <1>3 DEF PoolTypes
<1>6. \A t \in Stages \ {s} : workers'[t] = workers[t] /\ target'[t] = target[t]
  BY <1>3 DEF PoolTypes
<1>7. PoolTypes'
  BY <1>3, <1>4 DEF PoolTypes
<1>. HIDE DEF p
<1>8. /\ SumOf(KeptBy(workers), Stages) \in Int
      /\ SumOf(KeptBy(workers'), Stages) = SumOf(KeptBy(workers), Stages) + (p - m)
  BY <1>4, <1>5, <1>6, <1>7, KeptChanges
<1>9. QED
  BY <1>3, <1>4, <1>5, <1>6, <1>7, <1>8 DEF p

-------------------------------------------------------------------------------
(* The steps of a tick.                                                    *)

\* The invariant of the rebalancer holds at first.
LEMMA RebalancerInitially ==
  ASSUME RebalancerInit
  PROVE  RebalancerInv
<1>. DEFINE q == [k \in 1..StartWorkers |-> FALSE]
<1>1. \A s \in Stages : workers[s] = q
  BY DEF RebalancerInit
<1>2. q \in Seq(BOOLEAN) /\ Len(q) = StartWorkers
  <2>1. StartWorkers \in Nat
    BY NumbersAre
  <2>2. QED
    BY <2>1
<1>3. FirstStay(q, StartWorkers)
  BY <1>2, NumbersAre DEF FirstStay
<1>4. PoolTypes
  BY <1>2, NumbersAre DEF RebalancerInit, PoolTypes
<1>5. EachFits
  BY <1>1, <1>3, NumbersAre DEF EachFits
<1>6. InPolicy
  BY NumbersAre DEF RebalancerInit, InPolicy, Fits
<1>7. NoneLost
  <2>1. \A s \in Stages : KeptBy(workers)[s] = StartWorkers
    BY <1>1, <1>2, <1>3, KeptIs DEF KeptBy
  <2>2. StartWorkers \in Int
    BY NumbersAre
  <2>3. SumOf(KeptBy(workers), Stages) = AllStages
    BY <2>1, <2>2, NumbersAre, SumConstant DEF AllStages
  <2>4. InFlight = 0
    BY DEF RebalancerInit, InFlight
  <2>5. QED
    BY <2>3, <2>4, NumbersAre DEF NoneLost
<1>8. MoveShape /\ move = NoMove
  BY DEF RebalancerInit, MoveShape, Places
<1>9. QED
  BY <1>4, <1>5, <1>6, <1>7, <1>8 DEF RebalancerInv

\* A step that leaves the stages alone has only the move to account for.
LEMMA PoolUnchanged ==
  ASSUME RebalancerInv, UNCHANGED poolVars
  PROVE  /\ PoolTypes' /\ EachFits' /\ InPolicy'
         /\ InFlight' = InFlight => NoneLost'
BY DEF RebalancerInv, poolVars, PoolTypes, EachFits, InPolicy, NoneLost

\* Nobody is on its way out of any stage once the cancelled are gone.
LEMMA Drained ==
  ASSUME PoolTypes, Draining = {}, NEW s \in Stages, NEW m, FirstStay(workers[s], m)
  PROVE  Len(workers[s]) = m
<1>1. workers[s] \in Seq(BOOLEAN) /\ Len(workers[s]) \in Nat /\ m \in 0..Len(workers[s])
  BY DEF PoolTypes, FirstStay
<1>2. TRUE \notin Range(workers[s])
  BY DEF Draining
<1>3. \A k \in 1..Len(workers[s]) : ~workers[s][k]
  <2>1. SUFFICES ASSUME NEW k \in 1..Len(workers[s])
                 PROVE  ~workers[s][k]
    OBVIOUS
  <2>2. workers[s][k] \in BOOLEAN /\ k \in DOMAIN workers[s]
    BY <1>1
  <2>3. workers[s][k] # TRUE
    BY <1>2, <2>2 DEF Range
  <2>4. QED
    BY <2>2, <2>3
<1>4. ASSUME Len(workers[s]) # m PROVE FALSE
  <2>1. Len(workers[s]) \in 1..Len(workers[s]) /\ Len(workers[s]) > m
    BY <1>1, <1>4
  <2>2. QED
    BY <2>1, <1>3 DEF FirstStay
<1>5. QED
  BY <1>4

\* A tick in the cooldown changes no worker count.
LEMMA CoolDownStep ==
  ASSUME RebalancerInv, CoolDown, punctual'
  PROVE  RebalancerInv'
<1>1. /\ pc = "idle" /\ move # NoMove /\ UNCHANGED <<poolVars, seen>>
      /\ \/ pc' = "idle" /\ move' = move
         \/ pc' = "idle" /\ move' = NoMove
         \/ pc' = "revertDonor" /\ move' = move /\ Draining = {}
  BY DEF CoolDown, TickBegins, NoteDraining
<1>2. PoolTypes' /\ EachFits' /\ InPolicy' /\ NoneLost'
  BY <1>1, PoolUnchanged DEF InFlight
<1>3. PoolTypes /\ MoveShape /\ AtPlace
  BY <1>1 DEF RebalancerInv
<1>4. MoveShape'
  BY <1>1, <1>3 DEF MoveShape, Donor, Receiver, Places
<1>5. Donor \in Stages /\ Receiver \in Stages
  BY <1>1, <1>3 DEF MoveShape, Donor, Receiver
<1>6. /\ Known(Donor, move.donorActive - 1, move.donorActive)
      /\ Known(Receiver, move.receiverActive + 1, move.receiverActive)
  BY <1>1, <1>3 DEF AtPlace
<1>7. CASE pc' = "idle"
  <2>1. move' # NoMove => AtPlace'
    BY <1>1, <1>6, <1>7 DEF AtPlace, Known, Donor, Receiver, poolVars
  <2>2. QED
    BY <1>2, <1>4, <2>1 DEF RebalancerInv
<1>8. CASE pc' = "revertDonor"
  <2>1. /\ AtRest(Donor, move.donorActive - 1, move.donorActive)
        /\ AtRest(Receiver, move.receiverActive + 1, move.receiverActive)
    <3>1. Draining = {}
      BY <1>1, <1>8
    <3>2. QED
      BY <3>1, <1>3, <1>5, <1>6, Drained DEF AtRest, Known
  <2>2. AtPlace'
    BY <1>1, <1>8, <2>1 DEF AtPlace, AtRest, Known, Donor, Receiver, poolVars
  <2>3. QED
    BY <1>2, <1>4, <2>2 DEF RebalancerInv
<1>9. pc' \in {"idle", "revertDonor"}
  BY <1>1
<1>10. QED
  BY <1>7, <1>8, <1>9

\* A tick that decides takes a donor and a receiver within the policy.
LEMMA DecideStep ==
  ASSUME RebalancerInv, Decide, punctual'
  PROVE  RebalancerInv'
<1>1. pc = "idle" /\ Draining = {} /\ pc' = "read" /\ UNCHANGED <<poolVars, seen>>
  BY DEF Decide, TickBegins, NoteDraining
<1>2. PICK R \in Stages : \E s \in Stages \ {R} :
        /\ MayReceive(R) /\ MayDonate(s)
        /\ move' = [NoMove EXCEPT !.donor = s, !.receiver = R]
  BY DEF Decide
<1>3. PICK D \in Stages \ {R} :
        /\ MayReceive(R) /\ MayDonate(D)
        /\ move' = [NoMove EXCEPT !.donor = D, !.receiver = R]
  BY <1>2
<1>4. PoolTypes' /\ EachFits' /\ InPolicy' /\ NoneLost'
  BY <1>1, PoolUnchanged DEF InFlight
<1>5. PoolTypes /\ MoveShape /\ EachFits
  BY DEF RebalancerInv
<1>6. move' = [donor |-> D, receiver |-> R, donorActive |-> 0, receiverActive |-> 0]
  BY <1>3 DEF NoMove
<1>7. MoveShape' /\ move' # NoMove
  <2>1. D # NoStage
    BY <1>3, NumbersAre
  <2>2. QED
    BY <1>1, <1>3, <1>5, <1>6, <2>1 DEF MoveShape, Donor, Receiver, Places, NoMove
<1>8. \A s \in Stages : AtRest(s, Len(workers[s]), Len(workers[s]))
  BY <1>1, <1>5, Drained DEF EachFits, AtRest, Known
<1>9. \A s \in Stages : Len(workers[s]) \in Nat
  BY <1>5 DEF PoolTypes
<1>10. AtRest(D, Len(workers[D]), Len(workers[D]) - 1)
  BY <1>3, <1>8, <1>9, NumbersAre DEF MayDonate, ActiveWorkers, AtRest, Known, Fits
<1>11. AtRest(R, Len(workers[R]), Len(workers[R]) + 1)
  BY <1>3, <1>8, <1>9, NumbersAre DEF MayReceive, ActiveWorkers, AtRest, Known, Fits
<1>12. AtPlace'
  BY <1>1, <1>6, <1>10, <1>11
     DEF AtPlace, AtRest, Known, ActiveWorkers, Donor, Receiver, poolVars
<1>13. QED
  BY <1>4, <1>7, <1>12 DEF RebalancerInv

\* A tick reads the receiver's count, which it will compute with.
LEMMA ReadReceiverStep ==
  ASSUME RebalancerInv, ReadReceiver
  PROVE  RebalancerInv'
<1>1. /\ pc = "read" /\ pc' = "readDonor" /\ UNCHANGED <<poolVars, seen>>
      /\ move' = [move EXCEPT !.receiverActive = ActiveWorkers(Receiver)]
  BY DEF ReadReceiver, Receiver
<1>2. PoolTypes' /\ EachFits' /\ InPolicy' /\ NoneLost'
  BY <1>1, PoolUnchanged DEF InFlight
<1>3. PoolTypes /\ MoveShape /\ AtPlace /\ move # NoMove
  BY <1>1 DEF RebalancerInv, MoveShape
<1>4. /\ move \in [donor : Stages, receiver : Stages, donorActive : Nat, receiverActive : Nat]
      /\ Donor \in Stages /\ Receiver \in Stages /\ Donor # Receiver
  BY <1>3 DEF MoveShape, Donor, Receiver
<1>5. ActiveWorkers(Receiver) \in Nat
  BY <1>3, <1>4 DEF PoolTypes, ActiveWorkers
<1>6. /\ move'.donor = Donor /\ move'.receiver = Receiver
      /\ move'.receiverActive = ActiveWorkers(Receiver)
      /\ move' \in [donor : Stages, receiver : Stages, donorActive : Nat, receiverActive : Nat]
  BY <1>1, <1>4, <1>5 DEF Donor, Receiver
<1>7. move' # NoMove
  BY <1>4, <1>6, NumbersAre DEF NoMove
<1>8. MoveShape'
  BY <1>1, <1>3, <1>4, <1>6, <1>7 DEF MoveShape, Donor, Receiver, Places
<1>9. /\ AtRest(Donor, ActiveWorkers(Donor), ActiveWorkers(Donor) - 1)
      /\ AtRest(Receiver, ActiveWorkers(Receiver), ActiveWorkers(Receiver) + 1)
  BY <1>1, <1>3 DEF AtPlace
<1>10. AtPlace'
  BY <1>1, <1>6, <1>9 DEF AtPlace, AtRest, Known, ActiveWorkers, Donor, Receiver, poolVars
<1>11. QED
  BY <1>2, <1>8, <1>10 DEF RebalancerInv

\* Then it reads the donor's.
LEMMA ReadDonorStep ==
  ASSUME RebalancerInv, ReadDonor
  PROVE  RebalancerInv'
<1>1. /\ pc = "readDonor" /\ pc' = "donate" /\ UNCHANGED <<poolVars, seen>>
      /\ move' = [move EXCEPT !.donorActive = ActiveWorkers(Donor)]
  BY DEF ReadDonor, Donor
<1>2. PoolTypes' /\ EachFits' /\ InPolicy' /\ NoneLost'
  BY <1>1, PoolUnchanged DEF InFlight
<1>3. PoolTypes /\ MoveShape /\ AtPlace /\ move # NoMove
  BY <1>1 DEF RebalancerInv, MoveShape
<1>4. /\ move \in [donor : Stages, receiver : Stages, donorActive : Nat, receiverActive : Nat]
      /\ Donor \in Stages /\ Receiver \in Stages /\ Donor # Receiver
  BY <1>3 DEF MoveShape, Donor, Receiver
<1>5. ActiveWorkers(Donor) \in Nat
  BY <1>3, <1>4 DEF PoolTypes, ActiveWorkers
<1>6. /\ move'.donor = Donor /\ move'.receiver = Receiver
      /\ move'.donorActive = ActiveWorkers(Donor)
      /\ move'.receiverActive = move.receiverActive
      /\ move' \in [donor : Stages, receiver : Stages, donorActive : Nat, receiverActive : Nat]
  BY <1>1, <1>4, <1>5 DEF Donor, Receiver
<1>7. move' # NoMove
  BY <1>4, <1>6, NumbersAre DEF NoMove
<1>8. MoveShape'
  BY <1>1, <1>3, <1>4, <1>6, <1>7 DEF MoveShape, Donor, Receiver, Places
<1>9. /\ AtRest(Donor, ActiveWorkers(Donor), ActiveWorkers(Donor) - 1)
      /\ AtRest(Receiver, move.receiverActive, move.receiverActive + 1)
  BY <1>1, <1>3 DEF AtPlace
<1>10. AtPlace'
  BY <1>1, <1>6, <1>9 DEF AtPlace, AtRest, Known, Donor, Receiver, poolVars
<1>11. QED
  BY <1>2, <1>8, <1>10 DEF RebalancerInv

\* A stage that refuses leaves everything as it was.
LEMMA RefusedChangesNothing ==
  ASSUME NEW s, NEW n, s \in stopping, SetWorkers(s, n)
  PROVE  UNCHANGED poolVars
BY DEF SetWorkers, Refused

\* The facts about the move that every place shares.
LEMMA MoveFacts ==
  ASSUME RebalancerInv, move # NoMove
  PROVE  /\ PoolTypes /\ AtPlace
         /\ move \in [donor : Stages, receiver : Stages, donorActive : Nat, receiverActive : Nat]
         /\ Donor \in Stages /\ Receiver \in Stages /\ Donor # Receiver
         /\ move.donorActive \in Nat /\ move.receiverActive \in Nat /\ seen \in Nat
         /\ \A s \in Stages : Len(workers[s]) \in Nat
BY DEF RebalancerInv, MoveShape, Donor, Receiver, PoolTypes

\* A stage set to a number within its policy keeps all stages within theirs,
\* if the workers that stay there do.
LEMMA SetWorkersFits ==
  ASSUME EachFits, InPolicy, NEW s \in Stages, stopping' = stopping,
         \A t \in Stages \ {s} : workers'[t] = workers[t] /\ target'[t] = target[t],
         Fits(s, target'[s]), NEW m \in Nat, FirstStay(workers'[s], m), Fits(s, m)
  PROVE  EachFits' /\ InPolicy'
<1>1. EachFits'
  BY DEF EachFits, Fits
<1>2. InPolicy'
  BY DEF InPolicy, Fits
<1>3. QED
  BY <1>1, <1>2

\* The donor gives the worker up, or the move is off.
LEMMA DonateStep ==
  ASSUME RebalancerInv, Donate
  PROVE  RebalancerInv'
<1>1. /\ pc = "donate" /\ SetWorkers(Donor, move.donorActive - 1) /\ UNCHANGED seen
      /\ Donor \in stopping => pc' = "idle" /\ move' = NoMove
      /\ Donor \notin stopping => pc' = "receive" /\ move' = move
  BY DEF Donate, Donor
<1>2. RebalancerInv /\ move # NoMove
  BY <1>1 DEF RebalancerInv, MoveShape
<1>3. /\ PoolTypes /\ AtPlace /\ EachFits /\ InPolicy
      /\ Donor \in Stages /\ Receiver \in Stages /\ Donor # Receiver
      /\ move.donorActive \in Nat /\ move.receiverActive \in Nat
  BY <1>2, MoveFacts DEF RebalancerInv
<1>4. /\ AtRest(Donor, move.donorActive, move.donorActive - 1)
      /\ AtRest(Receiver, move.receiverActive, move.receiverActive + 1)
  BY <1>1, <1>3 DEF AtPlace
<1>5. CASE Donor \in stopping
  <2>1. UNCHANGED poolVars /\ pc' = "idle" /\ move' = NoMove
    BY <1>1, <1>5, RefusedChangesNothing
  <2>2. PoolTypes' /\ EachFits' /\ InPolicy' /\ NoneLost'
    BY <2>1, <1>1, PoolUnchanged DEF InFlight
  <2>3. QED
    BY <2>1, <2>2, <1>1 DEF RebalancerInv, MoveShape, Places
<1>6. CASE Donor \notin stopping
  <2>. DEFINE n == move.donorActive - 1
  <2>1. /\ FirstStay(workers[Donor], move.donorActive)
        /\ Len(workers[Donor]) = move.donorActive
        /\ Fits(Donor, move.donorActive) /\ Fits(Donor, n)
    BY <1>4, <1>6 DEF AtRest, Known
  <2>2. n \in Nat \ {0}
    BY <2>1, <1>3, NumbersAre DEF Fits
  <2>3. /\ PoolTypes' /\ stopping' = stopping
        /\ \A t \in Stages \ {Donor} : workers'[t] = workers[t] /\ target'[t] = target[t]
        /\ target'[Donor] = n
        /\ Len(workers'[Donor]) = move.donorActive
        /\ FirstStay(workers'[Donor], n)
        /\ SumOf(KeptBy(workers), Stages) \in Int
        /\ SumOf(KeptBy(workers'), Stages)
             = SumOf(KeptBy(workers), Stages) + (n - move.donorActive)
    <3>1. n <= Len(workers[Donor]) /\ ~(move.donorActive <= n)
      BY <2>1, <1>3
    <3>. HIDE DEF n
    <3>2. QED
      BY <3>1, <2>1, <2>2, <1>1, <1>3, <1>6, SetWorkersResizes DEF n
  <2>4. EachFits' /\ InPolicy'
    BY <2>1, <2>2, <2>3, <1>3, SetWorkersFits
  <2>5. pc' = "receive" /\ move' = move /\ seen' = seen
    BY <1>1, <1>6
  <2>6. NoneLost'
    <3>1. InFlight = 0 /\ InFlight' = -1
      BY <2>5, <1>1 DEF InFlight
    <3>2. QED
      BY <3>1, <2>3, <1>2, <1>3, NumbersAre DEF RebalancerInv, NoneLost
  <2>7. MoveShape'
    BY <2>5, <1>2 DEF RebalancerInv, MoveShape, Donor, Receiver, Places
  <2>8. AtPlace'
    <3>1. workers'[Receiver] = workers[Receiver]
      BY <2>3, <1>3
    <3>2. move.donorActive <= move.donorActive
      BY <1>3
    <3>3. QED
      BY <2>1, <2>3, <2>5, <3>1, <3>2, <1>4 DEF AtPlace, AtRest, Known, Donor, Receiver
  <2>9. QED
    BY <2>3, <2>4, <2>6, <2>7, <2>8 DEF RebalancerInv
<1>7. QED
  BY <1>5, <1>6

\* The receiver gets the worker, or the move is reverted.
LEMMA ReceiveStep ==
  ASSUME RebalancerInv, Receive
  PROVE  RebalancerInv'
<1>1. /\ pc = "receive" /\ SetWorkers(Receiver, move.receiverActive + 1)
      /\ move' = move /\ seen' = seen
      /\ Receiver \in stopping => pc' = "giveBack"
      /\ Receiver \notin stopping => pc' = "idle"
  BY DEF Receive, Receiver
<1>2. RebalancerInv /\ move # NoMove
  BY <1>1 DEF RebalancerInv, MoveShape
<1>3. /\ PoolTypes /\ AtPlace /\ EachFits /\ InPolicy
      /\ Donor \in Stages /\ Receiver \in Stages /\ Donor # Receiver
      /\ move.donorActive \in Nat /\ move.receiverActive \in Nat
  BY <1>2, MoveFacts DEF RebalancerInv
<1>4. /\ Known(Donor, move.donorActive - 1, move.donorActive)
      /\ Donor \notin stopping => Len(workers[Donor]) <= move.donorActive
      /\ AtRest(Receiver, move.receiverActive, move.receiverActive + 1)
  BY <1>1, <1>3 DEF AtPlace
<1>5. MoveShape'
  BY <1>1, <1>2 DEF RebalancerInv, MoveShape, Donor, Receiver, Places
<1>6. CASE Receiver \in stopping
  <2>1. UNCHANGED poolVars /\ pc' = "giveBack"
    BY <1>1, <1>6, RefusedChangesNothing
  <2>2. PoolTypes' /\ EachFits' /\ InPolicy'
    BY <2>1, <1>1, PoolUnchanged
  <2>3. NoneLost'
    BY <2>1, <1>6 DEF NoneLost, poolVars
  <2>4. AtPlace'
    BY <2>1, <1>1, <1>4, <1>6 DEF AtPlace, Known, Donor, Receiver, poolVars
  <2>5. QED
    BY <2>2, <2>3, <2>4, <1>5 DEF RebalancerInv
<1>7. CASE Receiver \notin stopping
  <2>. DEFINE n == move.receiverActive + 1
  <2>1. /\ FirstStay(workers[Receiver], move.receiverActive)
        /\ Len(workers[Receiver]) = move.receiverActive
        /\ Fits(Receiver, move.receiverActive) /\ Fits(Receiver, n)
    BY <1>4, <1>7 DEF AtRest, Known
  <2>2. n \in Nat \ {0}
    BY <1>3
  <2>3. /\ PoolTypes' /\ stopping' = stopping
        /\ \A t \in Stages \ {Receiver} : workers'[t] = workers[t] /\ target'[t] = target[t]
        /\ target'[Receiver] = n
        /\ FirstStay(workers'[Receiver], n)
        /\ SumOf(KeptBy(workers), Stages) \in Int
        /\ SumOf(KeptBy(workers'), Stages)
             = SumOf(KeptBy(workers), Stages) + (n - move.receiverActive)
    <3>1. ~(n <= Len(workers[Receiver]))
      BY <2>1, <1>3
    <3>. HIDE DEF n
    <3>2. QED
      BY <3>1, <2>1, <2>2, <1>1, <1>3, <1>7, SetWorkersResizes DEF n
  <2>4. EachFits' /\ InPolicy'
    BY <2>1, <2>2, <2>3, <1>3, SetWorkersFits
  <2>5. pc' = "idle"
    BY <1>1, <1>7
  <2>6. NoneLost'
    <3>1. InFlight = -1 /\ InFlight' = 0
      BY <2>5, <1>1 DEF InFlight
    <3>2. QED
      BY <3>1, <2>3, <1>2, <1>3, NumbersAre DEF RebalancerInv, NoneLost
  <2>7. AtPlace'
    <3>1. workers'[Donor] = workers[Donor]
      BY <2>3, <1>3
    <3>2. QED
      BY <2>1, <2>3, <2>5, <3>1, <1>1, <1>4 DEF AtPlace, Known, Donor, Receiver
  <2>8. QED
    BY <2>3, <2>4, <2>6, <2>7, <1>5 DEF RebalancerInv
<1>8. QED
  BY <1>6, <1>7

\* The donor gets its number back; whether a new worker starts or the cancelled
\* one is still there, no more than that number stay.
LEMMA GiveBackStep ==
  ASSUME RebalancerInv, GiveBack
  PROVE  RebalancerInv'
<1>1. /\ pc = "giveBack" /\ pc' = "idle" /\ move' = NoMove
      /\ SetWorkers(Donor, move.donorActive) /\ seen' = seen
  BY DEF GiveBack, Donor
<1>2. RebalancerInv /\ move # NoMove
  BY <1>1 DEF RebalancerInv, MoveShape
<1>3. /\ PoolTypes /\ AtPlace /\ EachFits /\ InPolicy
      /\ Donor \in Stages /\ move.donorActive \in Nat /\ Len(workers[Donor]) \in Nat
  BY <1>2, MoveFacts DEF RebalancerInv
<1>4. /\ Known(Donor, move.donorActive - 1, move.donorActive)
      /\ Donor \notin stopping => Len(workers[Donor]) <= move.donorActive
      /\ Receiver \in stopping
  BY <1>1, <1>3 DEF AtPlace
<1>5. MoveShape'
  BY <1>1, <1>2 DEF RebalancerInv, MoveShape, Places
<1>6. CASE Donor \in stopping
  <2>1. UNCHANGED poolVars
    BY <1>1, <1>6, RefusedChangesNothing
  <2>2. PoolTypes' /\ EachFits' /\ InPolicy'
    BY <2>1, PoolUnchanged
  <2>3. NoneLost'
    BY <2>1, <1>4 DEF NoneLost, poolVars
  <2>4. QED
    BY <2>2, <2>3, <1>1, <1>5 DEF RebalancerInv
<1>7. CASE Donor \notin stopping
  <2>. DEFINE d == move.donorActive
              L == Len(workers[Donor])
              p == IF d <= L /\ d - 1 <= d THEN d - 1 ELSE d
  <2>1. /\ FirstStay(workers[Donor], d - 1) /\ L <= d
        /\ Fits(Donor, d - 1) /\ Fits(Donor, d)
    BY <1>4, <1>7 DEF Known
  <2>2. d \in Nat \ {0}
    BY <2>1, <1>3, NumbersAre DEF Fits
  <2>3. d <= L \/ d - 1 = L
    <3>1. d - 1 <= L
      BY <2>1 DEF FirstStay
    <3>2. QED
      BY <3>1, <1>3
  <2>4. /\ PoolTypes' /\ stopping' = stopping
        /\ \A t \in Stages \ {Donor} : workers'[t] = workers[t] /\ target'[t] = target[t]
        /\ target'[Donor] = d
        /\ FirstStay(workers'[Donor], p)
    <3>. HIDE DEF d
    <3>1. QED
      BY <2>1, <2>2, <2>3, <1>1, <1>3, <1>7, SetWorkersResizes DEF d
  <2>5. p \in Nat /\ Fits(Donor, p)
    BY <2>1, <2>2
  <2>6. EachFits' /\ InPolicy'
    BY <2>1, <2>4, <2>5, <1>3, SetWorkersFits
  <2>7. NoneLost'
    BY <2>4, <1>4 DEF NoneLost
  <2>8. QED
    BY <2>4, <2>6, <2>7, <1>1, <1>5 DEF RebalancerInv
<1>8. QED
  BY <1>6, <1>7

\* A reversal reads the counts again.
LEMMA RevertReadStep ==
  ASSUME RebalancerInv,
         \/ RevertRead("revertDonor", "raiseDonor", move.donor)
         \/ RevertRead("revertReceiver", "lowerReceiver", move.receiver)
  PROVE  RebalancerInv'
<1>1. /\ UNCHANGED poolVars /\ move' = move
      /\ \/ pc = "revertDonor" /\ pc' = "raiseDonor" /\ seen' = Len(workers[Donor])
         \/ pc = "revertReceiver" /\ pc' = "lowerReceiver" /\ seen' = Len(workers[Receiver])
  BY DEF RevertRead, ActiveWorkers, Donor, Receiver
<1>2. PoolTypes' /\ EachFits' /\ InPolicy' /\ NoneLost'
  BY <1>1, PoolUnchanged DEF InFlight
<1>3. RebalancerInv /\ move # NoMove
  BY <1>1 DEF RebalancerInv, MoveShape
<1>4. /\ AtPlace /\ \A s \in Stages : Len(workers[s]) \in Nat
      /\ Donor \in Stages /\ Receiver \in Stages
  BY <1>3, MoveFacts
<1>5. MoveShape'
  BY <1>1, <1>3, <1>4 DEF RebalancerInv, MoveShape, Donor, Receiver, Places
<1>6. AtPlace'
  BY <1>1, <1>4 DEF AtPlace, AtRest, Known, Donor, Receiver, poolVars
<1>7. QED
  BY <1>2, <1>5, <1>6 DEF RebalancerInv

\* A reversal gives the donor its worker back.
LEMMA RevertDonorStep ==
  ASSUME RebalancerInv, RevertDonor
  PROVE  RebalancerInv'
<1>1. /\ pc = "raiseDonor" /\ pc' = "revertReceiver" /\ move' = move /\ seen' = 0
      /\ SetWorkers(Donor, seen + 1)
  BY DEF RevertDonor, Donor
<1>2. RebalancerInv /\ move # NoMove
  BY <1>1 DEF RebalancerInv, MoveShape
<1>3. /\ PoolTypes /\ AtPlace /\ EachFits /\ InPolicy
      /\ Donor \in Stages /\ Receiver \in Stages /\ Donor # Receiver
      /\ move.donorActive \in Nat
  BY <1>2, MoveFacts DEF RebalancerInv
<1>4. /\ AtRest(Donor, move.donorActive - 1, move.donorActive)
      /\ Donor \notin stopping => seen = move.donorActive - 1
      /\ AtRest(Receiver, move.receiverActive + 1, move.receiverActive)
  BY <1>1, <1>3 DEF AtPlace
<1>5. MoveShape'
  BY <1>1, <1>2 DEF RebalancerInv, MoveShape, Donor, Receiver, Places
<1>6. CASE Donor \in stopping
  <2>1. UNCHANGED poolVars
    BY <1>1, <1>6, RefusedChangesNothing
  <2>2. PoolTypes' /\ EachFits' /\ InPolicy'
    BY <2>1, PoolUnchanged
  <2>3. NoneLost'
    BY <2>1, <1>6 DEF NoneLost, poolVars
  <2>4. AtPlace'
    BY <2>1, <1>1, <1>4 DEF AtPlace, AtRest, Known, Donor, Receiver, poolVars
  <2>5. QED
    BY <2>2, <2>3, <2>4, <1>5 DEF RebalancerInv
<1>7. CASE Donor \notin stopping
  <2>. DEFINE d == move.donorActive
  <2>1. /\ FirstStay(workers[Donor], d - 1) /\ Len(workers[Donor]) = d - 1
        /\ Fits(Donor, d - 1) /\ Fits(Donor, d) /\ seen + 1 = d
    BY <1>3, <1>4, <1>7 DEF AtRest, Known
  <2>2. d \in Nat \ {0}
    BY <2>1, <1>3, NumbersAre DEF Fits
  <2>3. /\ PoolTypes' /\ stopping' = stopping
        /\ \A t \in Stages \ {Donor} : workers'[t] = workers[t] /\ target'[t] = target[t]
        /\ target'[Donor] = d
        /\ FirstStay(workers'[Donor], d)
        /\ SumOf(KeptBy(workers), Stages) \in Int
        /\ SumOf(KeptBy(workers'), Stages)
             = SumOf(KeptBy(workers), Stages) + (d - (d - 1))
    <3>1. ~(d <= Len(workers[Donor])) /\ SetWorkers(Donor, d)
      BY <2>1, <1>1, <1>3
    <3>. HIDE DEF d
    <3>2. QED
      BY <3>1, <2>1, <2>2, <1>3, <1>7, SetWorkersResizes
  <2>4. EachFits' /\ InPolicy'
    BY <2>1, <2>2, <2>3, <1>3, SetWorkersFits
  <2>5. NoneLost'
    <3>1. InFlight = 0 /\ InFlight' = 1
      BY <1>1 DEF InFlight
    <3>2. QED
      BY <3>1, <2>3, <1>2, <1>3, NumbersAre DEF RebalancerInv, NoneLost
  <2>6. AtPlace'
    <3>1. workers'[Receiver] = workers[Receiver]
      BY <2>3, <1>3
    <3>2. QED
      BY <2>3, <3>1, <1>1, <1>4 DEF AtPlace, AtRest, Known, Donor, Receiver
  <2>7. QED
    BY <2>3, <2>4, <2>5, <2>6, <1>5 DEF RebalancerInv
<1>8. QED
  BY <1>6, <1>7

\* A reversal takes the worker from the receiver.
LEMMA RevertReceiverStep ==
  ASSUME RebalancerInv, RevertReceiver
  PROVE  RebalancerInv'
<1>1. /\ pc = "lowerReceiver" /\ pc' = "idle" /\ move' = NoMove /\ seen' = 0
      /\ SetWorkers(Receiver, seen - 1)
  BY DEF RevertReceiver, Receiver
<1>2. RebalancerInv /\ move # NoMove
  BY <1>1 DEF RebalancerInv, MoveShape
<1>3. /\ PoolTypes /\ AtPlace /\ EachFits /\ InPolicy
      /\ Receiver \in Stages /\ move.receiverActive \in Nat
  BY <1>2, MoveFacts DEF RebalancerInv
<1>4. /\ AtRest(Receiver, move.receiverActive + 1, move.receiverActive)
      /\ Receiver \notin stopping => seen = move.receiverActive + 1
  BY <1>1, <1>3 DEF AtPlace
<1>5. MoveShape'
  BY <1>1 DEF MoveShape, Places
<1>6. CASE Receiver \in stopping
  <2>1. UNCHANGED poolVars
    BY <1>1, <1>6, RefusedChangesNothing
  <2>2. PoolTypes' /\ EachFits' /\ InPolicy'
    BY <2>1, PoolUnchanged
  <2>3. NoneLost'
    BY <2>1, <1>6 DEF NoneLost, poolVars
  <2>4. QED
    BY <2>2, <2>3, <1>1, <1>5 DEF RebalancerInv
<1>7. CASE Receiver \notin stopping
  <2>. DEFINE r == move.receiverActive
  <2>1. /\ FirstStay(workers[Receiver], r + 1) /\ Len(workers[Receiver]) = r + 1
        /\ Fits(Receiver, r + 1) /\ Fits(Receiver, r) /\ seen - 1 = r
    BY <1>3, <1>4, <1>7 DEF AtRest, Known
  <2>2. r \in Nat \ {0}
    BY <2>1, <1>3, NumbersAre DEF Fits
  <2>3. /\ PoolTypes' /\ stopping' = stopping
        /\ \A t \in Stages \ {Receiver} : workers'[t] = workers[t] /\ target'[t] = target[t]
        /\ target'[Receiver] = r
        /\ FirstStay(workers'[Receiver], r)
        /\ SumOf(KeptBy(workers), Stages) \in Int
        /\ SumOf(KeptBy(workers'), Stages)
             = SumOf(KeptBy(workers), Stages) + (r - (r + 1))
    <3>1. ~(r + 1 <= r) /\ SetWorkers(Receiver, r) /\ r <= Len(workers[Receiver])
      BY <2>1, <1>1, <1>3
    <3>. HIDE DEF r
    <3>2. QED
      BY <3>1, <2>1, <2>2, <1>3, <1>7, SetWorkersResizes
  <2>4. EachFits' /\ InPolicy'
    BY <2>1, <2>2, <2>3, <1>3, SetWorkersFits
  <2>5. NoneLost'
    <3>1. InFlight = 1 /\ InFlight' = 0
      BY <1>1 DEF InFlight
    <3>2. QED
      BY <3>1, <2>3, <1>2, <1>3, NumbersAre DEF RebalancerInv, NoneLost
  <2>6. QED
    BY <2>3, <2>4, <2>5, <1>1, <1>5 DEF RebalancerInv
<1>8. QED
  BY <1>6, <1>7

-------------------------------------------------------------------------------
(* The steps of the stages.                                                *)

\* A stage that leaves takes its workers with it.
LEMMA ExitStep ==
  ASSUME RebalancerInv, NEW s \in Stages, Exit(s)
  PROVE  RebalancerInv'
<1>1. PICK k \in DOMAIN workers[s] :
        /\ workers[s][k] \/ s \in stopping
        /\ workers' = [workers EXCEPT ![s] = RemoveAt(workers[s], k)]
  BY DEF Exit
<1>2. UNCHANGED <<target, stopping, pc, move, seen>>
  BY DEF Exit
<1>3. PoolTypes /\ EachFits /\ InPolicy /\ NoneLost /\ MoveShape
      /\ (move # NoMove => AtPlace)
  BY DEF RebalancerInv
<1>. DEFINE q == workers[s]
            r == RemoveAt(q, k)
<1>4. q \in Seq(BOOLEAN) /\ k \in 1..Len(q) /\ Len(q) \in Nat
  BY <1>3 DEF PoolTypes
<1>5. r \in Seq(BOOLEAN) /\ Len(r) = Len(q) - 1
  BY <1>4, TakeOutElement DEF RemoveAt
<1>. HIDE DEF r
<1>6. workers'[s] = r /\ \A t \in Stages \ {s} : workers'[t] = workers[t]
  BY <1>1, <1>3 DEF PoolTypes, r
<1>7. PoolTypes'
  BY <1>1, <1>2, <1>3, <1>5 DEF PoolTypes, r
<1>8. ASSUME NEW t \in Stages \ stopping, NEW m, FirstStay(workers[t], m)
      PROVE  /\ FirstStay(workers'[t], m) /\ Len(workers'[t]) <= Len(workers[t])
             /\ Len(workers[t]) = m => workers'[t] = workers[t]
  <2>1. CASE t = s
    <3>1. q[k] /\ FirstStay(q, m)
      BY <1>1, <1>8, <2>1
    <3>2. Len(r) = Len(q) - 1 /\ m < Len(q) /\ FirstStay(r, m)
      BY <3>1, <1>4, ExitStays DEF r
    <3>3. m \in Nat
      BY <1>4, <3>1 DEF FirstStay
    <3>4. Len(r) <= Len(q) /\ Len(q) # m
      BY <3>2, <3>3, <1>4
    <3>5. QED
      BY <3>2, <3>4, <1>6, <2>1
  <2>2. CASE t # s
    <3>1. Len(workers[t]) \in Nat
      BY <1>3, <1>8 DEF PoolTypes
    <3>2. QED
      BY <1>6, <1>8, <2>2, <3>1
  <2>3. QED
    BY <2>1, <2>2
<1>9. EachFits'
  <2>1. ASSUME NEW t \in Stages \ stopping
        PROVE  \E m \in Nat : FirstStay(workers'[t], m) /\ Fits(t, m)
    <3>1. PICK m \in Nat : FirstStay(workers[t], m) /\ Fits(t, m)
      BY <1>3 DEF EachFits
    <3>2. QED
      BY <3>1, <1>8
  <2>2. QED
    BY <2>1, <1>2 DEF EachFits, Fits
<1>10. InPolicy'
  BY <1>2, <1>3 DEF InPolicy
<1>11. NoneLost'
  <2>1. CASE stopping = {}
    <3>1. PICK m \in Nat : FirstStay(workers[s], m)
      BY <1>3, <2>1 DEF EachFits
    <3>2. FirstStay(workers'[s], m)
      BY <1>8, <2>1, <3>1
    <3>3. /\ SumOf(KeptBy(workers), Stages) \in Int
          /\ SumOf(KeptBy(workers'), Stages) = SumOf(KeptBy(workers), Stages) + (m - m)
      BY <3>1, <3>2, <1>3, <1>6, <1>7, KeptChanges
    <3>4. SumOf(KeptBy(workers'), Stages) = SumOf(KeptBy(workers), Stages)
      BY <3>3, <3>1
    <3>5. InFlight' = InFlight
      BY <1>2 DEF InFlight
    <3>6. QED
      BY <3>4, <3>5, <2>1, <1>3 DEF NoneLost
  <2>2. CASE stopping # {}
    BY <1>2, <2>2 DEF NoneLost
  <2>3. QED
    BY <2>1, <2>2
<1>12. MoveShape'
  BY <1>2, <1>3 DEF MoveShape, Donor, Receiver
<1>13. move # NoMove => AtPlace'
  <2>1. SUFFICES ASSUME move # NoMove PROVE AtPlace'
    OBVIOUS
  <2>2. /\ AtPlace /\ Donor \in Stages /\ Receiver \in Stages /\ move.donorActive \in Nat
        /\ Len(workers[Donor]) \in Nat
    BY <2>1, MoveFacts
  <2>3. ASSUME NEW t \in Stages, NEW m, NEW n, Known(t, m, n)
        PROVE  /\ t \notin stopping =>
                    FirstStay(workers'[t], m) /\ Fits(t, m) /\ Fits(t, n)
               /\ t \notin stopping => Len(workers'[t]) <= Len(workers[t])
    BY <2>3, <1>8 DEF Known
  <2>4. ASSUME NEW t \in Stages, NEW m, NEW n, AtRest(t, m, n)
        PROVE  t \notin stopping =>
                 /\ workers'[t] = workers[t] /\ FirstStay(workers'[t], m)
                 /\ Len(workers'[t]) = m /\ Fits(t, m) /\ Fits(t, n)
    BY <2>4, <1>8 DEF AtRest, Known
  <2>5. pc \in {"receive", "giveBack"} /\ Donor \notin stopping
          => Len(workers'[Donor]) <= move.donorActive
    <3>1. Len(workers'[Donor]) \in Nat
      BY <1>7, <2>2 DEF PoolTypes
    <3>2. QED
      BY <3>1, <2>2, <2>3 DEF AtPlace
  <2>6. CASE pc \in {"read", "readDonor"}
    <3>. DEFINE rcv == IF pc = "read" THEN Len(workers[Receiver]) ELSE move.receiverActive
    <3>1. /\ AtRest(Donor, Len(workers[Donor]), Len(workers[Donor]) - 1)
          /\ AtRest(Receiver, rcv, rcv + 1)
      BY <2>2, <2>6 DEF AtPlace, ActiveWorkers
    <3>2. /\ Donor \notin stopping =>
               /\ workers'[Donor] = workers[Donor]
               /\ FirstStay(workers'[Donor], Len(workers'[Donor]))
               /\ Fits(Donor, Len(workers'[Donor])) /\ Fits(Donor, Len(workers'[Donor]) - 1)
          /\ Receiver \notin stopping =>
               /\ workers'[Receiver] = workers[Receiver] /\ FirstStay(workers'[Receiver], rcv)
               /\ Len(workers'[Receiver]) = rcv /\ Fits(Receiver, rcv) /\ Fits(Receiver, rcv + 1)
      BY <2>2, <2>4, <3>1
    <3>3. QED
      BY <1>2, <2>6, <3>2 DEF AtPlace, AtRest, Known, ActiveWorkers, Donor, Receiver, Fits
  <2>7. CASE pc \in {"idle", "receive", "giveBack"}
    <3>1. /\ Known(Donor, move.donorActive - 1, move.donorActive)
          /\ pc = "receive" => AtRest(Receiver, move.receiverActive, move.receiverActive + 1)
          /\ pc = "idle" => Known(Receiver, move.receiverActive + 1, move.receiverActive)
          /\ pc = "giveBack" => Receiver \in stopping
      BY <2>2, <2>7 DEF AtPlace
    <3>2. Donor \notin stopping =>
            /\ FirstStay(workers'[Donor], move.donorActive - 1)
            /\ Fits(Donor, move.donorActive - 1) /\ Fits(Donor, move.donorActive)
      BY <2>2, <2>3, <3>1
    <3>3. pc = "receive" /\ Receiver \notin stopping =>
            /\ FirstStay(workers'[Receiver], move.receiverActive)
            /\ Len(workers'[Receiver]) = move.receiverActive
            /\ Fits(Receiver, move.receiverActive) /\ Fits(Receiver, move.receiverActive + 1)
      BY <2>2, <2>4, <3>1
    <3>4. pc = "idle" /\ Receiver \notin stopping =>
            /\ FirstStay(workers'[Receiver], move.receiverActive + 1)
            /\ Fits(Receiver, move.receiverActive + 1) /\ Fits(Receiver, move.receiverActive)
      BY <2>2, <2>3, <3>1
    <3>5. QED
      BY <1>2, <2>5, <2>7, <3>1, <3>2, <3>3, <3>4
         DEF AtPlace, AtRest, Known, Donor, Receiver, Fits
  <2>8. CASE pc \in {"donate", "revertDonor", "raiseDonor", "revertReceiver", "lowerReceiver"}
    <3>1. /\ pc = "donate" =>
               /\ AtRest(Donor, move.donorActive, move.donorActive - 1)
               /\ AtRest(Receiver, move.receiverActive, move.receiverActive + 1)
          /\ pc \in {"revertDonor", "raiseDonor"} =>
               AtRest(Donor, move.donorActive - 1, move.donorActive)
          /\ pc # "donate" => AtRest(Receiver, move.receiverActive + 1, move.receiverActive)
          /\ pc = "raiseDonor" /\ Donor \notin stopping => seen = move.donorActive - 1
          /\ pc = "lowerReceiver" /\ Receiver \notin stopping => seen = move.receiverActive + 1
      BY <2>2, <2>8 DEF AtPlace
    <3>2. pc = "donate" /\ Donor \notin stopping =>
            /\ FirstStay(workers'[Donor], move.donorActive)
            /\ Len(workers'[Donor]) = move.donorActive
            /\ Fits(Donor, move.donorActive) /\ Fits(Donor, move.donorActive - 1)
      BY <2>2, <2>4, <3>1
    <3>3. pc = "donate" /\ Receiver \notin stopping =>
            /\ FirstStay(workers'[Receiver], move.receiverActive)
            /\ Len(workers'[Receiver]) = move.receiverActive
            /\ Fits(Receiver, move.receiverActive) /\ Fits(Receiver, move.receiverActive + 1)
      BY <2>2, <2>4, <3>1
    <3>4. pc \in {"revertDonor", "raiseDonor"} /\ Donor \notin stopping =>
            /\ FirstStay(workers'[Donor], move.donorActive - 1)
            /\ Len(workers'[Donor]) = move.donorActive - 1
            /\ Fits(Donor, move.donorActive - 1) /\ Fits(Donor, move.donorActive)
      BY <2>2, <2>4, <3>1
    <3>5. pc # "donate" /\ Receiver \notin stopping =>
            /\ FirstStay(workers'[Receiver], move.receiverActive + 1)
            /\ Len(workers'[Receiver]) = move.receiverActive + 1
            /\ Fits(Receiver, move.receiverActive + 1) /\ Fits(Receiver, move.receiverActive)
      BY <2>2, <2>4, <3>1
    <3>6. QED
      BY <1>2, <2>8, <3>1, <3>2, <3>3, <3>4, <3>5
         DEF AtPlace, AtRest, Known, Donor, Receiver, Fits
  <2>9. QED
    BY <2>6, <2>7, <2>8, <1>3 DEF MoveShape, Places
<1>14. QED
  BY <1>2, <1>7, <1>9, <1>10, <1>11, <1>12, <1>13 DEF RebalancerInv

\* Nothing is claimed of a stage that shuts down but its target.
LEMMA StopStep ==
  ASSUME RebalancerInv, NEW s \in Stages, Stop(s)
  PROVE  RebalancerInv'
<1>1. stopping' = stopping \cup {s} /\ UNCHANGED <<workers, target, pc, move, seen>>
  BY DEF Stop
<1>2. PoolTypes' /\ EachFits' /\ InPolicy' /\ NoneLost' /\ MoveShape'
  BY <1>1 DEF RebalancerInv, PoolTypes, EachFits, Fits, InPolicy, NoneLost, MoveShape,
              Donor, Receiver
<1>3. move # NoMove => AtPlace'
  BY <1>1 DEF RebalancerInv, AtPlace, AtRest, Known, ActiveWorkers, Donor, Receiver, Fits
<1>4. QED
  BY <1>1, <1>2, <1>3 DEF RebalancerInv

\* Every step keeps the invariant of the rebalancer.
LEMMA RebalancerStep ==
  ASSUME RebalancerInv, [RebalancerNext]_rebalancerVars, punctual'
  PROVE  RebalancerInv'
<1>1. CASE Tick
  BY <1>1, CoolDownStep, DecideStep, ReadReceiverStep, ReadDonorStep, DonateStep, ReceiveStep, GiveBackStep,
     RevertReadStep, RevertDonorStep, RevertReceiverStep DEF Tick
<1>2. ASSUME NEW s \in Stages, Exit(s) PROVE RebalancerInv'
  BY <1>2, ExitStep
<1>3. ASSUME NEW s \in Stoppable, Stop(s) PROVE RebalancerInv'
  BY <1>3, StopStep, RebalancerAssumption
<1>4. ASSUME UNCHANGED <<poolVars, pc, move, left, seen>> PROVE RebalancerInv'
  <2>1. PoolTypes' /\ EachFits' /\ InPolicy' /\ NoneLost'
    BY <1>4, PoolUnchanged DEF InFlight
  <2>2. MoveShape' /\ (move' # NoMove => AtPlace')
    BY <1>4 DEF RebalancerInv, MoveShape, AtPlace, AtRest, Known, ActiveWorkers, Donor,
                Receiver, Fits, poolVars
  <2>3. QED
    BY <2>1, <2>2 DEF RebalancerInv
<1>5. ASSUME NEW on \in BOOLEAN, Toggle(on) PROVE RebalancerInv'
  BY <1>4, <1>5 DEF Toggle
<1>6. CASE UNCHANGED rebalancerVars
  BY <1>4, <1>6 DEF rebalancerVars
<1>7. QED
  BY <1>1, <1>2, <1>3, <1>5, <1>6 DEF RebalancerNext

-------------------------------------------------------------------------------
(* What holds however late the cancelled workers exit.                     *)

\* The oldest worker of a stage that is not shutting down stays.
HeadsStay == \A s \in Stages \ stopping : Len(workers[s]) >= 1 /\ ~workers[s][1]

\* What was read of a stage bounds the handles it still has.
Counted ==
  /\ pc = "read" /\ MaxWorkers[Receiver] > 0 => Len(workers[Receiver]) < MaxWorkers[Receiver]
  /\ pc \in {"readDonor", "donate", "receive"} =>
       /\ Len(workers[Receiver]) <= move.receiverActive
       /\ MaxWorkers[Receiver] > 0 => move.receiverActive < MaxWorkers[Receiver]
  /\ pc = "donate" => Len(workers[Donor]) <= move.donorActive
  /\ pc = "raiseDonor" => Len(workers[Donor]) <= seen
  /\ pc = "lowerReceiver" => Len(workers[Receiver]) <= seen
  /\ pc = "giveBack" => Receiver \in stopping

NoneMissing ==
  stopping = {} => SumOf(KeptBy(workers), Stages) >= AllStages + InFlight

CountInv == PoolTypes /\ MoveShape /\ HeadsStay /\ Counted /\ NoneMissing

\* How many stay is a number.
LEMMA KeptIsNat ==
  ASSUME NEW q \in Seq(BOOLEAN)
  PROVE  /\ IsFiniteSet({k \in DOMAIN q : ~q[k]}) /\ Kept(q) \in Nat
         /\ DOMAIN q = 1..Len(q)
<1>1. IsFiniteSet(1..Len(q)) /\ {k \in DOMAIN q : ~q[k]} \subseteq 1..Len(q)
  BY FS_Interval
<1>2. IsFiniteSet({k \in DOMAIN q : ~q[k]})
  BY <1>1, FS_Subset
<1>3. QED
  BY <1>2, FS_CardinalityType DEF Kept

\* A resized stage: what it keeps and loses, whoever is on its way out.
LEMMA ResizeKeeps ==
  ASSUME NEW q \in Seq(BOOLEAN), NEW n \in Nat \ {0}
  PROVE  /\ Resized(q, n) \in Seq(BOOLEAN)
         /\ Len(q) <= n + 1 => Kept(Resized(q, n)) >= Kept(q) - 1
         /\ Len(q) < n => Kept(Resized(q, n)) >= Kept(q) + 1
         /\ Len(q) >= 1 /\ ~q[1] => Len(Resized(q, n)) >= 1 /\ ~Resized(q, n)[1]
<1>. DEFINE L == IF n <= Len(q) THEN Len(q) ELSE n
            r == Resized(q, n)
            K == {k \in DOMAIN q : ~q[k]}
            R == {k \in DOMAIN r : ~r[k]}
<1>1. Len(q) \in Nat /\ L \in Nat /\ L >= 1
  OBVIOUS
<1>2. Max({n, Len(q)}) = L
  BY <1>1, MaxOfTwo
<1>3. r = [k \in 1..L |-> k \in DOMAIN q /\ (k > n \/ q[k])]
  BY <1>2 DEF Resized
<1>4. r \in Seq(BOOLEAN) /\ Len(r) = L
  BY <1>1, <1>3
<1>5. IsFiniteSet(K) /\ Kept(q) \in Nat /\ DOMAIN q = 1..Len(q)
  BY KeptIsNat
<1>6. \A k \in 1..L : ~r[k] <=> k \notin 1..Len(q) \/ (k <= n /\ ~q[k])
  <2>1. SUFFICES ASSUME NEW k \in 1..L
                 PROVE  ~r[k] <=> k \notin 1..Len(q) \/ (k <= n /\ ~q[k])
    OBVIOUS
  <2>2. r[k] = (k \in 1..Len(q) /\ (k > n \/ q[k]))
    <3>. HIDE DEF r, L
    <3>1. r[k] = (k \in DOMAIN q /\ (k > n \/ q[k]))
      BY <1>3, <2>1
    <3>2. QED
      BY <1>5, <3>1
  <2>3. k > n <=> ~(k <= n)
    BY <1>1
  <2>4. QED
    BY <2>2, <2>3
<1>7. IsFiniteSet(R) /\ DOMAIN r = 1..L /\ Kept(r) \in Nat
  <2>. HIDE DEF r, L
  <2>1. QED
    BY <1>4, KeptIsNat
<1>8. Kept(q) = Cardinality(K) /\ Kept(r) = Cardinality(R)
  BY DEF Kept
<1>9. \A k \in K : k \in 1..Len(q) /\ ~q[k]
  BY <1>5
<1>10. \A k \in 1..L : ~r[k] => k \in R
  BY <1>7
<1>. HIDE DEF r, K, R
<1>11. ASSUME Len(q) <= n + 1 PROVE Kept(r) >= Kept(q) - 1
  <2>1. K \ {n + 1} \subseteq R
    BY <1>1, <1>6, <1>9, <1>10, <1>11
  <2>2. Cardinality(K \ {n + 1}) <= Cardinality(R)
    BY <2>1, <1>7, FS_Subset
  <2>3. Cardinality(K \ {n + 1}) >= Cardinality(K) - 1
    <3>1. Cardinality(K \ {n + 1})
            = IF n + 1 \in K THEN Cardinality(K) - 1 ELSE Cardinality(K)
      BY <1>5, FS_RemoveElement
    <3>2. QED
      BY <3>1, <1>5, <1>8
  <2>4. Cardinality(K \ {n + 1}) \in Nat
    BY <1>5, FS_RemoveElement, FS_CardinalityType
  <2>5. QED
    BY <2>2, <2>3, <2>4, <1>5, <1>7, <1>8
<1>12. ASSUME Len(q) < n PROVE Kept(r) >= Kept(q) + 1
  <2>1. n \in 1..L /\ n \notin 1..Len(q)
    BY <1>1, <1>12
  <2>2. K \cup {n} \subseteq R /\ n \notin K
    BY <2>1, <1>1, <1>6, <1>9, <1>10, <1>12
  <2>3. Cardinality(K \cup {n}) = Cardinality(K) + 1
    BY <2>2, <1>5, FS_AddElement
  <2>4. Cardinality(K \cup {n}) <= Cardinality(R)
    BY <2>2, <1>7, FS_Subset
  <2>5. QED
    BY <2>3, <2>4, <1>5, <1>7, <1>8
<1>13. ASSUME Len(q) >= 1, ~q[1] PROVE Len(r) >= 1 /\ ~r[1]
  BY <1>1, <1>4, <1>6, <1>13
<1>14. QED
  BY <1>4, <1>11, <1>12, <1>13 DEF r

\* The exit of a cancelled worker takes nobody who stays.
LEMMA ExitKeeps ==
  ASSUME NEW q \in Seq(BOOLEAN), NEW k \in 1..Len(q), q[k]
  PROVE  /\ Kept(RemoveAt(q, k)) >= Kept(q)
         /\ ~q[1] => Len(RemoveAt(q, k)) >= 1 /\ ~RemoveAt(q, k)[1]
<1>. DEFINE r == RemoveAt(q, k)
            K == {i \in DOMAIN q : ~q[i]}
            R == {i \in DOMAIN r : ~r[i]}
            f == [i \in K |-> IF i < k THEN i ELSE i - 1]
<1>1. /\ r \in Seq(BOOLEAN) /\ Len(r) = Len(q) - 1
      /\ \A j \in 1..(Len(q) - 1) : r[j] = q[IF j < k THEN j ELSE j + 1]
  <2>. HIDE DEF K, R, f
  <2>. QED
    BY TakeOutElement DEF RemoveAt
<1>. HIDE DEF r
<1>2. /\ DOMAIN q = 1..Len(q) /\ DOMAIN r = 1..(Len(q) - 1)
      /\ IsFiniteSet(R) /\ Kept(r) \in Nat /\ Kept(q) \in Nat
  BY <1>1, KeptIsNat
<1>3. ASSUME NEW i \in K PROVE f[i] \in R
  <2>1. i \in 1..Len(q) /\ ~q[i] /\ i # k
    BY <1>2
  <2>2. CASE i < k
    <3>1. i \in 1..(Len(q) - 1) /\ f[i] = i /\ r[i] = q[i]
      BY <1>1, <2>1, <2>2
    <3>2. QED
      BY <3>1, <2>1, <1>2
  <2>3. CASE ~(i < k)
    <3>1. i - 1 \in 1..(Len(q) - 1) /\ f[i] = i - 1 /\ ~(i - 1 < k)
      BY <1>1, <2>1, <2>3
    <3>2. r[i - 1] = q[i]
      <4>1. (i - 1) + 1 = i
        BY <2>1
      <4>. HIDE DEF f, K, R
      <4>2. QED
        BY <4>1, <3>1, <1>1
    <3>3. QED
      BY <3>1, <3>2, <2>1, <1>2
  <2>4. QED
    BY <2>2, <2>3
<1>4. \A i, j \in K : f[i] = f[j] => i = j
  <2>1. \A i \in K : i \in 1..Len(q) /\ i # k /\ f[i] = IF i < k THEN i ELSE i - 1
    BY <1>2
  <2>. HIDE DEF f, K
  <2>2. QED
    BY <2>1, <1>1
<1>5. f \in Injection(K, R)
  <2>1. f \in [K -> R]
    BY <1>3
  <2>. HIDE DEF f, K, R
  <2>2. QED
    BY <2>1, <1>4 DEF Injection, IsInjective
<1>6. Cardinality(K) <= Cardinality(R)
  <2>. HIDE DEF f, K, R
  <2>1. IsFiniteSet(R)
    BY <1>2
  <2>2. QED
    BY <2>1, <1>5, FS_Injection
<1>7. Kept(r) >= Kept(q)
  BY <1>2, <1>6 DEF Kept
<1>8. ASSUME ~q[1] PROVE Len(r) >= 1 /\ ~r[1]
  <2>1. k # 1
    BY <1>8
  <2>2. 1 \in 1..(Len(q) - 1) /\ 1 < k
    BY <2>1, <1>1
  <2>3. r[1] = q[1]
    BY <2>2, <1>1
  <2>4. QED
    BY <2>2, <2>3, <1>1, <1>8
<1>9. QED
  BY <1>7, <1>8 DEF r

\* If one stage changes, the sum changes by what is kept there.
LEMMA KeptShifts ==
  ASSUME PoolTypes, PoolTypes', NEW s \in Stages,
         \A t \in Stages \ {s} : workers'[t] = workers[t]
  PROVE  /\ SumOf(KeptBy(workers), Stages) \in Int /\ SumOf(KeptBy(workers'), Stages) \in Int
         /\ Kept(workers[s]) \in Nat /\ Kept(workers'[s]) \in Nat
         /\ SumOf(KeptBy(workers'), Stages)
              = SumOf(KeptBy(workers), Stages) + (Kept(workers'[s]) - Kept(workers[s]))
<1>. DEFINE f == KeptBy(workers)
            g == KeptBy(workers')
<1>1. \A t \in Stages : workers[t] \in Seq(BOOLEAN) /\ workers'[t] \in Seq(BOOLEAN)
  BY DEF PoolTypes
<1>2. \A t \in Stages : Kept(workers[t]) \in Nat /\ Kept(workers'[t]) \in Nat
  BY <1>1, KeptIsNat
<1>3. /\ \A t \in Stages : f[t] \in Int /\ g[t] \in Int
      /\ \A t \in Stages \ {s} : f[t] = g[t]
      /\ f[s] = Kept(workers[s]) /\ g[s] = Kept(workers'[s])
  BY <1>2 DEF KeptBy
<1>4. IsFiniteSet(Stages)
  BY NumbersAre
<1>. HIDE DEF f, g
<1>5. /\ SumOf(f, Stages) \in Int /\ SumOf(g, Stages) \in Int
      /\ SumOf(g, Stages) - SumOf(f, Stages) = g[s] - f[s]
  BY <1>3, <1>4, SumChange
<1>6. SumOf(g, Stages) = SumOf(f, Stages) + (g[s] - f[s])
  <2>1. f[s] \in Int /\ g[s] \in Int
    BY <1>3
  <2>2. QED
    BY <2>1, <1>5
<1>7. QED
  BY <1>2, <1>3, <1>5, <1>6 DEF f, g

\* What SetWorkers does to a stage that is not shutting down.
LEMMA SetWorkersKeeps ==
  ASSUME PoolTypes, HeadsStay, NEW s \in Stages, s \notin stopping,
         NEW wish \in Int, SetWorkers(s, wish),
         NEW n, n = IF wish <= 1 THEN 1 ELSE wish
  PROVE  /\ PoolTypes' /\ HeadsStay' /\ stopping' = stopping
         /\ \A t \in Stages \ {s} : workers'[t] = workers[t]
         /\ target'[s] = n
         /\ SumOf(KeptBy(workers), Stages) \in Int /\ SumOf(KeptBy(workers'), Stages) \in Int
         /\ Len(workers[s]) <= n + 1 =>
              SumOf(KeptBy(workers'), Stages) >= SumOf(KeptBy(workers), Stages) - 1
         /\ Len(workers[s]) < n =>
              SumOf(KeptBy(workers'), Stages) >= SumOf(KeptBy(workers), Stages) + 1
<1>. DEFINE q == workers[s]
<1>1. q \in Seq(BOOLEAN) /\ n \in Nat \ {0} /\ Len(q) >= 1 /\ ~q[1]
  BY DEF PoolTypes, HeadsStay
<1>2. Max({wish, 1}) = n
  BY MaxOfTwo
<1>3. /\ workers' = [workers EXCEPT ![s] = Resized(workers[s], n)]
      /\ target' = [target EXCEPT ![s] = n] /\ stopping' = stopping
  BY <1>2 DEF SetWorkers, Applied, Refused, Resized
<1>4. /\ Resized(q, n) \in Seq(BOOLEAN)
      /\ Len(q) <= n + 1 => Kept(Resized(q, n)) >= Kept(q) - 1
      /\ Len(q) < n => Kept(Resized(q, n)) >= Kept(q) + 1
      /\ Len(Resized(q, n)) >= 1 /\ ~Resized(q, n)[1]
  BY <1>1, ResizeKeeps
<1>5. /\ workers'[s] = Resized(q, n) /\ target'[s] = n
      /\ \A t \in Stages \ {s} : workers'[t] = workers[t]
  BY <1>3 DEF PoolTypes
<1>6. PoolTypes'
  BY <1>1, <1>3, <1>4 DEF PoolTypes
<1>7. HeadsStay'
  BY <1>3, <1>4, <1>5 DEF HeadsStay
<1>8. /\ SumOf(KeptBy(workers), Stages) \in Int /\ SumOf(KeptBy(workers'), Stages) \in Int
      /\ Kept(workers[s]) \in Nat /\ Kept(workers'[s]) \in Nat
      /\ SumOf(KeptBy(workers'), Stages)
           = SumOf(KeptBy(workers), Stages) + (Kept(workers'[s]) - Kept(workers[s]))
  BY <1>5, <1>6, KeptShifts
<1>9. QED
  BY <1>3, <1>4, <1>5, <1>6, <1>7, <1>8

\* The counts hold at first.
LEMMA CountInitially ==
  ASSUME RebalancerInit
  PROVE  CountInv
<1>1. RebalancerInv
  BY RebalancerInitially
<1>2. SumOf(KeptBy(workers), Stages) = AllStages + 0 /\ AllStages \in Nat
  BY <1>1, NumbersAre DEF RebalancerInv, NoneLost, InFlight, RebalancerInit
<1>3. NoneMissing
  BY <1>2 DEF NoneMissing, InFlight, RebalancerInit
<1>4. HeadsStay
  <2>1. \A s \in Stages : workers[s] = [k \in 1..StartWorkers |-> FALSE]
    BY DEF RebalancerInit
  <2>2. StartWorkers \in Nat \ {0}
    BY NumbersAre
  <2>3. QED
    BY <2>1, <2>2 DEF HeadsStay
<1>5. Counted
  BY DEF Counted, RebalancerInit
<1>6. QED
  BY <1>1, <1>3, <1>4, <1>5 DEF CountInv, RebalancerInv

\* What the counts say of the move, once there is one.
LEMMA CountFacts ==
  ASSUME CountInv, pc # "idle"
  PROVE  /\ PoolTypes /\ HeadsStay /\ Counted /\ move # NoMove
         /\ move \in [donor : Stages, receiver : Stages, donorActive : Nat, receiverActive : Nat]
         /\ Donor \in Stages /\ Receiver \in Stages /\ Donor # Receiver
         /\ move.donorActive \in Nat /\ move.receiverActive \in Nat /\ seen \in Nat
         /\ \A s \in Stages : Len(workers[s]) \in Nat /\ MaxWorkers[s] \in Nat
BY NumbersAre DEF CountInv, MoveShape, Donor, Receiver, PoolTypes

\* A step that leaves the stages and what is in flight alone.
LEMMA CountUnchanged ==
  ASSUME CountInv, UNCHANGED poolVars
  PROVE  PoolTypes' /\ HeadsStay' /\ (InFlight' = InFlight => NoneMissing')
BY DEF CountInv, poolVars, PoolTypes, HeadsStay, NoneMissing

\* A tick that decides, reads or cools down.
LEMMA CountThinks ==
  ASSUME CountInv,
         \/ CoolDown \/ Decide \/ ReadReceiver \/ ReadDonor
         \/ RevertRead("revertDonor", "raiseDonor", move.donor)
         \/ RevertRead("revertReceiver", "lowerReceiver", move.receiver)
  PROVE  CountInv'
<1>1. ASSUME CoolDown PROVE CountInv'
  <2>1. /\ pc = "idle" /\ UNCHANGED <<poolVars, seen>>
        /\ \/ pc' = "idle" /\ move' = move
           \/ pc' = "idle" /\ move' = NoMove
           \/ pc' = "revertDonor" /\ move' = move /\ move # NoMove
    BY <1>1 DEF CoolDown, TickBegins
  <2>2. PoolTypes' /\ HeadsStay' /\ NoneMissing'
    BY <2>1, CountUnchanged DEF InFlight
  <2>3. MoveShape'
    BY <2>1 DEF CountInv, MoveShape, Donor, Receiver, Places
  <2>4. Counted'
    BY <2>1 DEF Counted
  <2>5. QED
    BY <2>2, <2>3, <2>4 DEF CountInv
<1>2. ASSUME Decide PROVE CountInv'
  <2>1. pc = "idle" /\ pc' = "read" /\ UNCHANGED <<poolVars, seen>>
    BY <1>2 DEF Decide, TickBegins
  <2>2. PICK R \in Stages : \E s \in Stages \ {R} :
          MayReceive(R) /\ move' = [NoMove EXCEPT !.donor = s, !.receiver = R]
    BY <1>2 DEF Decide
  <2>3. PICK D \in Stages \ {R} :
          MayReceive(R) /\ move' = [NoMove EXCEPT !.donor = D, !.receiver = R]
    BY <2>2
  <2>4. move' = [donor |-> D, receiver |-> R, donorActive |-> 0, receiverActive |-> 0]
    BY <2>3 DEF NoMove
  <2>5. PoolTypes' /\ HeadsStay' /\ NoneMissing'
    BY <2>1, CountUnchanged DEF InFlight
  <2>6. MoveShape'
    <3>1. D # NoStage /\ R \in Stages /\ D \in Stages
      BY NumbersAre
    <3>2. QED
      BY <2>1, <2>4, <3>1 DEF CountInv, MoveShape, Donor, Receiver, Places, NoMove
  <2>7. Counted'
    BY <2>1, <2>3, <2>4 DEF Counted, MayReceive, ActiveWorkers, Receiver, poolVars
  <2>8. QED
    BY <2>5, <2>6, <2>7 DEF CountInv
<1>3. ASSUME ReadReceiver PROVE CountInv'
  <2>1. /\ pc = "read" /\ pc' = "readDonor" /\ UNCHANGED <<poolVars, seen>>
        /\ move' = [move EXCEPT !.receiverActive = ActiveWorkers(Receiver)]
    BY <1>3 DEF ReadReceiver, Receiver
  <2>2. PoolTypes' /\ HeadsStay' /\ NoneMissing'
    BY <2>1, CountUnchanged DEF InFlight
  <2>3. /\ move \in [donor : Stages, receiver : Stages, donorActive : Nat, receiverActive : Nat]
        /\ Donor \in Stages /\ Receiver \in Stages /\ Donor # Receiver /\ Counted
        /\ Len(workers[Receiver]) \in Nat /\ seen \in Nat
    BY <2>1, CountFacts
  <2>4. /\ move'.donor = Donor /\ move'.receiver = Receiver
        /\ move'.receiverActive = Len(workers[Receiver])
        /\ move' \in [donor : Stages, receiver : Stages, donorActive : Nat, receiverActive : Nat]
    BY <2>1, <2>3 DEF Donor, Receiver, ActiveWorkers
  <2>5. move' # NoMove
    BY <2>3, <2>4, NumbersAre DEF NoMove
  <2>6. MoveShape'
    BY <2>1, <2>3, <2>4, <2>5 DEF MoveShape, Donor, Receiver, Places
  <2>7. Counted'
    <3>1. Len(workers[Receiver]) <= Len(workers[Receiver])
      BY <2>3
    <3>2. QED
      BY <2>1, <2>3, <2>4, <3>1 DEF Counted, Receiver, Donor, poolVars
  <2>8. QED
    BY <2>2, <2>6, <2>7 DEF CountInv
<1>4. ASSUME ReadDonor PROVE CountInv'
  <2>1. /\ pc = "readDonor" /\ pc' = "donate" /\ UNCHANGED <<poolVars, seen>>
        /\ move' = [move EXCEPT !.donorActive = ActiveWorkers(Donor)]
    BY <1>4 DEF ReadDonor, Donor
  <2>2. PoolTypes' /\ HeadsStay' /\ NoneMissing'
    BY <2>1, CountUnchanged DEF InFlight
  <2>3. /\ move \in [donor : Stages, receiver : Stages, donorActive : Nat, receiverActive : Nat]
        /\ Donor \in Stages /\ Receiver \in Stages /\ Donor # Receiver /\ Counted
        /\ Len(workers[Donor]) \in Nat /\ seen \in Nat
    BY <2>1, CountFacts
  <2>4. /\ move'.donor = Donor /\ move'.receiver = Receiver
        /\ move'.donorActive = Len(workers[Donor])
        /\ move'.receiverActive = move.receiverActive
        /\ move' \in [donor : Stages, receiver : Stages, donorActive : Nat, receiverActive : Nat]
    BY <2>1, <2>3 DEF Donor, Receiver, ActiveWorkers
  <2>5. move' # NoMove
    BY <2>3, <2>4, NumbersAre DEF NoMove
  <2>6. MoveShape'
    BY <2>1, <2>3, <2>4, <2>5 DEF MoveShape, Donor, Receiver, Places
  <2>7. Counted'
    <3>1. Len(workers[Donor]) <= Len(workers[Donor])
      BY <2>3
    <3>2. QED
      BY <2>1, <2>3, <2>4, <3>1 DEF Counted, Receiver, Donor, poolVars
  <2>8. QED
    BY <2>2, <2>6, <2>7 DEF CountInv
<1>5. ASSUME \/ RevertRead("revertDonor", "raiseDonor", move.donor)
             \/ RevertRead("revertReceiver", "lowerReceiver", move.receiver)
      PROVE  CountInv'
  <2>1. /\ UNCHANGED poolVars /\ move' = move
        /\ \/ pc = "revertDonor" /\ pc' = "raiseDonor" /\ seen' = Len(workers[Donor])
           \/ pc = "revertReceiver" /\ pc' = "lowerReceiver" /\ seen' = Len(workers[Receiver])
    BY <1>5 DEF RevertRead, ActiveWorkers, Donor, Receiver
  <2>2. PoolTypes' /\ HeadsStay' /\ NoneMissing'
    BY <2>1, CountUnchanged DEF InFlight
  <2>3. /\ Donor \in Stages /\ Receiver \in Stages /\ move # NoMove
        /\ \A s \in Stages : Len(workers[s]) \in Nat /\ Len(workers[s]) <= Len(workers[s])
    BY <2>1, CountFacts
  <2>4. MoveShape'
    BY <2>1, <2>3 DEF CountInv, MoveShape, Donor, Receiver, Places
  <2>5. Counted'
    BY <2>1, <2>3 DEF Counted, Donor, Receiver, poolVars
  <2>6. QED
    BY <2>2, <2>4, <2>5 DEF CountInv
<1>6. QED
  BY <1>1, <1>2, <1>3, <1>4, <1>5

\* The two halves of a move.
LEMMA CountMoves ==
  ASSUME CountInv, Donate \/ Receive \/ GiveBack
  PROVE  CountInv'
<1>1. pc # "idle"
  BY DEF Donate, Receive, GiveBack
<1>2. /\ PoolTypes /\ HeadsStay /\ Counted /\ move # NoMove
      /\ Donor \in Stages /\ Receiver \in Stages /\ Donor # Receiver
      /\ move.donorActive \in Nat /\ move.receiverActive \in Nat
      /\ \A s \in Stages : Len(workers[s]) \in Nat
  BY <1>1, CountFacts
<1>3. MoveShape'
  BY <1>1, <1>2
     DEF Donate, Receive, GiveBack, CountInv, MoveShape, Donor, Receiver, Places
<1>4. ASSUME Donate PROVE CountInv'
  <2>1. /\ pc = "donate" /\ SetWorkers(Donor, move.donorActive - 1)
        /\ Donor \in stopping => pc' = "idle"
        /\ Donor \notin stopping => pc' = "receive" /\ move' = move
    BY <1>4 DEF Donate, Donor
  <2>2. CASE Donor \in stopping
    <3>1. UNCHANGED poolVars
      BY <2>1, <2>2, RefusedChangesNothing
    <3>2. PoolTypes' /\ HeadsStay' /\ NoneMissing' /\ Counted'
      BY <2>1, <2>2, <3>1, CountUnchanged DEF InFlight, Counted
    <3>3. QED
      BY <3>2, <1>3 DEF CountInv
  <2>3. CASE Donor \notin stopping
    <3>. DEFINE n == IF move.donorActive - 1 <= 1 THEN 1 ELSE move.donorActive - 1
    <3>1. /\ PoolTypes' /\ HeadsStay' /\ stopping' = stopping
          /\ \A t \in Stages \ {Donor} : workers'[t] = workers[t]
          /\ SumOf(KeptBy(workers), Stages) \in Int /\ SumOf(KeptBy(workers'), Stages) \in Int
          /\ Len(workers[Donor]) <= n + 1 =>
               SumOf(KeptBy(workers'), Stages) >= SumOf(KeptBy(workers), Stages) - 1
      <4>1. move.donorActive - 1 \in Int
        BY <1>2
      <4>2. QED
        BY <4>1, <1>2, <2>1, <2>3, SetWorkersKeeps
    <3>2. Len(workers[Donor]) <= move.donorActive
      BY <1>2, <2>1 DEF Counted
    <3>3. Len(workers[Donor]) <= n + 1
      BY <3>2, <1>2
    <3>4. NoneMissing'
      <4>1. InFlight = 0 /\ InFlight' = -1
        BY <2>1, <2>3 DEF InFlight
      <4>2. QED
        BY <4>1, <3>1, <3>3, NumbersAre DEF CountInv, NoneMissing
    <3>5. Counted'
      <4>1. workers'[Receiver] = workers[Receiver]
        BY <3>1, <1>2
      <4>2. QED
        BY <4>1, <1>2, <2>1, <2>3 DEF Counted, Receiver
    <3>6. QED
      BY <3>1, <3>4, <3>5, <1>3 DEF CountInv
  <2>4. QED
    BY <2>2, <2>3
<1>5. ASSUME Receive PROVE CountInv'
  <2>1. /\ pc = "receive" /\ SetWorkers(Receiver, move.receiverActive + 1) /\ move' = move
        /\ Receiver \in stopping => pc' = "giveBack"
        /\ Receiver \notin stopping => pc' = "idle"
    BY <1>5 DEF Receive, Receiver
  <2>2. CASE Receiver \in stopping
    <3>1. UNCHANGED poolVars
      BY <2>1, <2>2, RefusedChangesNothing
    <3>2. PoolTypes' /\ HeadsStay'
      BY <3>1, CountUnchanged
    <3>3. Counted' /\ NoneMissing'
      BY <2>1, <2>2, <3>1 DEF Counted, NoneMissing, Receiver, poolVars
    <3>4. QED
      BY <3>2, <3>3, <1>3 DEF CountInv
  <2>3. CASE Receiver \notin stopping
    <3>. DEFINE n == move.receiverActive + 1
    <3>1. n \in Int /\ n = IF n <= 1 THEN 1 ELSE n
      BY <1>2
    <3>2. /\ PoolTypes' /\ HeadsStay' /\ stopping' = stopping
          /\ SumOf(KeptBy(workers), Stages) \in Int /\ SumOf(KeptBy(workers'), Stages) \in Int
          /\ Len(workers[Receiver]) < n =>
               SumOf(KeptBy(workers'), Stages) >= SumOf(KeptBy(workers), Stages) + 1
      BY <3>1, <1>2, <2>1, <2>3, SetWorkersKeeps
    <3>3. Len(workers[Receiver]) < n
      BY <1>2, <2>1 DEF Counted
    <3>4. NoneMissing'
      <4>1. InFlight = -1 /\ InFlight' = 0
        BY <2>1, <2>3 DEF InFlight
      <4>2. QED
        BY <4>1, <3>2, <3>3, NumbersAre DEF CountInv, NoneMissing
    <3>5. Counted'
      BY <2>1, <2>3 DEF Counted
    <3>6. QED
      BY <3>2, <3>4, <3>5, <1>3 DEF CountInv
  <2>4. QED
    BY <2>2, <2>3
<1>6. ASSUME GiveBack PROVE CountInv'
  <2>1. /\ pc = "giveBack" /\ pc' = "idle" /\ SetWorkers(Donor, move.donorActive)
    BY <1>6 DEF GiveBack, Donor
  <2>2. Counted' /\ stopping # {}
    BY <1>2, <2>1 DEF Counted
  <2>3. PoolTypes' /\ HeadsStay' /\ stopping' = stopping
    <3>1. CASE Donor \in stopping
      BY <2>1, <3>1, RefusedChangesNothing, CountUnchanged DEF poolVars
    <3>2. CASE Donor \notin stopping
      BY <1>2, <2>1, <3>2, SetWorkersKeeps
    <3>3. QED
      BY <3>1, <3>2
  <2>4. QED
    BY <2>2, <2>3, <1>3 DEF CountInv, NoneMissing
<1>7. QED
  BY <1>4, <1>5, <1>6

\* The two halves of a reversal.
LEMMA CountReverts ==
  ASSUME CountInv, RevertDonor \/ RevertReceiver
  PROVE  CountInv'
<1>1. pc # "idle"
  BY DEF RevertDonor, RevertReceiver
<1>2. /\ PoolTypes /\ HeadsStay /\ Counted /\ move # NoMove /\ seen \in Nat
      /\ Donor \in Stages /\ Receiver \in Stages
      /\ \A s \in Stages : Len(workers[s]) \in Nat
  BY <1>1, CountFacts
<1>3. MoveShape' /\ Counted'
  BY <1>1, <1>2
     DEF RevertDonor, RevertReceiver, CountInv, MoveShape, Counted, Donor, Receiver, Places
<1>4. ASSUME RevertDonor PROVE CountInv'
  <2>1. pc = "raiseDonor" /\ pc' = "revertReceiver" /\ SetWorkers(Donor, seen + 1)
    BY <1>4 DEF RevertDonor, Donor
  <2>2. CASE Donor \in stopping
    <3>1. UNCHANGED poolVars
      BY <2>1, <2>2, RefusedChangesNothing
    <3>2. PoolTypes' /\ HeadsStay' /\ NoneMissing'
      BY <2>2, <3>1, CountUnchanged DEF NoneMissing, poolVars
    <3>3. QED
      BY <3>2, <1>3 DEF CountInv
  <2>3. CASE Donor \notin stopping
    <3>. DEFINE n == seen + 1
    <3>1. n \in Int /\ n = IF n <= 1 THEN 1 ELSE n
      BY <1>2
    <3>2. /\ PoolTypes' /\ HeadsStay' /\ stopping' = stopping
          /\ SumOf(KeptBy(workers), Stages) \in Int /\ SumOf(KeptBy(workers'), Stages) \in Int
          /\ Len(workers[Donor]) < n =>
               SumOf(KeptBy(workers'), Stages) >= SumOf(KeptBy(workers), Stages) + 1
      BY <3>1, <1>2, <2>1, <2>3, SetWorkersKeeps
    <3>3. Len(workers[Donor]) < n
      BY <1>2, <2>1 DEF Counted
    <3>4. NoneMissing'
      <4>1. InFlight = 0 /\ InFlight' = 1
        BY <2>1 DEF InFlight
      <4>2. QED
        BY <4>1, <3>2, <3>3, NumbersAre DEF CountInv, NoneMissing
    <3>5. QED
      BY <3>2, <3>4, <1>3 DEF CountInv
  <2>4. QED
    BY <2>2, <2>3
<1>5. ASSUME RevertReceiver PROVE CountInv'
  <2>1. pc = "lowerReceiver" /\ pc' = "idle" /\ SetWorkers(Receiver, seen - 1)
    BY <1>5 DEF RevertReceiver, Receiver
  <2>2. CASE Receiver \in stopping
    <3>1. UNCHANGED poolVars
      BY <2>1, <2>2, RefusedChangesNothing
    <3>2. PoolTypes' /\ HeadsStay' /\ NoneMissing'
      BY <2>2, <3>1, CountUnchanged DEF NoneMissing, poolVars
    <3>3. QED
      BY <3>2, <1>3 DEF CountInv
  <2>3. CASE Receiver \notin stopping
    <3>. DEFINE n == IF seen - 1 <= 1 THEN 1 ELSE seen - 1
    <3>1. /\ PoolTypes' /\ HeadsStay' /\ stopping' = stopping
          /\ SumOf(KeptBy(workers), Stages) \in Int /\ SumOf(KeptBy(workers'), Stages) \in Int
          /\ Len(workers[Receiver]) <= n + 1 =>
               SumOf(KeptBy(workers'), Stages) >= SumOf(KeptBy(workers), Stages) - 1
      <4>1. seen - 1 \in Int
        BY <1>2
      <4>2. QED
        BY <4>1, <1>2, <2>1, <2>3, SetWorkersKeeps
    <3>2. Len(workers[Receiver]) <= seen
      BY <1>2, <2>1 DEF Counted
    <3>3. Len(workers[Receiver]) <= n + 1
      BY <3>2, <1>2
    <3>4. NoneMissing'
      <4>1. InFlight = 1 /\ InFlight' = 0
        BY <2>1 DEF InFlight
      <4>2. QED
        BY <4>1, <3>1, <3>3, NumbersAre DEF CountInv, NoneMissing
    <3>5. QED
      BY <3>1, <3>4, <1>3 DEF CountInv
  <2>4. QED
    BY <2>2, <2>3
<1>6. QED
  BY <1>4, <1>5

\* Only a stage that shuts down loses a worker that would stay.
LEMMA CountExit ==
  ASSUME CountInv, NEW s \in Stages, Exit(s)
  PROVE  CountInv'
<1>1. PICK k \in DOMAIN workers[s] :
        /\ workers[s][k] \/ s \in stopping
        /\ workers' = [workers EXCEPT ![s] = RemoveAt(workers[s], k)]
  BY DEF Exit
<1>2. UNCHANGED <<target, stopping, pc, move, seen>>
  BY DEF Exit
<1>3. PoolTypes /\ MoveShape /\ HeadsStay /\ Counted /\ NoneMissing
  BY DEF CountInv
<1>. DEFINE q == workers[s]
            r == RemoveAt(q, k)
<1>4. q \in Seq(BOOLEAN) /\ k \in 1..Len(q) /\ Len(q) \in Nat
  BY <1>3 DEF PoolTypes
<1>5. r \in Seq(BOOLEAN) /\ Len(r) = Len(q) - 1
  BY <1>4, TakeOutElement DEF RemoveAt
<1>6. q[k] => Kept(r) >= Kept(q) /\ (~q[1] => Len(r) >= 1 /\ ~r[1])
  BY <1>4, ExitKeeps
<1>. HIDE DEF r
<1>7. workers'[s] = r /\ \A t \in Stages \ {s} : workers'[t] = workers[t]
  BY <1>1, <1>3 DEF PoolTypes, r
<1>8. PoolTypes'
  BY <1>1, <1>2, <1>3, <1>5 DEF PoolTypes, r
<1>9. HeadsStay'
  BY <1>1, <1>2, <1>3, <1>6, <1>7 DEF HeadsStay
<1>10. MoveShape'
  BY <1>2, <1>3 DEF MoveShape, Donor, Receiver
<1>11. Counted'
  <2>1. CASE pc = "idle"
    BY <1>2, <2>1 DEF Counted
  <2>2. CASE pc # "idle"
    <3>1. /\ Donor \in Stages /\ Receiver \in Stages /\ seen \in Nat
          /\ move.donorActive \in Nat /\ move.receiverActive \in Nat
          /\ MaxWorkers[Receiver] \in Nat
      BY <2>2, CountFacts
    <3>2. \A t \in Stages : /\ Len(workers[t]) \in Nat /\ Len(workers'[t]) \in Nat
                            /\ Len(workers'[t]) <= Len(workers[t])
      <4>1. ASSUME NEW t \in Stages
            PROVE  Len(workers[t]) \in Nat /\ Len(workers'[t]) \in Nat
        BY <1>3, <1>8 DEF PoolTypes
      <4>2. Len(workers'[s]) <= Len(workers[s])
        BY <1>4, <1>5, <1>7
      <4>. HIDE DEF q
      <4>3. QED
        BY <4>1, <4>2, <1>7
    <3>3. Donor' = Donor /\ Receiver' = Receiver
      BY <1>2 DEF Donor, Receiver
    <3>. DEFINE a == Len(workers[Donor])
                a2 == Len(workers'[Donor])
                b == Len(workers[Receiver])
                b2 == Len(workers'[Receiver])
    <3>4. a \in Nat /\ a2 \in Nat /\ a2 <= a /\ b \in Nat /\ b2 \in Nat /\ b2 <= b
      BY <3>1, <3>2
    <3>5. /\ pc = "read" /\ MaxWorkers[Receiver] > 0 => b < MaxWorkers[Receiver]
          /\ pc \in {"readDonor", "donate", "receive"} =>
               /\ b <= move.receiverActive
               /\ MaxWorkers[Receiver] > 0 => move.receiverActive < MaxWorkers[Receiver]
          /\ pc = "donate" => a <= move.donorActive
          /\ pc = "raiseDonor" => a <= seen
          /\ pc = "lowerReceiver" => b <= seen
          /\ pc = "giveBack" => Receiver \in stopping
      BY <1>3 DEF Counted
    <3>6. Counted' <=>
          /\ pc = "read" /\ MaxWorkers[Receiver] > 0 => b2 < MaxWorkers[Receiver]
          /\ pc \in {"readDonor", "donate", "receive"} =>
               /\ b2 <= move.receiverActive
               /\ MaxWorkers[Receiver] > 0 => move.receiverActive < MaxWorkers[Receiver]
          /\ pc = "donate" => a2 <= move.donorActive
          /\ pc = "raiseDonor" => a2 <= seen
          /\ pc = "lowerReceiver" => b2 <= seen
          /\ pc = "giveBack" => Receiver \in stopping
      BY <1>2, <3>3 DEF Counted
    <3>. HIDE DEF a, a2, b, b2
    <3>7. QED
      BY <3>1, <3>4, <3>5, <3>6
  <2>3. QED
    BY <2>1, <2>2
<1>12. NoneMissing'
  <2>1. CASE stopping # {}
    BY <1>2, <2>1 DEF NoneMissing
  <2>2. CASE stopping = {}
    <3>1. Kept(workers'[s]) >= Kept(workers[s])
      BY <1>1, <1>6, <1>7, <2>2
    <3>2. /\ SumOf(KeptBy(workers), Stages) \in Int /\ SumOf(KeptBy(workers'), Stages) \in Int
          /\ Kept(workers[s]) \in Nat /\ Kept(workers'[s]) \in Nat
          /\ SumOf(KeptBy(workers'), Stages)
               = SumOf(KeptBy(workers), Stages) + (Kept(workers'[s]) - Kept(workers[s]))
      BY <1>3, <1>7, <1>8, KeptShifts
    <3>3. SumOf(KeptBy(workers'), Stages) >= SumOf(KeptBy(workers), Stages)
      BY <3>1, <3>2
    <3>4. InFlight' = InFlight /\ InFlight \in Int /\ AllStages \in Int
      BY <1>2, NumbersAre DEF InFlight
    <3>5. QED
      BY <3>2, <3>3, <3>4, <2>2, <1>3 DEF NoneMissing
  <2>3. QED
    BY <2>1, <2>2
<1>13. QED
  BY <1>8, <1>9, <1>10, <1>11, <1>12 DEF CountInv

\* Every step keeps the counts.
LEMMA CountStep ==
  ASSUME CountInv, [RebalancerNext]_rebalancerVars
  PROVE  CountInv'
<1>1. CASE Tick
  BY <1>1, CountThinks, CountMoves, CountReverts DEF Tick
<1>2. ASSUME NEW s \in Stages, Exit(s) PROVE CountInv'
  BY <1>2, CountExit
<1>3. ASSUME NEW s \in Stoppable, Stop(s) PROVE CountInv'
  <2>1. stopping' = stopping \cup {s} /\ UNCHANGED <<workers, target, pc, move, seen>>
        /\ s \in Stages
    BY <1>3, RebalancerAssumption DEF Stop
  <2>2. PoolTypes' /\ MoveShape' /\ HeadsStay'
    BY <2>1 DEF CountInv, PoolTypes, MoveShape, HeadsStay, Donor, Receiver
  <2>3. Counted' /\ NoneMissing'
    BY <2>1 DEF CountInv, Counted, NoneMissing, Donor, Receiver
  <2>4. QED
    BY <2>2, <2>3 DEF CountInv
<1>4. ASSUME UNCHANGED <<poolVars, pc, move, left, seen>> PROVE CountInv'
  <2>1. PoolTypes' /\ HeadsStay' /\ NoneMissing'
    BY <1>4, CountUnchanged DEF InFlight
  <2>2. MoveShape' /\ Counted'
    BY <1>4 DEF CountInv, MoveShape, Counted, Donor, Receiver, poolVars
  <2>3. QED
    BY <2>1, <2>2 DEF CountInv
<1>5. ASSUME NEW on \in BOOLEAN, Toggle(on) PROVE CountInv'
  BY <1>4, <1>5 DEF Toggle
<1>6. CASE UNCHANGED rebalancerVars
  BY <1>4, <1>6 DEF rebalancerVars
<1>7. QED
  BY <1>1, <1>2, <1>3, <1>5, <1>6 DEF RebalancerNext

-------------------------------------------------------------------------------
(* The theorems about the rebalancer.                                      *)

\* The sum that the property states is the one the proofs take apart.
LEMMA StayingIsSum ==
  MapThenSumSet(Staying, Stages) = SumOf(KeptBy(workers), Stages)
<1>. DEFINE S == Stages
            f == KeptBy(workers)
            up(g) == g = [T \in SUBSET S |-> IF T = {} THEN 0
                                 ELSE Staying(PickOf(T)) + g[T \ {PickOf(T)}]]
            h == CHOOSE g : up(g)
<1>1. IsFiniteSet(S) /\ S \in SUBSET S
  BY NumbersAre
<1>2. MapThenSumSet(Staying, Stages) = h[S]
  BY DEF MapThenSumSet, MapThenFoldSet, PickOf
<1>3. ASSUME NEW T \in SUBSET S, T # {}
      PROVE  f[PickOf(T)] = Staying(PickOf(T))
  <2>1. PickOf(T) \in T
    BY <1>3 DEF PickOf
  <2>2. QED
    BY <2>1 DEF KeptBy, Kept, Staying
<1>4. SumsUp(PartialSums(f, S), f, S)
  BY <1>1, PartialSumsExist
<1>5. \A g : up(g) <=> SumsUp(g, f, S)
  BY <1>3 DEF SumsUp
<1>6. up(h)
  BY <1>4, <1>5
<1>7. SumsUp(h, f, S)
  BY <1>5, <1>6
<1>8. h[S] = PartialSums(f, S)[S]
  <2>. HIDE DEF h, f, S, up
  <2>. QED
    BY <1>1, <1>4, <1>7, SumsAgree
<1>9. QED
  BY <1>2, <1>8, SumOfIsPartialSum

\* Once a move or a reversal was not punctual, none of them counts as such.
LEMMA PunctualBefore ==
  ASSUME [RebalancerNext]_rebalancerVars, punctual'
  PROVE  punctual
BY DEF RebalancerNext, rebalancerVars, Tick, CoolDown, Decide, NoteDraining, ReadReceiver,
       ReadDonor, Donate, Receive, GiveBack, RevertRead, RevertDonor, RevertReceiver, Exit,
       Stop, Toggle

\* The invariant of the rebalancer: the counts always hold, and while all moves
\* and reversals were punctual, the exact numbers too.
PoolInv == CountInv /\ (punctual => RebalancerInv)

LEMMA PoolInvAlways == RebalancerSpec => []PoolInv
<1>1. RebalancerInit => PoolInv
  BY RebalancerInitially, CountInitially DEF PoolInv
<1>2. PoolInv /\ [RebalancerNext]_rebalancerVars => PoolInv'
  BY RebalancerStep, CountStep, PunctualBefore DEF PoolInv
<1>3. QED
  BY <1>1, <1>2, PTL DEF RebalancerSpec

\* The rebalancer keeps every stage within its policy, whatever is refused or
\* undone (analyze/rebalancer.go:22), as long as the workers it cancelled had
\* exited whenever a move or a reversal began.  The code does not wait for that,
\* and without it the property fails: a tick, or the revert in it, reads a number
\* that still counts a cancelled worker and asks for a number computed from it.
THEOREM RebalancerKeepsItsPolicy == RebalancerSpec => []WithinPolicy
<1>1. PoolInv => WithinPolicy
  BY DEF PoolInv, RebalancerInv, InPolicy, WithinPolicy
<1>2. QED
  BY <1>1, PoolInvAlways, PTL

\* Of a move, not a reversal, the policy's maximum holds whoever is on its way
\* out and whatever exits between the check and the readings (analyze/rebalancer.go:209,
\* 259, 270): both only ever overcount the receiver.
THEOREM RebalancerMovesRespectMax == RebalancerSpec => MovesRespectMax
<1>. DEFINE MaxKept == pc = "receive" /\ MaxWorkers[move.receiver] > 0
                         => UNCHANGED target \/ target'[move.receiver] <= MaxWorkers[move.receiver]
<1>1. PoolInv /\ [RebalancerNext]_rebalancerVars => [MaxKept]_rebalancerVars
  <2>1. SUFFICES ASSUME CountInv, RebalancerNext, pc = "receive", MaxWorkers[Receiver] > 0,
                        ~UNCHANGED target
                 PROVE  target'[Receiver] <= MaxWorkers[Receiver]
    BY DEF PoolInv, Receiver
  <2>2. Receive
    BY <2>1 DEF RebalancerNext, Tick, CoolDown, TickBegins, Decide, ReadReceiver, ReadDonor,
                Donate, GiveBack, RevertRead, RevertDonor, RevertReceiver, Exit, Stop, Toggle,
                poolVars
  <2>3. SetWorkers(Receiver, move.receiverActive + 1)
    BY <2>2 DEF Receive, Receiver
  <2>4. Receiver \notin stopping
    BY <2>1, <2>3, RefusedChangesNothing DEF poolVars
  <2>5. /\ PoolTypes /\ HeadsStay /\ Receiver \in Stages /\ move.receiverActive \in Nat
        /\ move.receiverActive < MaxWorkers[Receiver] /\ MaxWorkers[Receiver] \in Nat
    BY <2>1, CountFacts DEF Counted
  <2>. DEFINE n == move.receiverActive + 1
  <2>6. n \in Int /\ n = IF n <= 1 THEN 1 ELSE n
    BY <2>5
  <2>7. target'[Receiver] = n
    BY <2>3, <2>4, <2>5, <2>6, SetWorkersKeeps
  <2>8. QED
    BY <2>5, <2>7
<1>2. QED
  BY <1>1, PoolInvAlways, PTL DEF RebalancerSpec, MovesRespectMax

\* It moves workers between stages (analyze/rebalancer.go:46).  However late those
\* exit that it cancelled, it leaves no stage without a worker that stays and,
\* between ticks, no fewer of them in all than there were; and no more, if its
\* moves and reversals were punctual.
THEOREM RebalancerConservesWorkers == RebalancerSpec => []WorkersConserved
<1>1. PoolInv => WorkersConserved
  <2>1. SUFFICES ASSUME PoolInv PROVE WorkersConserved
    OBVIOUS
  <2>2. ASSUME NEW s \in Stages \ stopping PROVE Staying(s) > 0
    <3>1. workers[s] \in Seq(BOOLEAN) /\ Len(workers[s]) >= 1 /\ ~workers[s][1]
      BY <2>1 DEF PoolInv, CountInv, PoolTypes, HeadsStay
    <3>2. /\ IsFiniteSet({k \in DOMAIN workers[s] : ~workers[s][k]})
          /\ Kept(workers[s]) \in Nat /\ DOMAIN workers[s] = 1..Len(workers[s])
      BY <3>1, KeptIsNat
    <3>3. {k \in DOMAIN workers[s] : ~workers[s][k]} # {}
      BY <3>1, <3>2
    <3>4. Kept(workers[s]) # 0
      BY <3>2, <3>3, FS_EmptySet DEF Kept
    <3>5. QED
      BY <3>2, <3>4 DEF Staying, Kept
  <2>3. ASSUME pc = "idle", stopping = {}
        PROVE  /\ AllStaying >= Cardinality(Stages) * StartWorkers
               /\ punctual => AllStaying = Cardinality(Stages) * StartWorkers
    <3>1. AllStages \in Nat /\ InFlight = 0 /\ AllStaying = SumOf(KeptBy(workers), Stages)
      BY <2>3, StayingIsSum, NumbersAre DEF InFlight, AllStaying
    <3>2. AllStaying >= AllStages
      BY <2>1, <2>3, <3>1 DEF PoolInv, CountInv, NoneMissing
    <3>3. punctual => AllStaying = AllStages
      BY <2>1, <2>3, <3>1 DEF PoolInv, RebalancerInv, NoneLost
    <3>4. QED
      BY <3>2, <3>3 DEF AllStages
  <2>4. QED
    BY <2>2, <2>3 DEF WorkersConserved
<1>2. QED
  BY <1>1, PoolInvAlways, PTL
===============================================================================
