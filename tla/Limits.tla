-------------------------------- MODULE Limits --------------------------------
(***************************************************************************)
(* LimitManager (limit_manager.go) and the controllers that only propose:  *)
(* MemoryLimiter and any caller with a handle of its own.  A proposal, the *)
(* new minimum and the stage's setter run under LimitManager.mu, so each   *)
(* method is one action.                                                   *)
(*                                                                         *)
(* proposals[d] is the map of dimension d (countProposals,                 *)
(* weightProposals); stageLimit[d] is the limit the stage enforces.        *)
(***************************************************************************)
EXTENDS Integers, FiniteSets, FiniteSetsExt, Functions

CONSTANTS
  Baseline,       \* [count |-> construction MaxWIP, weight |-> MaxWIPWeight or 0]
  Ceiling,        \* what SetMaxWIP clamps to: Capacity + TargetWorkers
  MaxInt,         \* the largest value of the machine's integers
  Unlimited,      \* the stage's weight limit when disabled
  HeadBudgets,    \* head weight budgets a headroom reading may lead to
  CustomLimits    \* weight limits proposed through a handle: by BudgetAllocator, or a user's own

ASSUME BaselineAssumption ==
  /\ Baseline.count \in 1..Ceiling /\ Baseline.weight \in Nat
  /\ Ceiling \in Nat /\ MaxInt \in Nat
  /\ Ceiling < MaxInt /\ Baseline.weight < MaxInt
ASSUME LimitArgsAssumption ==
  /\ HeadBudgets \subseteq Int /\ CustomLimits \subseteq Int
  /\ \A v \in HeadBudgets : v < MaxInt
  /\ Unlimited \notin Nat

VARIABLES
  proposals,      \* [dimension -> [source -> limit]]
  stageLimit,     \* [dimension -> limit in force]
  lastProposed,   \* MemoryLimiter's; MaxInt before the first callback
  reading         \* history: the budget of the last headroom reading

limitVars == <<proposals, stageLimit, lastProposed, reading>>

Dims == {"count", "weight"}
Floor == [count |-> 1, weight |-> 0]

LimitsInit ==
  /\ proposals = [d \in Dims |-> [s \in {} |-> 0]]
  /\ stageLimit = [count |-> Baseline.count,
                   weight |-> IF Baseline.weight > 0 THEN Baseline.weight ELSE Unlimited]
  /\ lastProposed = MaxInt /\ reading = MaxInt

\* What takes part in the minimum: the proposals and the baseline, below MaxInt.
Candidates(d, p) ==
  {v \in Range(p) : v < MaxInt} \cup (IF Baseline[d] > 0 THEN {Baseline[d]} ELSE {})

\* effectiveCount, effectiveWeight: 0 stands for "no proposals".
Effective(d, p) ==
  IF Candidates(d, p) = {} THEN 0 ELSE Max({Floor[d], Min(Candidates(d, p))})

\* Stage.SetMaxWIP clamps, Stage.SetMaxWIPWeight takes what it is given.
Set(d, n) == IF d = "count" THEN Max({1, Min({n, Ceiling})}) ELSE n

Without(p, s) == Restrict(p, DOMAIN p \ {s})
With(p, s, v) == [x \in DOMAIN p \cup {s} |-> IF x = s THEN v ELSE p[x]]

Propose(d, s, v) ==
  LET p == With(proposals[d], s, v)
  IN  /\ proposals' = [proposals EXCEPT ![d] = p]
      /\ stageLimit' = [stageLimit EXCEPT ![d] = Set(d, Effective(d, p))]

\* Mutant of Withdraw: the map is updated, the stage is not.
WithdrawUnapplied(d, s) ==
  /\ proposals' = [proposals EXCEPT ![d] = Without(@, s)]
  /\ UNCHANGED stageLimit

\* The setter is called only for a positive limit.
Withdraw(d, s) ==
  LET p == Without(proposals[d], s)
      eff == Effective(d, p)
  IN  /\ proposals' = [proposals EXCEPT ![d] = p]
      /\ stageLimit' = [stageLimit EXCEPT ![d] = IF eff > 0 THEN Set(d, eff) ELSE @]

-------------------------------------------------------------------------------
(* Controllers.                                                            *)

Half(n) == (n + 1) \div 2

\* Mutant of Damped: relaxes at once and tightens by half of the gap.
DampedBackwards(target) ==
  IF lastProposed = MaxInt \/ target >= lastProposed THEN target
  ELSE lastProposed - (lastProposed - target) \div 2

\* Tighten at once, relax by a share of the gap, rounded up (relaxRate 0.5).
Damped(target) ==
  IF lastProposed = MaxInt \/ target <= lastProposed THEN target
  ELSE lastProposed + Half(target - lastProposed)

\* The callback of memctl.Watch, for one headroom reading.
MemoryCallback(target) ==
  /\ lastProposed' = Damped(target) /\ reading' = target
  /\ Propose("weight", "memory-limiter", Damped(target))

\* A handle: BudgetAllocator's callback proposes; a user's may also withdraw by Close.
CustomPropose(v) ==
  /\ Propose("weight", "custom", v)
  /\ UNCHANGED <<lastProposed, reading>>

CustomWithdraw ==
  /\ "custom" \in DOMAIN proposals["weight"]
  /\ Withdraw("weight", "custom")
  /\ UNCHANGED <<lastProposed, reading>>

LimitsStep ==
  \/ \E t \in HeadBudgets : MemoryCallback(t)
  \/ \E v \in CustomLimits : CustomPropose(v)
  \/ CustomWithdraw

-------------------------------------------------------------------------------
(* Properties.                                                             *)

\* "applies the tightest (min) per dimension to the stage" (limit_manager.go:51):
\* whatever proposes, withdraws or closes a handle, and in whatever order, the
\* stage enforces the minimum of the live proposals and the baseline.
TightestApplied ==
  \A dim \in Dims :
    LET live == Candidates(dim, proposals[dim])
    IN  live # {} => stageLimit[dim] = Set(dim, Max({Floor[dim], Min(live)}))

\* Memory pressure is applied at once and outlasts the other controllers: the
\* stage never admits more weight than the last headroom reading allows
\* (memory_limiter.go:155), however ropes and handles come and go.
PressureHolds ==
  reading # MaxInt => stageLimit["weight"] \in 0..Max({0, reading})

\* "0 if none" (limit_manager.go:69): without any weight proposal or baseline the
\* stage has no weight limit.
WeightLimitReleased ==
  Candidates("weight", proposals["weight"]) = {} => stageLimit["weight"] = Unlimited
===============================================================================
