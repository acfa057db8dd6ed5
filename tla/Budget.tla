--------------------------------- MODULE Budget ---------------------------------
(***************************************************************************)
(* The arithmetic of BudgetAllocator (budget_allocator.go): the share of   *)
(* each stage and the weight it is allowed of a headroom reading.          *)
(* A fraction is a pair <<numerator, denominator>>; the code's floating    *)
(* point rounding is not modelled, its floors are.                         *)
(***************************************************************************)
EXTENDS Integers, Sequences, FiniteSetsExt

\* The drum of a graph that has none.
NoDrumName == ""

\* Mutant of ComputeShares: the rest is divided by the number of all stages.
ComputeSharesOfAll(names, drum, constraintShare) ==
  [i \in DOMAIN names |->
     IF drum # NoDrumName /\ names[i] = drum THEN constraintShare
     ELSE <<constraintShare[2] - constraintShare[1], constraintShare[2] * Len(names)>>]

ComputeShares(names, drum, constraintShare) ==
  LET n == Len(names)
      rest == <<constraintShare[2] - constraintShare[1], constraintShare[2] * (n - 1)>>
  IN  [i \in DOMAIN names |-> IF drum = NoDrumName \/ n = 1 THEN <<1, n>>
                              ELSE IF names[i] = drum THEN constraintShare ELSE rest]

TotalBudget(headroom, fraction) ==
  LET b == (headroom * fraction[1]) \div fraction[2] IN IF b < 0 THEN 0 ELSE b

\* What one callback proposes for each stage.
Allocations(names, drum, fraction, constraintShare, headroom) ==
  LET shares == ComputeShares(names, drum, constraintShare)
  IN  [i \in DOMAIN names |->
         (TotalBudget(headroom, fraction) * shares[i][1]) \div shares[i][2]]

\* "distributes available memory budget across pipeline stages"
\* (budget_allocator.go:37): the stages together are never allowed more than
\* the budget, and the floors lose less than one unit per stage.  This takes a
\* drum that is one of the stages: with another name every stage gets the share
\* of a stage that is not the drum, and together they may exceed the budget.
AllocationsFit(names, drum, fraction, constraintShare, headroom) ==
  LET budget == TotalBudget(headroom, fraction)
      each   == Allocations(names, drum, fraction, constraintShare, headroom)
      given  == MapThenSumSet(LAMBDA i : each[i], DOMAIN names)
  IN  given <= budget /\ given > budget - Len(names)
=================================================================================
