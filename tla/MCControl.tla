------------------------------ MODULE MCControl ------------------------------
(* The analyzer and the rebalancer, each on its own, for TLC: a behaviour   *)
(* is of one of them, and the other stays as it was.  In a window a stage   *)
(* is saturated with an empty queue, or idle with an item queued (starved,  *)
(* unless that is growth).                                                  *)
EXTENDS Rebalancer, TLC

CONSTANTS A, B, C

MCMin == (A :> 1) @@ (B :> 1) @@ (C :> 2)
MCMax == (A :> 2) @@ (B :> 0) @@ (C :> 3)

Sample(util, idle, depth) ==
  [util |-> util, idle |-> idle, blocked |-> 0, error |-> 0, depth |-> depth]
MCSamples == {Sample(90, 5, 0), Sample(20, 60, 1)}

VARIABLE side

MCInit == AnalyzerInit /\ RebalancerInit /\ side \in {"analyzer", "rebalancer"}

MCNext ==
  /\ UNCHANGED side
  /\ \/ side = "analyzer" /\ AnalyzerNext /\ UNCHANGED rebalancerVars
     \/ side = "rebalancer" /\ RebalancerNext /\ UNCHANGED analyzerVars

MCSpec == MCInit /\ [][MCNext]_<<analyzerVars, rebalancerVars, side>>
===============================================================================
