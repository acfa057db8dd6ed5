------------------------------ MODULE MCStage ------------------------------
(* Instances of Stage for TLC.                                             *)
EXTENDS Stage, TLC

CONSTANTS a, b, c, none

TwoItems == {a, b}
ThreeItems == {a, b, c}
TwoUnits == [i \in TwoItems |-> 1]
MixedTwo == (a :> 1) @@ (b :> 2)
HeavyFirst == (a :> 1) @@ (b :> 2) @@ (c :> 1)
=============================================================================
