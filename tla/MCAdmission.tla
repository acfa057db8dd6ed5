---------------------------- MODULE MCAdmission ----------------------------
(* Instance of Admission for TLC: four Submit calls, one of them weightless,*)
(* one heavier than the weight limit that the stage starts with.           *)
EXTENDS Admission, TLC

CONSTANTS a, b, c, d

MCItems == {a, b, c, d}
MCWeight == (a :> 1) @@ (b :> 0) @@ (c :> 2) @@ (d :> 3)
=============================================================================
