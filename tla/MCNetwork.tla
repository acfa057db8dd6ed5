------------------------------- MODULE MCNetwork -------------------------------
(* Instance of Network for TLC: a value from FromChan and an error that    *)
(* the Pipe forwards, in any interleaving, or two results from the Pipe.   *)
EXTENDS Network, TLC

CONSTANTS a, b, e

MCInputs == {<<<<a>>, <<Err(e)>>>>, <<<<>>, <<Ok(a), Ok(b)>>>>, <<<<>>, <<Ok(b), Err(e)>>>>}
MCWeightFn == (a :> 1) @@ (b :> 2) @@ (e :> 0)
================================================================================
