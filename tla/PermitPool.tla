------------------------------ MODULE PermitPool ------------------------------
(***************************************************************************)
(* What admission control promises, without queues, weights or policies: a *)
(* pool of slots with an adjustable limit that can be paused and, once and *)
(* for all, closed.  Options.MaxWIP (toc.go:107-112), PauseAdmission       *)
(* (toc.go:1215-1217) and the linearization point of CloseInput            *)
(* (toc.go:828-833) are the sources of the promise.                        *)
(***************************************************************************)
EXTENDS Integers, FiniteSets

CONSTANT Items

VARIABLES holders, limit, paused, closed

poolVars == <<holders, limit, paused, closed>>

PoolInit ==
  /\ holders = {}
  /\ limit \in Nat \ {0}
  /\ paused = FALSE
  /\ closed = FALSE

\* Slots are handed out, possibly when one comes back or a control changes,
\* only while the pool is open and running and never beyond the limit.
HandOut ==
  /\ ~closed /\ ~paused'
  /\ UNCHANGED closed
  /\ \E i \in Items : holders \ {i} \subseteq holders'
  /\ holders' \subseteq Items
  /\ Cardinality(holders') <= limit'
  /\ limit' \in Nat \ {0}

\* One slot comes back and nobody is served.
TakeBack ==
  /\ \E i \in holders : holders' = holders \ {i}
  /\ UNCHANGED <<limit, paused, closed>>

\* A control changes and nobody is served.
Control ==
  /\ UNCHANGED holders
  /\ limit' \in Nat \ {0}
  /\ paused' \in BOOLEAN
  /\ closed' \in {closed, TRUE}

PoolNext == HandOut \/ TakeBack \/ Control

PoolSpec == PoolInit /\ [][PoolNext]_poolVars
==============================================================================
