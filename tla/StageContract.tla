---------------------------- MODULE StageContract ----------------------------
(***************************************************************************)
(* What a stage promises to the caller of Submit and to the reader of Out: *)
(* every Submit that returns nil yields exactly one result, a Submit that  *)
(* returns an error yields none, nothing is accepted once the input is     *)
(* sealed, and Out closes only when nothing is owed (doc.go and the        *)
(* comments of Submit, Out and start in toc.go).                           *)
(***************************************************************************)
CONSTANT Items

VARIABLES state, sealed, finished

contractVars == <<state, sealed, finished>>

ContractInit ==
  /\ state = [i \in Items |-> "open"]
  /\ sealed = FALSE
  /\ finished = FALSE

Accept(i) ==
  /\ state[i] = "open" /\ ~sealed
  /\ state' = [state EXCEPT ![i] = "accepted"]
  /\ UNCHANGED <<sealed, finished>>

Refuse(i) ==
  /\ state[i] = "open"
  /\ state' = [state EXCEPT ![i] = "refused"]
  /\ UNCHANGED <<sealed, finished>>

Deliver(i) ==
  /\ state[i] = "accepted" /\ ~finished
  /\ state' = [state EXCEPT ![i] = "delivered"]
  /\ UNCHANGED <<sealed, finished>>

Seal == ~sealed /\ sealed' = TRUE /\ UNCHANGED <<state, finished>>

Finish ==
  /\ sealed /\ ~finished
  /\ \A i \in Items : state[i] # "accepted"
  /\ finished' = TRUE
  /\ UNCHANGED <<state, sealed>>

ContractNext ==
  \/ \E i \in Items : Accept(i) \/ Refuse(i) \/ Deliver(i)
  \/ Seal
  \/ Finish

ContractSpec == ContractInit /\ [][ContractNext]_contractVars
==============================================================================
