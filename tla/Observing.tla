------------------------------ MODULE Observing ------------------------------
(***************************************************************************)
(* Telling another process: an observer, the polling adapter or a program  *)
(* by itself publishes, one of them in each behaviour, and a subscription, *)
(* if there is one, receives while it may be closed or cancelled.          *)
(***************************************************************************)
EXTENDS Snapshots, Polling

CONSTANTS
  Publishers,         \* which of "observer", "adapter", "program" are tried
  Subscribing,        \* those of them that somebody subscribes to
  Batches, Diagnoses  \* what the program publishes

\* A program publishes what an observer or an analyzer gives it, an analyzer that
\* demotes its incumbent before the unsupported count outgrows 32 bits.  What
\* other clients send to the same subjects is not to be had by the handlers.
ASSUME ObservingAssumption ==
  /\ \A b \in Batches : IsBatch(b)
  /\ \A d \in Diagnoses : d \in SoundDiagnoses(NamesIn(d)) /\ d.unsupported \in Counts
  /\ \A m \in ForeignMessages :
       /\ m.subject[1] = "observe" => DecodedBatchOf(m) = Refused
       /\ m.subject[1] = "diagnose" => DecodedDiagnosisOf(m) = Refused

VARIABLE publisher

observingVars == <<publisher, clock, transportVars, windowVars, snapshotVars, pollingVars>>

ObservingInit ==
  /\ publisher \in Publishers
  /\ TransportInit /\ (publisher \notin Subscribing => infix = "observe")
  /\ WindowsInit /\ SnapshotsInit /\ PollingInit

\* A program calls the publisher with batches of its own, or with what its
\* analyzer emits; what nobody subscribes to is not told.
Tell ==
  /\ \/ infix = "observe" /\ \E b \in Batches : PublishObservations(b)
     \/ infix = "diagnose" /\ \E d \in Diagnoses :
          PublishDiagnosis([pipeline |-> PipelineID, timestamp |-> Len(sent), diagnosis |-> d])
  /\ UNCHANGED <<clock, windowVars>>

ObservingNext ==
  /\ UNCHANGED publisher
  /\ \/ publisher = "observer" /\ (WorkerStep \/ ObserverStep) /\ UNCHANGED pollingVars
     \/ publisher = "adapter" /\ PollingStep /\ UNCHANGED snapshotVars
     \/ publisher = "program" /\ Tell /\ UNCHANGED <<snapshotVars, pollingVars>>
     \/ publisher # "program" /\ Pass /\ UNCHANGED <<snapshotVars, pollingVars>>
     \/ publisher \in Subscribing /\ SubscriptionStep
        /\ UNCHANGED <<clock, windowVars, snapshotVars, pollingVars>>

ObservingSpec == ObservingInit /\ [][ObservingNext]_observingVars
FairObservingSpec == ObservingSpec /\ TransportFairness
------------------------------------------------------------------------------
(* What the handlers are given is what was published, in its order, each   *)
(* at most once, converted there and back, under its own pipeline (handler *)
(* contract, src/transport.go:79-89); and what the windows tell adds up.   *)
HeardWasSent ==
  \E place \in [DOMAIN heard -> DOMAIN sent] :
    /\ \A k \in DOMAIN heard : heard[k] = sent[place[k]]
    /\ \A j, k \in DOMAIN heard : j < k => place[j] < place[k]
HeardAddsUp == HeardWasSent /\ WindowsAddUp

(* The conversion loses nothing but the upper half of a count beyond 32    *)
(* bits and refuses exactly what breaks an invariant, at the limits of the *)
(* unsigned sum included (tocpb/convert.go 55-137, 203-218, 251-315).      *)
ConversionsAreFaithful == ObservingInit => ObservationsSurvive /\ DiagnosesSurvive

(* A window that the observer has published can be read by subscribers:    *)
(* busy, idle and blocked time fit in the capacity and failures are        *)
(* completions (core/core.go:46, 51).                                      *)
EveryWindowConverts ==
  publisher = "observer" =>
    \A k \in DOMAIN sent : BatchFromProto(BatchToProto(sent[k])) # Refused
==============================================================================
