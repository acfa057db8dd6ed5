------------------------------ MODULE Rebalancer ------------------------------
(***************************************************************************)
(* The rebalancer (analyze/rebalancer.go): a tick takes a worker from one  *)
(* stage and gives it to the constraint, and after a cooldown a later tick *)
(* may undo the move.  Which stage is the constraint is an input: the code *)
(* takes it from a function it is given, usually the analyzer's last       *)
(* diagnosis, and nothing here depends on how that was reached.            *)
(*                                                                         *)
(* Of a stage it knows only Stats().ActiveWorkers, which counts cancelled  *)
(* workers until they exit, and SetWorkers (toc.go), modelled here by its  *)
(* handles: workers[s] lists them oldest first, TRUE when cancelled.       *)
(***************************************************************************)
EXTENDS Analyzer, SequencesExt

CONSTANTS
  Donors, Receivers,     \* Policy.DonateOK, Policy.ReceiveOK
  MinWorkers, MaxWorkers,\* per stage: Policy.Min, Policy.Max (0: no maximum)
  StartWorkers,          \* workers every stage starts with
  Cooldown,              \* cooldownIntervals
  Stoppable,             \* stages that may shut down
  MaxHandles             \* bound: worker handles that a stage may have at a time

ASSUME RebalancerAssumption ==
  /\ Donors \cup Receivers \cup Stoppable \subseteq Stages
  /\ {StartWorkers, Cooldown} \subseteq Nat \ {0} /\ MaxHandles \in Nat
  /\ MinWorkers \in [Stages -> Nat \ {0}] /\ MaxWorkers \in [Stages -> Nat]
  /\ \A s \in Stages : /\ MinWorkers[s] <= StartWorkers
                       /\ MaxWorkers[s] = 0 \/ StartWorkers <= MaxWorkers[s]

VARIABLES
  workers, target, stopping,     \* the stages
  enabled,
  pc,                            \* where tick is; "idle" between ticks
  move,                          \* the move being made, then Rebalancer.pending
  left,                          \* pending.intervalsRemaining
  seen,                          \* the ActiveWorkers that revert has read
  punctual                       \* history, for the properties: has no move and
                                 \* no reversal begun with a worker on its way out?

poolVars == <<workers, target, stopping>>
rebalancerVars == <<poolVars, enabled, pc, move, left, seen, punctual>>

NoMove == [donor |-> NoStage, receiver |-> NoStage, donorActive |-> 0, receiverActive |-> 0]

RebalancerInit ==
  /\ workers = [s \in Stages |-> [k \in 1..StartWorkers |-> FALSE]]
  /\ target = [s \in Stages |-> StartWorkers]
  /\ stopping = {} /\ enabled = TRUE
  /\ pc = "idle" /\ move = NoMove /\ left = 0 /\ seen = 0
  /\ punctual = TRUE

-------------------------------------------------------------------------------
(* The stages.                                                             *)

ActiveWorkers(s) == Len(workers[s])
Draining == {s \in Stages : TRUE \in Range(workers[s])}

\* Exited handles are compacted away before anyone counts them.
Exit(s) ==
  /\ \E k \in DOMAIN workers[s] :
       /\ workers[s][k] \/ s \in stopping
       /\ workers' = [workers EXCEPT ![s] = RemoveAt(@, k)]
  /\ UNCHANGED <<target, stopping, enabled, pc, move, left, seen, punctual>>

Stop(s) ==
  /\ stopping' = stopping \cup {s}
  /\ UNCHANGED <<workers, target, enabled, pc, move, left, seen, punctual>>

\* SetWorkers on a stage that is not stopping: the cancelled count as live, and
\* the newest are cancelled first, whether they were before or not.  The bound
\* MaxHandles limits the wish.
Applied(s, wish) ==
  LET n == Max({wish, 1})
      old == workers[s]
  IN  /\ n <= MaxHandles
      /\ target' = [target EXCEPT ![s] = n]
      /\ workers' = [workers EXCEPT ![s] =
           [k \in 1..Max({n, Len(old)}) |-> k \in DOMAIN old /\ (k > n \/ old[k])]]
      /\ UNCHANGED stopping

Refused(s) == s \in stopping /\ UNCHANGED poolVars
SetWorkers(s, wish) == (s \notin stopping /\ Applied(s, wish)) \/ Refused(s)

-------------------------------------------------------------------------------
(* tick.                                                                   *)

\* Enable, Disable, and a kill switch found on, which disables.
Toggle(on) ==
  /\ enabled' = on
  /\ UNCHANGED <<poolVars, pc, move, left, seen, punctual>>

TickBegins == pc = "idle" /\ enabled

\* A move or its reversal begins: history notes whether anyone is on its way out.
NoteDraining == punctual' = (punctual /\ Draining = {})

\* A tick of the cooldown; the last one judges the move, by a throughput that
\* is an input, and either keeps it or starts to undo it.
CoolDown ==
  /\ TickBegins /\ move # NoMove
  /\ left' = left - 1
  /\ \/ left' > 0 /\ UNCHANGED <<pc, move, punctual>>
     \/ left' <= 0 /\ pc' = "idle" /\ move' = NoMove /\ UNCHANGED punctual
     \/ left' <= 0 /\ pc' = "revertDonor" /\ NoteDraining /\ UNCHANGED move
  /\ UNCHANGED <<poolVars, enabled, seen>>

\* Mutant of MayReceive: a stage at its maximum may still receive.
MayReceiveAtMax(s) == s \in Receivers /\ (MaxWorkers[s] > 0 => ActiveWorkers(s) <= MaxWorkers[s])

MayReceive(s) == s \in Receivers /\ (MaxWorkers[s] > 0 => ActiveWorkers(s) < MaxWorkers[s])
\* Mutant of MayDonate: a stage at its minimum may still donate.
MayDonateAtMin(s) == s \in Donors /\ ActiveWorkers(s) >= MinWorkers[s]

MayDonate(s) == s \in Donors /\ ActiveWorkers(s) > MinWorkers[s]

\* The receiver c is the constraint that is identified; of the donors the code takes the
\* one of lowest utilization, here any.  The checks read one stage after the
\* other, but counts only fall meanwhile, so they hold together when the donor
\* chosen is read, and that is the moment of this step.
Decide ==
  /\ TickBegins /\ move = NoMove
  /\ \E c \in Stages : \E d \in Stages \ {c} :
       /\ MayReceive(c) /\ MayDonate(d)
       /\ move' = [NoMove EXCEPT !.donor = d, !.receiver = c]
  /\ pc' = "read" /\ NoteDraining
  /\ UNCHANGED <<poolVars, enabled, left, seen>>

\* The statistics are read again, the receiver's and then the donor's; workers
\* may have exited since the checks, and between the two.
ReadReceiver ==
  /\ pc = "read" /\ pc' = "readDonor"
  /\ move' = [move EXCEPT !.receiverActive = ActiveWorkers(move.receiver)]
  /\ UNCHANGED <<poolVars, enabled, left, seen, punctual>>

ReadDonor ==
  /\ pc = "readDonor" /\ pc' = "donate"
  /\ move' = [move EXCEPT !.donorActive = ActiveWorkers(move.donor)]
  /\ UNCHANGED <<poolVars, enabled, left, seen, punctual>>

Donate ==
  /\ pc = "donate"
  /\ SetWorkers(move.donor, move.donorActive - 1)
  /\ IF move.donor \in stopping THEN pc' = "idle" /\ move' = NoMove
                                ELSE pc' = "receive" /\ UNCHANGED move
  /\ UNCHANGED <<enabled, left, seen, punctual>>

Receive ==
  /\ pc = "receive"
  /\ SetWorkers(move.receiver, move.receiverActive + 1)
  /\ IF move.receiver \in stopping THEN pc' = "giveBack" /\ UNCHANGED left
                                   ELSE pc' = "idle" /\ left' = Cooldown
  /\ UNCHANGED <<enabled, move, seen, punctual>>

GiveBack ==
  /\ pc = "giveBack" /\ pc' = "idle" /\ move' = NoMove
  /\ SetWorkers(move.donor, move.donorActive)
  /\ UNCHANGED <<enabled, left, seen, punctual>>

\* revert: each stage is read, then set; errors are ignored.
RevertRead(from, to, s) ==
  /\ pc = from /\ pc' = to /\ seen' = ActiveWorkers(s)
  /\ UNCHANGED <<poolVars, enabled, move, left, punctual>>

RevertDonor ==
  /\ pc = "raiseDonor" /\ pc' = "revertReceiver"
  /\ SetWorkers(move.donor, seen + 1) /\ seen' = 0
  /\ UNCHANGED <<enabled, move, left, punctual>>

\* Mutant of RevertReceiver: the worker returned to the donor is not taken away.
RevertDonorOnly ==
  /\ pc = "lowerReceiver" /\ pc' = "idle" /\ move' = NoMove /\ seen' = 0
  /\ SetWorkers(move.receiver, seen)
  /\ UNCHANGED <<enabled, left, punctual>>

RevertReceiver ==
  /\ pc = "lowerReceiver" /\ pc' = "idle" /\ move' = NoMove /\ seen' = 0
  /\ SetWorkers(move.receiver, seen - 1)
  /\ UNCHANGED <<enabled, left, punctual>>

Tick ==
  \/ CoolDown \/ Decide \/ ReadReceiver \/ ReadDonor \/ Donate \/ Receive \/ GiveBack
  \/ RevertRead("revertDonor", "raiseDonor", move.donor) \/ RevertDonor
  \/ RevertRead("revertReceiver", "lowerReceiver", move.receiver) \/ RevertReceiver

RebalancerNext ==
  \/ Tick
  \/ \E s \in Stages : Exit(s)
  \/ \E s \in Stoppable : Stop(s)
  \/ \E on \in BOOLEAN : Toggle(on)

RebalancerSpec == RebalancerInit /\ [][RebalancerNext]_rebalancerVars

-------------------------------------------------------------------------------
(* Properties.                                                             *)

\* WorkerPolicy's "minimum workers" and "maximum workers"
\* (analyze/rebalancer.go:22-23): no move, refused move or undone move leaves a
\* stage with a target outside them, provided that cancelled workers were gone
\* whenever a move or a reversal began.  The code does not wait for that, and
\* without it a revert overshoots the maximum and a move the minimum.
WithinPolicy ==
  punctual =>
    \A s \in Stages :
      /\ MinWorkers[s] <= target[s]
      /\ MaxWorkers[s] > 0 => target[s] <= MaxWorkers[s]

\* Whoever is on its way out, and whatever exits between the check and the two
\* readings, a move (not a reversal) never sets its receiver above the maximum
\* (analyze/rebalancer.go:209, 259, 270).
MovesRespectMax ==
  [][pc = "receive" /\ MaxWorkers[move.receiver] > 0
       => UNCHANGED target \/ target'[move.receiver] <= MaxWorkers[move.receiver]]_rebalancerVars

\* Workers are moved between stages (analyze/rebalancer.go:46).  However late the
\* cancelled exit, no stage is left without a worker that stays unless it shuts
\* down; and between ticks, while no stage has shut down, no fewer stay than
\* there were at the start, and no more if moves and reversals were punctual.
Staying(s) == Cardinality({k \in DOMAIN workers[s] : ~workers[s][k]})
AllStaying == MapThenSumSet(Staying, Stages)
WorkersConserved ==
  /\ \A s \in Stages \ stopping : Staying(s) > 0
  /\ pc = "idle" /\ stopping = {} =>
       /\ AllStaying >= Cardinality(Stages) * StartWorkers
       /\ punctual => AllStaying = Cardinality(Stages) * StartWorkers
===============================================================================
