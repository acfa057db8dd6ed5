------------------------------ MODULE Snapshots ------------------------------
(***************************************************************************)
(* Publishing from inside the program: an Observer samples the Stats of    *)
(* its stages at every tick and hands the snapshot to the callback of      *)
(* PublishOnSnapshot (snapshot.go, publish.go, adapt.go).  Stats reads one *)
(* counter after the other while the worker of the stage goes on counting  *)
(* (toc.go, instrument.go).  Each stage here has one worker and no buffer. *)
(***************************************************************************)
EXTENDS Windows

CONSTANTS
  PipelineID,
  Observed,           \* the names of the stages, as registered
  MaxItems,           \* bound: items per stage
  MaxClockSteps       \* bound: how often the wall clock is set back

ASSUME SnapshotsAssumption == Observed \in Seq(StageNames)

VARIABLES
  phase, since,       \* what each worker does, and since when
  counters,           \* [stage -> the counters that Stats reads]
  wall,               \* how far the wall clock is behind the monotonic one
  snap,               \* the snapshot being taken, NoSnapshot between ticks
  pos,                \* how many counters have been read for it
  prev                \* the baseline, NoSnapshot if there is none

stageVars == <<phase, since, counters>>
observerVars == <<wall, snap, pos, prev>>
snapshotVars == <<stageVars, observerVars>>

NoSnapshot == [at |-> -1]
\* The order in which Stats reads them.
StatsOrder == <<"submitted", "completed", "failed", "serviceNs", "idleNs", "blockedNs">>
Readings == [k \in 1..(6 * Len(Observed)) |->
               <<Observed[((k - 1) \div 6) + 1], StatsOrder[((k - 1) % 6) + 1]>>]

SnapshotsInit ==
  /\ phase = [x \in ToSet(Observed) |-> "idle"] /\ since = [x \in ToSet(Observed) |-> 0]
  /\ counters = [x \in ToSet(Observed) |-> [f \in ToSet(StatsOrder) |-> 0]]
  /\ wall = 0 /\ snap = NoSnapshot /\ pos = 0 /\ prev = NoSnapshot
------------------------------------------------------------------------------
(* The worker.  A wait and a call are charged when they end.               *)

Add(c, field, n) == [c EXCEPT ![field] = @ + n]

Charge(x, field, from, to) ==
  /\ phase[x] = from /\ phase' = [phase EXCEPT ![x] = to]
  /\ since' = [since EXCEPT ![x] = clock]
  /\ counters' = [counters EXCEPT ![x] = Add(@, field, clock - since[x])]

TakeItem(x) ==
  /\ counters[x].submitted < MaxItems
  /\ phase[x] = "idle" /\ phase' = [phase EXCEPT ![x] = "fn"]
  /\ since' = [since EXCEPT ![x] = clock]
  /\ counters' = [counters EXCEPT ![x] = Add(Add(@, "submitted", 1), "idleNs", clock - since[x])]

FnReturns(x) == \E to \in {"completed", "failing"} : Charge(x, "serviceNs", "fn", to)

Count(x, field, from, to) ==
  /\ phase[x] = from /\ phase' = [phase EXCEPT ![x] = to]
  /\ since' = [since EXCEPT ![x] = clock]
  /\ counters' = [counters EXCEPT ![x] = Add(@, field, 1)]

\* completed counts every item, failed those of them that failed, a step later.
\* The wait to send is timed from there: what the counting took is not charged.
CountItem(x) ==
  \/ Count(x, "completed", "completed", "send")
  \/ Count(x, "completed", "failing", "failed")
  \/ Count(x, "failed", "failed", "send")

Emit(x) == Charge(x, "blockedNs", "send", "idle")

WorkerStep ==
  /\ \E x \in ToSet(Observed) : TakeItem(x) \/ FnReturns(x) \/ CountItem(x) \/ Emit(x)
  /\ UNCHANGED <<observerVars, transportVars, windowVars, clock>>
------------------------------------------------------------------------------
(* The observer.                                                           *)

SetClockBack ==
  /\ wall < MaxClockSteps /\ wall' = wall + 1
  /\ UNCHANGED <<stageVars, snap, pos, prev, transportVars, windowVars, clock>>

BeginSnapshot ==
  /\ snap = NoSnapshot
  /\ snap' = [at |-> clock, unixNano |-> clock - wall,
              stats |-> [x \in ToSet(Observed) |-> [f \in ToSet(StatsOrder) |-> 0]]]
  /\ pos' = 0
  /\ UNCHANGED <<stageVars, wall, prev, transportVars, windowVars, clock>>

ReadCounter ==
  /\ snap # NoSnapshot /\ pos < Len(Readings)
  /\ pos' = pos + 1
  /\ LET x == Readings[pos + 1][1]
         f == Readings[pos + 1][2]
     IN  snap' = [snap EXCEPT !.stats[x][f] = counters[x][f]]
  /\ UNCHANGED <<stageVars, wall, prev, transportVars, windowVars, clock>>

\* One worker is active throughout, and there is no buffer to hold a queue.
Adapt(name, old, new, elapsed) ==
  [stage |-> name, mask |-> Optional,
   busy |-> SafeDelta(old.serviceNs, new.serviceNs), idle |-> SafeDelta(old.idleNs, new.idleNs),
   blocked |-> SafeDelta(old.blockedNs, new.blockedNs), capacity |-> ((1 + 1) * elapsed) \div 2,
   arrivals |-> SafeDelta(old.submitted, new.submitted),
   completions |-> SafeDelta(old.completed, new.completed),
   failures |-> SafeDelta(old.failed, new.failed), queueDepth |-> 0, workers |-> 1]

Window(old, new) ==
  [pipeline |-> PipelineID, timestamp |-> new.unixNano, duration |-> new.at - old.at,
   observations |-> [k \in DOMAIN Observed |->
      Adapt(Observed[k], old.stats[Observed[k]], new.stats[Observed[k]], new.at - old.at)]]

\* An observer's stages and pipeline are frozen: of the resets only these remain.
NeedsBaseline == prev = NoSnapshot \/ snap.unixNano <= prev.unixNano

\* Mutant of NextBaseline: the baseline stays where it is after a window.
NextBaselineKept == IF NeedsBaseline THEN snap ELSE prev

\* The baseline moves whether or not the window gets published.
NextBaseline == IF IsInjective(Observed) THEN snap ELSE NoSnapshot

Completed(s) == [x \in DOMAIN s.stats |-> s.stats[x].completed]

PublishOnSnapshot ==
  /\ snap # NoSnapshot /\ pos = Len(Readings)
  /\ snap' = NoSnapshot /\ pos' = 0 /\ prev' = NextBaseline
  /\ IF NeedsBaseline \/ ~IsInjective(Observed)
     THEN UNCHANGED transportVars /\ KeepAccounts(<<>>, Completed(snap))
     ELSE /\ PublishObservations(Window(prev, snap))
          /\ KeepAccounts(Window(prev, snap).observations, Completed(snap))
  /\ UNCHANGED <<stageVars, wall, clock>>

ObserverStep == BeginSnapshot \/ ReadCounter \/ PublishOnSnapshot \/ SetClockBack
==============================================================================
