----------------------------- MODULE RopeSupervisor -----------------------------
(***************************************************************************)
(* RopeSupervisor (rope_supervisor.go), the ropes it starts                *)
(* (RopeController.runLoop, rope_controller.go) and the limits they share  *)
(* with the other controllers.                                             *)
(*                                                                         *)
(* Clients publish the drum they want and then post a wake-up, in two      *)
(* steps.  One worker goroutine reconciles: it blocks while a rope stops   *)
(* and during a backoff, and looks at the wish again afterwards.  A rope   *)
(* proposes at its ticks and withdraws, in two steps, when it exits.       *)
(***************************************************************************)
EXTENDS Limits

CONSTANTS
  Drums,          \* drums of the resolver
  BadDrum,        \* a name it does not know
  NoDrum,         \* the empty name: nothing wanted, nothing active
  Clients,        \* goroutines that publish wishes
  WeightMode,     \* weight ropes or count ropes
  RopeLimits,     \* limits a rope may compute for the control stage
  MaxDisturbances,\* bound: SetIdentified and ClearDesired calls and ropes that exit by
                  \* themselves; each leads to one start at most
  MaxFailedStarts \* bound: calls of Start that fail

ASSUME SupervisorAssumption ==
  /\ BadDrum \notin Drums /\ NoDrum \notin Drums \cup {BadDrum}
  /\ WeightMode \in BOOLEAN /\ MaxDisturbances \in Nat
  /\ RopeLimits \subseteq 1..(MaxInt - 1)   \* ctrlLimit is at least 1

VARIABLES
  desired,        \* the drum wanted, NoDrum when none is identified
  wake,           \* a wake-up is buffered
  stopCh,         \* Stop was called
  client,         \* [client -> it has published and not yet woken the worker]
  disturbances, failures,      \* what is left of the bounds
  pc,             \* the worker
  d,              \* the wish it acts on
  active, currentDrum, backoff,
  status,         \* the drum of the published status, NoDrum when inactive
  rope,           \* [rope -> [st, drum, canceled]]
  watched,        \* ropes whose watcher has not signalled yet
  gaveUp          \* the last attempt to serve the wish failed in Start

clientVars == <<desired, client>>
workerVars == <<pc, d, active, currentDrum, backoff, status, gaveUp>>
supervisorVars == <<desired, wake, stopCh, client, disturbances, failures, pc, d, active,
                    currentDrum, backoff, status, rope, watched, gaveUp>>
ropeSystemVars == <<limitVars, supervisorVars>>

Ropes == 1..MaxDisturbances
NoRope == 0

RopeDim == IF WeightMode THEN "weight" ELSE "count"

SupervisorInit ==
  /\ LimitsInit
  /\ desired = NoDrum /\ wake = FALSE /\ stopCh = FALSE
  /\ client = [c \in Clients |-> FALSE]
  /\ disturbances = MaxDisturbances /\ failures = MaxFailedStarts
  /\ pc = "select" /\ d = NoDrum
  /\ active = NoRope /\ currentDrum = NoDrum /\ backoff = FALSE /\ status = NoDrum
  /\ rope = [r \in Ropes |-> [st |-> "unused", drum |-> NoDrum, canceled |-> FALSE]]
  /\ watched = {} /\ gaveUp = FALSE

Exited(r) == rope[r].st = "exited"

-------------------------------------------------------------------------------
(* Clients.                                                                *)

\* SetIdentified or ClearDesired: the wish is stored first.
Publish(c) ==
  /\ ~client[c] /\ disturbances > 0
  /\ desired' \in Drums \cup {BadDrum, NoDrum}
  /\ client' = [client EXCEPT ![c] = TRUE]
  /\ disturbances' = disturbances - 1
  /\ UNCHANGED <<limitVars, wake, stopCh, failures, workerVars, rope, watched>>

\* Mutant of Wake: the channel has no buffer, so only a waiting worker is woken.
WakeUnbuffered(c) ==
  /\ client[c]
  /\ client' = [client EXCEPT ![c] = FALSE]
  /\ wake' = (wake \/ pc = "select")
  /\ UNCHANGED <<limitVars, desired, disturbances, stopCh, failures, workerVars, rope, watched>>

\* Then the wake-up, without blocking.
Wake(c) ==
  /\ client[c]
  /\ client' = [client EXCEPT ![c] = FALSE]
  /\ wake' = TRUE
  /\ UNCHANGED <<limitVars, desired, disturbances, stopCh, failures, workerVars, rope, watched>>

Stop ==
  /\ ~stopCh
  /\ stopCh' = TRUE
  /\ UNCHANGED <<limitVars, clientVars, wake, disturbances, failures, workerVars, rope, watched>>

-------------------------------------------------------------------------------
(* Ropes.                                                                  *)

ropeFrame == UNCHANGED <<clientVars, stopCh, failures, workerVars, lastProposed, reading>>

\* A tick: propose.  A canceled rope may still take one, its select is fair.
Adjust(r) ==
  /\ rope[r].st = "running"
  /\ \E v \in RopeLimits : Propose(RopeDim, "rope", v)
  /\ UNCHANGED <<rope, wake, disturbances, watched>> /\ ropeFrame

\* The loop ends because it is canceled, or the rope exits by itself.
LeaveLoop(r) ==
  /\ rope[r].st = "running"
  /\ IF rope[r].canceled THEN UNCHANGED disturbances
     ELSE disturbances > 0 /\ disturbances' = disturbances - 1
  /\ rope' = [rope EXCEPT ![r].st = "closing"]
  /\ UNCHANGED <<wake, watched, proposals, stageLimit>> /\ ropeFrame

\* Mutant of CloseCount: Close withdraws the count only.
CloseCountOnly(r) ==
  /\ rope[r].st = "closing"
  /\ Withdraw("count", "rope")
  /\ rope' = [rope EXCEPT ![r].st = "exited"]
  /\ UNCHANGED <<wake, disturbances, watched>> /\ ropeFrame

\* handle.Close: the count first, then the weight.
CloseCount(r) ==
  /\ rope[r].st = "closing"
  /\ Withdraw("count", "rope")
  /\ rope' = [rope EXCEPT ![r].st = "closed"]
  /\ UNCHANGED <<wake, disturbances, watched>> /\ ropeFrame

CloseWeight(r) ==
  /\ rope[r].st = "closed"
  /\ Withdraw("weight", "rope")
  /\ rope' = [rope EXCEPT ![r].st = "exited"]
  /\ UNCHANGED <<wake, disturbances, watched>> /\ ropeFrame

\* watchHandle: wakes the worker once, after the rope's exit.
Watch(r) ==
  /\ r \in watched /\ Exited(r)
  /\ watched' = watched \ {r}
  /\ wake' = TRUE
  /\ UNCHANGED <<rope, disturbances, proposals, stageLimit>> /\ ropeFrame

-------------------------------------------------------------------------------
(* The worker goroutine.                                                   *)

workerFrame == UNCHANGED <<limitVars, clientVars, stopCh, disturbances>>

\* run receives a wake-up; step 1 of reconcile notices a rope that has exited,
\* and lengthens the backoff unless the rope ran long enough.
Refresh ==
  /\ pc = "select" /\ wake
  /\ wake' = FALSE /\ pc' = "read"
  /\ IF active # NoRope /\ Exited(active)
     THEN /\ backoff' \in BOOLEAN
          /\ active' = NoRope /\ currentDrum' = NoDrum /\ status' = NoDrum
     ELSE UNCHANGED <<backoff, active, currentDrum, status>>
  /\ UNCHANGED <<d, gaveUp, failures, rope, watched>> /\ workerFrame

Cancel(r) == rope' = [rope EXCEPT ![r].canceled = TRUE]

\* Mutant of ReadDesired: a rope is stopped for ClearDesired, not for another drum.
ReadDesiredOverlapping ==
  /\ pc = "read"
  /\ d' = desired /\ gaveUp' = FALSE
  /\ LET settled == \/ desired = NoDrum /\ active = NoRope
                    \/ desired = currentDrum /\ active # NoRope
         stopping == desired = NoDrum /\ active # NoRope
     IN  /\ pc' = IF settled THEN "select" ELSE IF stopping THEN "stopping" ELSE "resolve"
         /\ IF stopping THEN Cancel(active) ELSE UNCHANGED rope
  /\ UNCHANGED <<active, currentDrum, backoff, status, wake, failures, watched>> /\ workerFrame

\* Steps 2 to 5: read the wish; nothing to do, stop the active rope, or go on.
ReadDesired ==
  /\ pc = "read"
  /\ d' = desired /\ gaveUp' = FALSE
  /\ LET settled == \/ desired = NoDrum /\ active = NoRope
                    \/ desired = currentDrum /\ active # NoRope
         stopping == ~settled /\ active # NoRope
     IN  /\ pc' = IF settled THEN "select" ELSE IF stopping THEN "stopping" ELSE "resolve"
         /\ IF stopping THEN Cancel(active) ELSE UNCHANGED rope
  /\ UNCHANGED <<active, currentDrum, backoff, status, wake, failures, watched>> /\ workerFrame

\* run sees stopCh; select chooses at random when a wake-up is there too.
StopSeen ==
  /\ pc = "select" /\ stopCh
  /\ IF active # NoRope
     THEN /\ Cancel(active) /\ pc' = "finalStop"
          /\ UNCHANGED status
     ELSE /\ status' = NoDrum /\ pc' = "done"
          /\ UNCHANGED rope
  /\ UNCHANGED <<d, active, currentDrum, backoff, gaveUp, wake, failures, watched>> /\ workerFrame

\* stopActive returns: the rope exited, or the wait timed out and it is left behind.
StopWaited ==
  /\ pc \in {"stopping", "finalStop"}
  /\ active' = NoRope /\ currentDrum' = NoDrum
  /\ status' = IF pc = "finalStop" \/ d = NoDrum THEN NoDrum ELSE status
  /\ pc' = IF pc = "finalStop" THEN "done" ELSE IF d = NoDrum THEN "select" ELSE "recheck"
  /\ UNCHANGED <<d, backoff, gaveUp, wake, failures, rope, watched>> /\ workerFrame

\* Mutant of GiveWay: a stale wish is dropped, the old status stays.
GiveWaySilently(next) ==
  /\ pc' = IF desired = d THEN next ELSE "select"
  /\ UNCHANGED <<status, d, active, currentDrum, backoff, gaveUp, wake, failures, rope, watched>>
  /\ workerFrame

\* The wish is read again after a wait: a stale one is dropped.
GiveWay(next) ==
  /\ IF desired = d
     THEN pc' = next /\ UNCHANGED status
     ELSE pc' = "select" /\ status' = NoDrum
  /\ UNCHANGED <<d, active, currentDrum, backoff, gaveUp, wake, failures, rope, watched>>
  /\ workerFrame

Recheck == pc = "recheck" /\ GiveWay("resolve")

\* Step 6: an unknown drum fails closed.
Resolve ==
  /\ pc = "resolve"
  /\ IF d \in Drums
     THEN /\ pc' = IF backoff THEN "backoff" ELSE "start"
          /\ UNCHANGED <<currentDrum, status>>
     ELSE pc' = "select" /\ currentDrum' = NoDrum /\ status' = NoDrum
  /\ UNCHANGED <<d, active, backoff, gaveUp, wake, failures, rope, watched>> /\ workerFrame

\* Step 7: the timer, or Stop.
BackoffOver ==
  /\ pc = "backoff"
  /\ \/ pc' = "reread" /\ UNCHANGED status
     \/ stopCh /\ pc' = "select" /\ status' = NoDrum
  /\ UNCHANGED <<d, active, currentDrum, backoff, gaveUp, wake, failures, rope, watched>>
  /\ workerFrame

Reread == pc = "reread" /\ GiveWay("start")

\* Step 8.
StartRope ==
  /\ pc = "start" /\ pc' = "select"
  /\ \/ /\ failures > 0 /\ failures' = failures - 1
        /\ currentDrum' = NoDrum /\ status' = NoDrum /\ gaveUp' = TRUE
        /\ UNCHANGED <<active, rope, watched>>
     \/ LET r == 1 + Cardinality({x \in Ropes : rope[x].st # "unused"}) IN
          /\ r \in Ropes
          /\ rope' = [rope EXCEPT ![r].st = "running", ![r].drum = d]
          /\ active' = r /\ currentDrum' = d /\ status' = d
          /\ watched' = watched \cup {r}
          /\ UNCHANGED <<failures, gaveUp>>
  /\ UNCHANGED <<d, backoff, wake>> /\ workerFrame

WorkerStep ==
  \/ Refresh \/ ReadDesired \/ StopSeen \/ StopWaited \/ Recheck
  \/ Resolve \/ BackoffOver \/ Reread \/ StartRope

RopeStep(r) == Adjust(r) \/ LeaveLoop(r) \/ CloseCount(r) \/ CloseWeight(r) \/ Watch(r)

ControllerStep == LimitsStep /\ UNCHANGED supervisorVars

SupervisorNext ==
  \/ \E c \in Clients : Publish(c) \/ Wake(c)
  \/ Stop
  \/ \E r \in Ropes : RopeStep(r)
  \/ WorkerStep
  \/ ControllerStep

SupervisorSpec == SupervisorInit /\ [][SupervisorNext]_ropeSystemVars

\* A canceled rope leaves its loop and closes its handle; a watcher and a client
\* post the wake-up they owe; the worker's timers fire.  Nobody has to publish.
CanceledLeaves(r) == rope[r].canceled /\ LeaveLoop(r)

SupervisorFairness ==
  /\ \A c \in Clients : WF_ropeSystemVars(Wake(c))
  /\ \A r \in Ropes :
        /\ WF_ropeSystemVars(CanceledLeaves(r))
        /\ WF_ropeSystemVars(CloseCount(r)) /\ WF_ropeSystemVars(CloseWeight(r))
        /\ WF_ropeSystemVars(Watch(r))
  /\ WF_ropeSystemVars(Refresh) /\ WF_ropeSystemVars(StopSeen)
  /\ WF_ropeSystemVars(ReadDesired \/ StopWaited \/ Recheck \/ Resolve \/ BackoffOver
                         \/ Reread \/ StartRope)

FairSupervisorSpec == SupervisorSpec /\ SupervisorFairness

-------------------------------------------------------------------------------
(* Properties.                                                             *)

\* "serializes transitions" (rope_supervisor.go:241): however wishes, crashes and
\* waits that time out interleave, at most one rope is not told to stop, and
\* none is left running unasked once the worker is gone.
OneDrivingRope ==
  LET driving == {r \in Ropes : rope[r].st = "running" /\ ~rope[r].canceled}
  IN  Cardinality(driving) <= 1 /\ (pc = "done" => driving = {})

\* Status (rope_supervisor.go:322): at rest it names the drum of the rope the
\* worker holds, so every early return of reconcile has published its outcome.
StatusAtRest ==
  pc \in {"select", "done"} =>
    status = (IF active = NoRope THEN NoDrum ELSE rope[active].drum)

Served ==
  IF desired \in Drums
  THEN /\ active # NoRope /\ rope[active].drum = desired
       /\ rope[active].st = "running" /\ ~rope[active].canceled
  ELSE active = NoRope

\* No wish is lost: once the clients are quiet, the last wish is served for good,
\* unless Stop was called or Start failed (which nothing retries).  The wake-up
\* holds one token, and reconcile drops a stale wish counting on another one.
DesiredServed == <>[](stopCh \/ gaveUp \/ Served)

\* Stop ends the worker, every rope leaves, and no rope keeps a proposal, even
\* one that was left behind when the wait for it timed out.
StopReleases ==
  stopCh ~> /\ pc = "done"
            /\ \A r \in Ropes : rope[r].st \in {"unused", "exited"}
            /\ \A dim \in Dims : "rope" \notin DOMAIN proposals[dim]
=================================================================================
