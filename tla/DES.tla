-------------------------------- MODULE DES --------------------------------
(***************************************************************************)
(* The discrete-event simulation behind the control experiments (sim/):    *)
(* a line of stages, a source backlog released by a rope, and a buffer in  *)
(* front of the constraint that is measured in constraint time.  Env.Step  *)
(* sets the rope and the buffer's cap, runs one interval and returns; the  *)
(* episode is over when enough items are done, time is up or too many      *)
(* items are in the system.                                                *)
(*                                                                         *)
(* Times are drawn from continuous distributions, so any pending event may *)
(* be the next one, and an interval may end before any of them.  A zero-   *)
(* time cascade (settle) is one step, as it is in the code.                *)
(***************************************************************************)
EXTENDS Integers, Sequences, FiniteSets, FiniteSetsExt

CONSTANTS
  Workers,        \* a sequence: the servers of each stage
  Constraints,    \* the stages a configuration may name as its constraint
  Cost,           \* expected constraint time of one item
  RopeRates,      \* the releases per interval a step may choose
  BufferCaps,     \* the caps a step may choose, in constraint time
  MaxSystemItems, \* safety cap, 0 for none
  MaxItems,       \* completions that end an episode, 0 for no such end
  MaxTime,        \* intervals that end an episode, 0 for no such end
  MaxArrivals     \* bound: arrivals of an episode that are explored

VARIABLES
  des,            \* the engine
  constraint,     \* the constraint's index
  running,        \* an interval is being simulated
  done            \* the episode is over

envVars == <<des, constraint, running, done>>

ValidConfig ==
  /\ Workers \in Seq(Nat \ {0}) /\ Workers # <<>>
  /\ Constraints \subseteq 1..Len(Workers)
  /\ Cost \in Nat \ {0}
  /\ RopeRates \subseteq Nat \ {0} /\ BufferCaps \subseteq Nat \ {0}
  /\ MaxItems > 0 \/ MaxTime > 0
ASSUME ConfigAssumption == ValidConfig

Stages == 1..Len(Workers)

NewDES ==
  [backlog |-> <<>>, queued |-> [s \in Stages |-> <<>>],
   pending |-> {},                       \* completions scheduled: <<stage, item>>
   inService |-> [s \in Stages |-> 0],   \* servers held, by blocked items too
   blocked |-> <<>>,                     \* finished before the constraint, oldest first
   buffer |-> <<>>, bufferTime |-> 0, bufferMaxTime |-> 0,
   ropeRate |-> 0, admissions |-> 0,
   arrivals |-> 0, completed |-> 0, intervals |-> 0,
   breached |-> FALSE, diverged |-> FALSE]

Engines ==
  [backlog : Seq(Nat), queued : [Stages -> Seq(Nat)], pending : SUBSET (Stages \X Nat),
   inService : [Stages -> Int], blocked : Seq(Nat),
   buffer : Seq(Nat), bufferTime : Int, bufferMaxTime : Nat,
   ropeRate : Nat, admissions : Nat, arrivals : Nat, completed : Nat, intervals : Nat,
   breached : BOOLEAN, diverged : BOOLEAN]

EnvInit ==
  /\ des = NewDES
  /\ constraint \in Constraints
  /\ running = FALSE /\ done = FALSE

PreConstraint == constraint - 1
FreeServers(d, s) == Workers[s] - d.inService[s]
Wip(d, s) == Len(d.queued[s]) + d.inService[s]

Least(a, b) == IF a <= b THEN a ELSE b
Rest(q, k) == SubSeq(q, k + 1, Len(q))

-----------------------------------------------------------------------------
(* The zero-time transitions, as functions from engine to engine. *)

AdmitToStage(d, s, q) == [d EXCEPT !.queued[s] = @ \o q]

\* Mutant of Starting: one item is dispatched, however many servers are free.
StartingOne(d, s) ==
  IF FreeServers(d, s) <= 0 \/ d.queued[s] = <<>> THEN 0 ELSE 1

\* How many of the items queued at s start now.
Starting(d, s) ==
  IF FreeServers(d, s) <= 0 THEN 0 ELSE Least(FreeServers(d, s), Len(d.queued[s]))

\* tryDispatch at the stages of S, which do not depend on each other.
TryDispatch(d, S) ==
  LET k == [s \in Stages |-> IF s \in S THEN Starting(d, s) ELSE 0]
  IN  [d EXCEPT !.queued = [s \in Stages |-> Rest(@[s], k[s])],
                !.inService = [s \in Stages |-> @[s] + k[s]],
                !.pending = @ \cup UNION {{<<s, d.queued[s][j]>> : j \in 1..k[s]} : s \in S}]

\* Admitting takes no server, so one free server empties the whole buffer
\* into the constraint's queue.
FeedConstraint(d) ==
  IF constraint = 1 \/ FreeServers(d, constraint) <= 0 THEN d
  ELSE AdmitToStage([d EXCEPT !.buffer = <<>>, !.bufferTime = @ - Cost * Len(d.buffer)],
                    constraint, d.buffer)

\* Mutant of Fits: the cap itself is not allowed.
FitsStrictly(d, k) == d.bufferTime + k * Cost < d.bufferMaxTime

Fits(d, k) == d.bufferTime + k * Cost <= d.bufferMaxTime

IntoBuffer(d, q) ==
  [d EXCEPT !.inService[PreConstraint] = @ - Len(q), !.buffer = @ \o q,
            !.bufferTime = @ + Cost * Len(q)]

\* Mutant of UnblockIntoBuffer: an unblocked item goes into the buffer and keeps its server.
UnblockHoldingServer(d) ==
  IF constraint = 1 \/ d.blocked = <<>> \/ ~Fits(d, 1) THEN d
  ELSE [IntoBuffer(d, <<d.blocked[1]>>)
          EXCEPT !.blocked = Rest(@, 1), !.inService = d.inService]

UnblockIntoBuffer(d) ==
  LET sizes == {k \in 1..Len(d.blocked) : Fits(d, k)}
      k == Cardinality(sizes)
  IN  IF constraint = 1 \/ k = 0 THEN d
      ELSE IntoBuffer([d EXCEPT !.blocked = Rest(@, k)], SubSeq(d.blocked, 1, k))

DrainSourceBacklog(d) ==
  LET k == Least(d.ropeRate - d.admissions, Len(d.backlog))
      e == IF k <= 0 THEN d
           ELSE AdmitToStage([d EXCEPT !.backlog = Rest(@, k), !.admissions = @ + k],
                             1, SubSeq(d.backlog, 1, k))
  IN  TryDispatch(e, {1})

\* Mutant of Lap: settling feeds and dispatches and unblocks nobody.
LapWithoutUnblock(d) == TryDispatch(FeedConstraint(d), Stages)

\* One lap of settle.
Lap(d) == TryDispatch(FeedConstraint(UnblockIntoBuffer(d)), Stages)

MaxIter == 2 * Len(Workers) + 10

\* Lap after lap until one makes no progress: the engine after settling e
\* when n laps are allowed after this one.  The code panics when the last lap
\* it allows still makes progress, and drains the backlog otherwise.
Settling ==
  LET after[n \in 0..MaxIter] == [e \in Engines |->
        IF Lap(e) = e THEN DrainSourceBacklog(e)
        ELSE IF n = 0 THEN [Lap(e) EXCEPT !.diverged = TRUE]
        ELSE after[n - 1][Lap(e)]]
  IN  after

Settle(d) == Settling[MaxIter - 1][d]

SystemItems(d) ==
  Len(d.backlog) + Len(d.buffer) + MapThenSumSet(LAMBDA s : Wip(d, s), Stages)

CheckSafety(d) ==
  IF MaxSystemItems > 0 /\ SystemItems(d) > MaxSystemItems
  THEN [d EXCEPT !.breached = TRUE] ELSE d

-----------------------------------------------------------------------------
(* Events, and the environment around them. *)

Simulating == running /\ ~des.breached /\ ~des.diverged

\* An arrival drains the backlog and does not settle the line.
HandleArrival ==
  /\ Simulating
  /\ des.arrivals < MaxArrivals
  /\ des' = CheckSafety(DrainSourceBacklog(
              [des EXCEPT !.arrivals = @ + 1, !.backlog = Append(@, des.arrivals + 1)]))
  /\ UNCHANGED <<constraint, running, done>>

ServiceEnds(s, item) ==
  LET d == [des EXCEPT !.pending = @ \ {<<s, item>>}]
  IN  CASE s = Len(Workers) ->
             [d EXCEPT !.inService[s] = @ - 1, !.completed = @ + 1]
        [] s < Len(Workers) /\ s = PreConstraint ->
             IF Fits(d, 1) THEN IntoBuffer(d, <<item>>)
             ELSE [d EXCEPT !.blocked = Append(@, item)]
        [] OTHER ->
             AdmitToStage([d EXCEPT !.inService[s] = @ - 1], s + 1, <<item>>)

HandleServiceComplete(s) ==
  /\ Simulating
  /\ \E e \in des.pending :
       /\ e[1] = s
       /\ des' = Settle(ServiceEnds(s, e[2]))
  /\ UNCHANGED <<constraint, running, done>>

\* The part of Step before the simulation runs: the action is applied and
\* the interval's accumulators are reset; nothing moves yet.
BeginStep(rope, cap) ==
  /\ ~done /\ ~running /\ ~des.diverged
  /\ des' = [des EXCEPT !.ropeRate = rope, !.bufferMaxTime = cap, !.admissions = 0]
  /\ running' = TRUE
  /\ UNCHANGED <<constraint, done>>

\* The boundary is reached and the episode's end is judged.  The count of
\* intervals is kept only where it can end the episode.
EndStep ==
  /\ running
  /\ LET t == IF MaxTime > 0 THEN des.intervals + 1 ELSE 0
     IN  /\ des' = [des EXCEPT !.intervals = t]
         /\ done' = \/ MaxItems > 0 /\ des.completed >= MaxItems
                    \/ MaxTime > 0 /\ t >= MaxTime
                    \/ des.breached
  /\ running' = FALSE
  /\ UNCHANGED constraint

\* A caller may start over at any time between two steps.
Reset ==
  /\ ~running
  /\ des' = NewDES /\ done' = FALSE
  /\ UNCHANGED <<constraint, running>>

EnvNext ==
  \/ HandleArrival
  \/ \E s \in Stages : HandleServiceComplete(s)
  \/ \E rope \in RopeRates, cap \in BufferCaps : BeginStep(rope, cap)
  \/ EndStep
  \/ Reset

\* The caller steps the environment until the episode is over, and a service
\* takes a finite time: intervals cannot go on for ever before its end.  No
\* arrival is counted on.
EnvFairness ==
  /\ WF_envVars(\E rope \in RopeRates, cap \in BufferCaps : BeginStep(rope, cap))
  /\ WF_envVars(EndStep)
  /\ \A s \in Stages : SF_envVars(HandleServiceComplete(s))

EnvSpec == EnvInit /\ [][EnvNext]_envVars /\ EnvFairness

-----------------------------------------------------------------------------
(* Properties *)

Items(q) == {q[i] : i \in DOMAIN q}
InLineWaiting(d) == Items(d.buffer) \cup Items(d.blocked) \cup UNION {Items(d.queued[s]) : s \in Stages}
InLine(i) == i \in InLineWaiting(des) \cup {e[2] : e \in des.pending}

\* The places where items wait: the queue of each stage, and three more.
Backlog == 0
Buffer == -1
Blocked == -2
Places == Blocked..Len(Workers)
At(d, p) ==
  CASE p = Backlog -> d.backlog [] p = Buffer -> d.buffer [] p = Blocked -> d.blocked
    [] OTHER -> d.queued[p]
Somewhere(d) == {e[2] : e \in d.pending} \cup UNION {Items(At(d, p)) : p \in Places}

\* No item stands twice in one place, or in two, or waits while in service.
NowhereTwice(d) ==
  /\ \A p \in Places : \A j, k \in DOMAIN At(d, p) : At(d, p)[j] = At(d, p)[k] => j = k
  /\ \A p, q \in Places : p # q => Items(At(d, p)) \cap Items(At(d, q)) = {}
  /\ \A e \in d.pending :
       /\ \A f \in d.pending : e[2] = f[2] => e = f
       /\ \A p \in Places : e[2] \notin Items(At(d, p))

\* Every item that arrived is completed or in exactly one place of the line,
\* every server held is held by one item in service or blocked after it, no
\* stage uses more servers than it has, and the buffer's time is the time of
\* the items in it (the engine's own conservation() looks at the items'
\* states only and cannot see any of this).
ItemsConserved ==
  /\ des.completed + Cardinality(Somewhere(des)) = des.arrivals
  /\ NowhereTwice(des)
  /\ \A s \in Stages :
       /\ des.inService[s] = Cardinality({e \in des.pending : e[1] = s})
                               + (IF s = PreConstraint THEN Len(des.blocked) ELSE 0)
       /\ des.inService[s] <= Workers[s]
  /\ des.bufferTime = Cost * Len(des.buffer)

\* settle reaches its fixed point within its bound, and leaves no free
\* server with work of its own before it: not at any stage, and not at the
\* constraint while the buffer holds an item.
SettledIsWorkConserving ==
  /\ ~des.diverged
  /\ \A s \in Stages : FreeServers(des, s) > 0 => des.queued[s] = <<>>
  /\ des.buffer # <<>> => FreeServers(des, constraint) = 0

=============================================================================
