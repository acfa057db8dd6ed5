# Verification of toc

TLA+ models of [toc](../src/README.md), a Go library of pipeline stages with
admission control, dynamic scaling and controllers in the spirit of the Theory
of Constraints; their checks with TLC; and proofs with TLAPS. Paths of the form
`toc.go:618` are relative to the repository's root.

1. [Inventory](#1-inventory)
2. [Modules and the code](#2-modules-and-the-code)
3. [What the runs check](#3-what-the-runs-check)
4. [Bounds](#4-bounds)
5. [Fairness](#5-fairness)
6. [What is proved](#6-what-is-proved)
7. [Where code and documentation disagree](#7-where-code-and-documentation-disagree)
8. [What is not modelled](#8-what-is-not-modelled)
9. [Plan](#9-plan)

## 1. Inventory

### The data path

**Stage (`toc.go`)** is the core. `Start` makes a buffered input channel, an
unbuffered output channel, a set of worker goroutines and one goroutine that
waits for them. It falls into two parts with a lock each.

*Admission control* (`admissionMu`). State: the count and weight of the slots in
use (`admitted`, `admittedWeight`), the two limits (`maxWIP`, `maxWIPWeight`,
negative for none), `paused`, `closedForAdmission`, and a FIFO list of waiters,
each with a channel closed when it is granted and with an oversize exemption
decided when it arrived. Operations: `acquireAdmission` (fast path or queue),
`revokeOrHonor` (a waiter that gives up), `releaseAdmission`,
`grantWaitersLocked` (the loop that every change runs before it unlocks),
`SetMaxWIP`, `SetMaxWIPWeight`, `DisableMaxWIPWeight`, `PauseAdmission`,
`ResumeAdmission`, and closing. Hard: a grant races with the waiter's context;
the oversize decision is taken early and used late; a heavy head blocks light
waiters; limits move under the queue. It is correct if slots are never lost or
handed out beyond the limits in force, the queue is served in order, and no
admissible waiter sleeps.

*Life cycle* (`mu`, `workersMu`, `closingMu`, `errMu` and atomics). State: the
`closed`/`closing` flags, the senders that `CloseInput` waits for, the channel,
the workers' handles with a retire context each, the stage context, the first
error, the terminal cause. Operations: `Submit`, `trySend`, `worker`,
`processItem`, `CloseInput`, `SetWorkers`, cancellation of the parent, and
completion. Hard: a `Submit` that was admitted and loses against close or
cancel; the close of a channel that others send on; fail-fast from inside a
worker; scale-up after scale-down; latching the cause exactly once. It is
correct if each accepted item yields one result and each refused item none,
nothing is left behind, and shutdown ends.

**Operators (`tee.go`, `merge.go`, `join.go`, `batcher.go`,
`weighted_batcher.go`, `fromchan.go`)** are goroutines between unbuffered
channels. They keep a small buffer, counters and a latched context error.
They interact only through channels and share a context. The *source ownership
rule* binds them: whatever happens downstream, drain the source, or the
goroutine upstream leaks. Hard: cancellation between a receive and a send,
partial delivery to some branches, the final flush, a diamond whose two arms
wait for each other. Correct if nothing is lost or repeated without being
counted and reported, order is kept, and everything ends.

**Pipe (`toc.go:556`)** puts a feeder goroutine between a channel and a stage.
It submits values and sends errors straight to the output, past the workers.
Hard: the stage fails or is cancelled while the feeder stands in a Submit or a
send. Correct if what it read is submitted, forwarded or dropped, dropped only by
a stage that is done, and the output closes after feeder and workers.

**Pipeline (`pipeline.go`)** is a graph of named stages: `AddStage`, `AddEdge`,
`Freeze` (acyclicity), and queries used by the controllers. It is built first
and only read afterwards. Correct if `Freeze` accepts exactly the acyclic graphs
and the queries return what the edges say.

### Controllers of one pipeline

**LimitManager (`limit_manager.go`)**. State: proposals per source and dimension,
a baseline, the last applied limits. Operations: propose, withdraw, close a
handle (two withdrawals), each of which recomputes the minimum and calls the
stage's setter under the manager's lock. Hard: several controllers share one
stage. Correct if the limit in force is always the tightest live proposal.

**MemoryLimiter (`memory_limiter.go`)** turns headroom readings into weight
proposals, tightening at once and relaxing gradually.
**BudgetAllocator (`budget_allocator.go`)** shares one budget among stages.
**RopeController (`rope_controller.go`)** measures the work in progress between
the head and the drum at every tick and proposes a limit for the head.
**RopeSupervisor (`rope_supervisor.go`)** runs at most one rope, for the drum
that clients wish. State: the wish, a buffered wake-up, the active rope, a
backoff, a published status. Hard: a wish that changes while the worker waits,
a rope that outlives the wait for it, failing starts and crashes, Stop in the
middle. Correct if one rope drives, no wish is lost, and nothing stays behind.

### Observation and decision

**Observer (`snapshot.go`) and PublishOnSnapshot (`publish.go`, `adapt.go`)**.
State: a baseline, the last snapshot. At every tick `Stats` of each stage is
read counter by counter while its workers go on, and the difference to the
baseline becomes a window. Hard: counters that move between two reads, time that
is charged when a wait ends, a wall clock set back. Correct if the windows follow
on each other and a receiver can read them.

**Polling adapter and DeltaTracker (`internal/adapter/`)**. State: per stage the
last metrics, their time and how often the stage was missed. A poll cycle asks
every source, computes differences and publishes. Hard: sources that fail,
answer in part or restart. Correct if no completion is told twice and none is
left out but before a baseline.

**NATS transport (`natstransport/`)** publishes and subscribes. State of a
subscription: the gate (`closing`, callbacks in flight, `done`), a context, a
watcher. Hard: Close, a second Close, the context's end and the last callback
meet. Correct if nothing runs after Close and Close returns.
**Protobuf conversion (`tocpb/convert.go`)** refuses what breaks an invariant
and keeps the rest.

**Reporter (`reporter.go`)** logs, **sampler (`sampler.go`)** keeps histograms.

**Analyzer (`core/analyzer.go`)**. State: previous queue depths, a manual drum,
the incumbent constraint with its support, a challenger with its count. One
`Step` per window. Hard: ties, gaps, empty windows and overrides between the
windows of a streak. Correct if the constraint changes only on the documented
evidence and every diagnosis is consistent.

**Rebalancer (`analyze/rebalancer.go`)** moves one worker towards the constraint
per tick and may undo the move after a cooldown. It reads `Stats()` and calls
`SetWorkers` of stages that go on living between two calls. Correct if stages
stay within their policy and workers are neither made nor lost.

**Simulator (`sim/des.go`, `sim/env.go`)** is a discrete event simulation of a
line with drum-buffer-rope, advanced interval by interval by an environment that
chooses rope and buffer. Hard: the zero-time cascade after each completion, and
servers blocked before a full buffer. Correct if items and servers are conserved
and no server idles with work before it.

**Interval arithmetic, focusing, scaling history (`interval.go`,
`focusing.go`, `scaling_history.go`)** are pure computations. Commands, examples
and generated code add no behaviour of their own.

`PROJECT.json` lists the components with their status, and under "hazards" each
place where this code can go wrong in a way a test would hardly reach, with the
properties that watch it.

## 2. Modules and the code

| module | models | composed by |
|---|---|---|
| `Admission` | admission control of a stage | `Stage` (EXTENDS) |
| `PermitPool` | abstract: what admission promises | instantiated by `Admission` |
| `Stage` | Submit, channel, workers, scaling, close, cancel, completion | |
| `StageContract` | abstract: what a stage promises to submitter and reader | instantiated by `Stage` |
| `Channels` | unbuffered channels as the operators use them | `Network` |
| `Pipe`, `Merge`, `Tee`, `Batcher`, `WeightedBatcher`, `Join` | one operator each | `Network` (INSTANCE) |
| `Network` | FromChan and a Pipe into a diamond of all operators | |
| `Limits` | LimitManager, MemoryLimiter, a user's handle | `RopeSupervisor` (EXTENDS) |
| `RopeSupervisor` | clients, supervisor worker, ropes, watchers | `MCRopeSupervisor` |
| `PipelineGraph` | the pipeline, a rope's segment, the resolver's table | `MCRopeSupervisor`, whose drums it resolves |
| `Budget` | BudgetAllocator's arithmetic | `MCRopeSupervisor` |
| `Analyzer` | one analysis window | `Rebalancer` (EXTENDS) |
| `Rebalancer` | ticks of the rebalancer, and the stages as it sees them | |
| `Convert` | protobuf conversion of batches and diagnoses | `NatsTransport` (EXTENDS) |
| `NatsTransport` | publishing and one subscription | `Windows` (EXTENDS) |
| `Windows` | the clock, and accounts of what was told of each stage | `Snapshots`, `Polling` (EXTENDS) |
| `Snapshots` | workers' counters, Observer, PublishOnSnapshot | `Observing` |
| `Polling` | polled sources, DeltaTracker, poll cycle | `Observing` |
| `Observing` | one publisher and a subscription together | |
| `DES` | the simulator and its environment | |
| `StageProofs`, `NetworkProofs`, `SupervisorProofs`, `ControlProofs`, `TransportProofs`, `SimProofs`, `GraphProofs` | theorems about the modules above (section 6) | |
| `Lemmas` | sums, minima, sequences and functions defined step by step | the proof modules (EXTENDS) |
| `MCAdmission`, `MCStage`, `MCNetwork`, `MCRopeSupervisor`, `MCControl`, `MCObserving`, `MCDes` | instances for TLC | |

**Admission.** One action per critical section of `admissionMu`.
`GrantWaitersLocked` is the loop, stated without recursion: it grants the
longest prefix of the queue each of whose members passes the test of the loop
after those before it. `permits` is the set of items that own a slot, which no variable of the code
holds: in the code it is spread over call stacks, the channel and the workers.
The oversize policy is a variable fixed in the initial state, so that one run
covers all three.

**Stage.** `pc[i]` is where the `Submit` of item i stands, `wpc[w]` where worker w
stands. What another goroutine can observe in between is a step: passing the
admission lock, entering the select of `trySend`, a channel operation, a
context's end, each of the stages of `CloseInput` (`shut`), each SetWorkers.
The list of worker handles is a set: its
order is the order of birth, so `Age(w)`, the number of live workers up to w, is w's
position in it.
`SetMaxWIP` takes two steps because the code reads the ceiling under another
lock (`toc.go:1152`). Selects are disjunctions: where the code's select may
choose any ready case, so may the model. The increment of the submitted counter
is one step with the send it follows. A panic of fn is a failure of fn, as
`PanicRecovery` makes it.

In the code the submitted counter is raised right after the hand-over; for an
unbuffered stage a worker may act in between, which no property looks at.

**Network.** A channel goes through idle, offered, taken: an unbuffered send
completes when the receiver has it, and an offer may be withdrawn on
cancellation if it has not been taken. An operator's receive and the check that follows are one
step. `log` of a channel is what has been received over it: history
only. What Merge sends is judged by whether its log is an interleaving of its sources
(`Interleaves`). The stage behind the Pipe is `StageContract` with one worker and no buffer:
it takes one item at a time, and yields a value or an error for it; the first
error of a stage that is not done ends it. What the Pipe reads is a sequence of
results from outside.

**Limits and RopeSupervisor.** A proposal and the setter's call are one step, as
they are under the manager's lock; closing a handle is two. The memory
limiter's damping is computed with relaxRate 1/2; its first callback is told by
`lastProposed = MaxInt`. A wish is stored and the wake-up posted in two steps.
The worker's waits (for a rope to stop, for a backoff) end by either outcome at
any time: durations are not modelled. The control law of a rope is an arbitrary
limit; its reading of the work in progress and its proposal are one step.

**PipelineGraph and Budget.** Both are functions: a pipeline is a value (stages in
order, edges in order), a call that panics returns it unchanged. Kahn's
algorithm and the breadth-first walks are recursive functions over places in the
queue; `Only` is the loop that selects from a list in its order. What they
should return is stated without them, over the set of edges: a stage reaches what is
in every set that contains it and that no edge leaves. The budget's fractions are pairs of integers, with the code's floors.

**Analyzer and Rebalancer.** A window maps any subset of stages to samples with
ratios in percent. Freshness is the support count (the code divides it by ten).
The rebalancer's tick is split at every call to a stage: check, second reading,
donation, receipt, giving back; revert reads and sets donor, then receiver. Of
the stage it sees the handles of workers, which `SetWorkers` counts and cancels
newest first exactly as in `Stage`. A cancelled worker may exit at any time, also
between the readings of one tick. Nothing in the repository outside tests wires an
analyzer to a rebalancer: the constraint is a function that NewRebalancer is given, so
it is an input here, any stage at any tick, and the two components are checked side by
side (`MCControl`). `punctual` is a history variable for the properties: whether every
move and every reversal has begun when no cancelled worker was left.

**Convert.** An observation's optional fields are those of its mask; on the wire
they are there or not. Work is unsigned and wraps at `WorkMax`, so that the
order of the additions and of their checks matters as in the code. The count of
unsupported windows is an integer of Go that travels in 32 bits (`Narrowed`, with
`CountMax` for the largest): a larger one wraps. NaN stands for every float that is not
finite.

**NatsTransport.** `Close` is a step for each of its effects: the gate, the
context, Unsubscribe, the wait for `done`; `sync.Once` makes a second Close wait.
The client library is external and taken by its contract: it calls back one
message at a time, in order, perhaps before Subscribe has returned and after
Unsubscribe, and may lose messages. A message is a record of subject,
data and header; data that does not parse is `Garbage`.

**Snapshots.** A stage here is one worker without a buffer, reduced to what moves
the counters. Idle, service and blocked time are charged when they end; the time between
fn's return and the send is charged to nothing. `ReadCounter` reads one counter of one
stage: `Stats` is no snapshot in the code either. The monotonic clock is `clock`; the wall clock may be
set back.

**Polling.** A cycle finds metrics of any subset of the stages, each without any of
its fields: an optional one may be absent and any one not finite, while a stage of which a
required one is absent is not found; a source that fails found nothing. A cycle and its publish
are one step, as one goroutine makes them and shares nothing.

**Observing.** Each behaviour has one publisher: the observer, the adapter or a
program of its own. Only the program is subscribed to in the run; what the
others publish goes through the same checks and is judged by `WindowsAddUp` and
`EveryWindowConverts`.

**DES.** An event takes any pending completion or an arrival: service and
arrival times are drawn from continuous distributions. An interval may end
before any of them. `settle`'s loop is a chain of laps, at most as many as the
code allows before it panics: `Settling` is a function of the number of laps left,
and `Lap(e) = e` is the code's `!progressed`, as nothing moves without a change. The
dispatch loop at the stages is one function too, since a stage's servers and
queue are its own. The environment may be reset whenever no step is running.

## 3. What the runs check

| run | shows |
|---|---|
| `admission` | Under every policy and control: the counters equal the slots in use, nobody waits twice or waits with a slot (`PermitConservation`), waiters are granted in order (`FifoGrants`), an item gets a slot only if it fits in what the slots before it leave of the weight limit in force, under OversizeAllow also if it is itself over the limit while nothing admitted is, or was so when it was queued (`WeightLimitRespected`), no critical section but a revocation leaves a grantable head (`NoMissedGrant`), and the controller implements `PermitPool` (`ImplementsPool`). |
| `admission_debt` | *violated*: `OneOversizeAtATime`. |
| `stage_shutdown` | An unbuffered stage, scaled, paused and limited while fn fails, Submits give up and the input is closed, in every order: each slot is owned by exactly the item that should have it (`SlotLedger`), no send meets a closed channel (`NoSendOnClosedInput`), the workers that stay are between one and the target (`WorkersWithinTarget`). |
| `stage_live` | A buffered stage with scaling, pause, fail-fast and a cancelled parent: the cause is what happened (`CauseIsHonest`), nothing is left when it is latched (`NothingLeftBehind`), and the stage implements `StageContract`: one result for each accepted item, none for a refused one, the output closed only when nothing is owed. Shutdown ends (`ShutdownCompletes`), Submits return (`SubmitsReturn`), accepted items are delivered (`AcceptedDelivered`). |
| `stage_wakeup` | *violated*: `BlockedOnlyAtLimit`. |
| `network` | The diamond of all operators under one context, fed by FromChan and a Pipe: each operator's accounting and order (`OperatorsAccount`), reported loss, completeness without a cancel, and that the whole network ends (`NetworkEnds`). |
| `rope` | The tightest live proposal is in force (`TightestApplied`), memory pressure outlasts the other controllers (`PressureHolds`), one rope drives (`OneDrivingRope`), the status at rest is true (`StatusAtRest`), the last wish is served (`DesiredServed`), Stop releases everything (`StopReleases`). Over all small inputs: `Freeze`, the queries, the segments and the resolver's table are what the edges say (`GraphAnswers`), and a budget's parts add up to no more than it (`BudgetIsNotExceeded`). |
| `rope_release` | *violated*: `WeightLimitReleased`. |
| `control` | Every diagnosis is consistent (`DiagnosisValid`); the incumbent changes only on consecutive evidence (`IncumbentEarned`, checked against a history of the windows' sole tops); however long cancelled workers linger, a move of the rebalancer leaves its receiver within the maximum (`MovesRespectMax`), no stage that runs loses its last worker and the stages lose none in all (`WorkersConserved`); if they were gone whenever a move or reversal began, targets stay within the policy (`WithinPolicy`) and no worker is made either (section 7 says what happens otherwise). |
| `sim` | Items and servers are conserved (`ItemsConserved`), `settle` reaches its fixed point and leaves no server idle before work (`SettledIsWorkConserving`), the constraint is never idle behind blocked work (`ConstraintNeverStarved`) and what is released finishes (`ReleasedItemsFinish`), the last two while every cap leaves room for one item. |
| `observe` | A window tells exactly what was completed between its two ends, which follow on each other, and handlers are given what was published, in order (`HeardAddsUp`; completions of which no window is made at all, after a reset or a restart, are only counted as skipped); nobody returns from Close with a handler running and `done` is closed once (`QuietAfterClose`); Close returns and a context that is done closes (`SubscriptionEnds`); the conversion refuses exactly what breaks an invariant (`ConversionsAreFaithful`). |
| `observe_window` | *violated*: `EveryWindowConverts`. |

For every property of a passing run `PROJECT.json` names a mutant: a plausible
slip in the modelled code that the property catches. The mutated definitions
stand beside the originals, marked as such.

The drums of the `rope` instance are those that `NewRopeResolver` gives for the
pipeline of `MCRopeSupervisor`; TLC evaluates that as the assumption `DrumsAreResolved`.

`GraphAnswers`, `BudgetIsNotExceeded` and `ConversionsAreFaithful` are about
functions; they quantify over inputs and are evaluated in the initial states of
a run that uses those functions.

`CHECK_DEADLOCK FALSE` is set where the system rightly stops: a stage that has
completed, a network that has ended, a supervisor that was stopped, a subscription
that was closed with nothing left to publish, a simulation whose bounded arrivals
are used up. Admission and the control loop never stop, and there deadlock is
checked.

## 4. Bounds

* `admission`: four items of weights 1, 0, 2, 3 against a weight limit that
  starts at 2 and moves to 0, 3 or off, and a count limit of 1 to 3. So there
  is an item that no weight limit stops, one that is oversize at the start, one
  that becomes oversize, and two of which together are too heavy; the queue
  reaches length four.
* `stage_shutdown`: two Submits of weights 1 and 2 against two slots and weight
  limits of 2, 1 and none, so that the second is oversize or not as limits move;
  one may give up, one may fail; two workers and at most three ever started
  (`MaxSpawned`), targets 1 and 2: scale-down, scale-up while the retired worker
  drains, and again scale-down fit in. No buffer: hand-over.
* `stage_live`: two Submits against two slots, one place in the channel, one worker
  and another to come: so an item may be in the channel while another is with a worker,
  and a Submit may find the channel full. A Submit waits for a slot while admission
  is paused. Nobody need resume, so `SubmitsReturn` is about those that wait when the
  stage ends. That a failing worker closes the input while a Submit stands before a full
  channel and no other worker is left takes a third item; `stage_shutdown`, without a buffer and
  scaled down to one worker, has that state, for safety only.
* `network`: two results in all, a value from FromChan and an error from the
  Pipe, or two values, or a value and an error, from the Pipe, whose fn may fail;
  batch size and weight threshold 2. So both batchers flush by size, by weight, before
  an error and at the end, an error overtakes a value in the Pipe, and a cancel
  falls before, between and after. Two results are enough: every operator
  handles one result at a time and remembers at most a partial batch, and two
  are needed for order, gaps and a full batch.
* `rope`: three disturbances (wishes or crashes, `MaxDisturbances`), which is
  what it takes to have a rope that is left behind, its successor and a
  third wish; one failing start (`MaxFailedStarts`); readings of the memory
  limiter below zero and in the range of the rope's limit; a user's proposal of
  the largest integer, which stands for no limit.
* `control`: three stages, windows in which each is missing, saturated (several: a
  tie) or idle; hysteresis of three windows and demotion after two; supports counted
  up to `MaxCount` = 3. Counts above the thresholds behave alike, so longer streaks add
  nothing. For the rebalancer two workers each to start with, two stages that may receive
  and all that may donate, policies 1 to 2, 1 and more, 2 to 3, so that both a maximum and a
  minimum stand in the way of moves; a cooldown of two ticks, one stage that may stop;
  at most five handles of a stage at a time (`MaxHandles`), which leaves room for
  cancelled ones beside the three that stay.
* `rope`, functions: all pipelines of up to four stages, built in two orders, with
  every set of edges, cyclic ones included; budgets of up to four stages.
* `sim`: three stages with 2, 1 and 1 servers, the constraint at the first or
  the second (the second has a buffer before it, the first none), one to three
  releases per interval, caps below one item, of one item
  and of two; five arrivals (`MaxArrivals`), of which four completions end an
  episode; a safety cap of three items, so that it is breached too.
  Episodes end by completions only (`MaxTime` = 0).
* `observe`: two publications (`MaxSent`: a later one fails, as it may at any
  time), three foreign messages, two goroutines that close (a user and the
  watcher), a clock of two ticks (`MaxTime`), one item for the observed stage
  (`MaxItems`), one set-back of the wall clock (`MaxClockSteps`), two sources of one
  stage each with at most one completion (`MaxCount`) and one restart, eviction after two
  missed polls. The protocol of Close does not depend on the number of messages
  beyond "none, one in flight, one pending".
* `ConversionsAreFaithful`: work up to 7, so that every wrap of the sum of three
  occurs; counts from -1 to 1; all states, sources and two names; unsupported counts of
  0, 1, the largest that fits (`CountMax` = 3) and one more.

## 5. Fairness

`FairStageSpec` asks for weak fairness of each Submit, each worker, the steps of a
`CloseInput` once begun, the propagation of a cancel and the completing
goroutine: Go's scheduler runs every goroutine that can run, fn returns, and the
reader reads `Out`, which the documentation makes the reader's duty
(`toc.go:898-901`). It does not ask that anybody closes the input, cancels,
pauses, resumes or scales. Fairness is stated per process, so that one busy
worker does not discharge another's; within one select it does not favour a
case.

`FairNetSpec` asks it of each operator goroutine and source, and of the consumer
only while the context is not done: after a cancel nobody need read.

`FairNetSpec` asks it of the Pipe's feeder and of its stage separately.

`FairSupervisorSpec` asks it of the worker, of each rope once it is cancelled
(its exit and the closing of its handle), of the watchers, and of a client
between publishing its wish and posting the wake-up. Crashes, wishes, Stop and a
rope's ticks are not fair.

`EnvFairness` of the simulator: the caller steps the environment, an interval
ends, and a service that is pending for ever again is eventually the next event
(strong, since its interval may end first: a finite service time is less than a
bounded number of intervals). No arrival is counted on.

`TransportFairness`: the client calls back and the handler returns, whoever is in
Close goes on, Subscribe returns, and the watcher sees the context's end. Nobody
need call Close, cancel, publish or send.

## 6. What is proved

The theorems hold for every value of the constants that the named assumptions in the
modules admit; these say what constructors check and types give: finite sets of
items, weights that are natural numbers, positive limits, batch sizes and
hystereses. One theorem about the simulator has a hypothesis of its own, named below; and
`ObservingAssumption` says what programs and other clients publish.

| module | theorem | states |
|---|---|---|
| `StageProofs` | `AdmissionTypeCorrect`, `AdmissionInvariant` | `TypeOK`, `PermitConservation` |
| | `AdmissionImplementsPool` | `ImplementsPool` |
| | `AdmissionRespectsWeightLimit` | `WeightLimitRespected` |
| | `AdmissionIsFifo` | `FifoGrants` |
| | `AdmissionMissesNoGrant` | `NoMissedGrant` |
| | `StageOwnsItsSlots` | `SlotLedger` |
| | `NoSendMeetsClose` | `NoSendOnClosedInput` |
| | `TeamStaysWithinTarget` | `WorkersWithinTarget` |
| | `CompletionIsComplete` | `NothingLeftBehind` |
| | `CauseTellsTheTruth` | `CauseIsHonest` |
| | `StageImplementsContract`, `StageImplementsPool` | `ImplementsContract`, `ImplementsPool` |
| `NetworkProofs` | `NetworkInvariant` | `NetInv`, the invariant of all operators |
| | `NetworkAccounts` | `OperatorsAccount` |
| | `NetworkReportsLosses` | `LossIsReported` |
| | `NetworkIsComplete` | `UncanceledIsComplete` |
| `SupervisorProofs` | `SupervisorDrivesOneRope`, `StatusIsTrueAtRest` | `OneDrivingRope`, `StatusAtRest` |
| | `LimitsAreTight`, `MemoryPressureHolds` | `TightestApplied`, `PressureHolds` |
| | `NoProposalOutlivesRopes` | no rope's proposal is left once all ropes have exited |
| | `AllocationsAlwaysFit` | the parts of a budget add up, for any stages, drum and fractions |
| | `BudgetHolds` | `BudgetIsNotExceeded` |
| `ControlProofs` | `IncumbentIsEarned`, `DiagnosisIsValid` | `IncumbentEarned`, `DiagnosisValid` |
| | `RebalancerMovesRespectMax` | `MovesRespectMax` |
| | `RebalancerKeepsItsPolicy`, `RebalancerConservesWorkers` | `WithinPolicy`, `WorkersConserved` |
| `SimProofs` | `ItemsAreConserved` | `ItemsConserved` |
| | `FewServersSettle`, `RoomSettles` | `SettledIsWorkConserving` |
| | `ConstraintIsNeverStarved` | `ConstraintNeverStarved` |
| `TransportProofs` | `QuietAfterCloseHolds` | `QuietAfterClose` |
| | `HeardAlwaysAddsUp` | `HeardAddsUp` |
| | `ObservationsArrive` | any observation arrives as it was, or is refused for breaking an invariant |
| | `DiagnosesArrive` | any diagnosis arrives with its unsupported count narrowed to 32 bits and else as it was, or is refused for a constraint that is none of its stages |
| | `ConversionsHold` | `ConversionsAreFaithful` |
| `GraphProofs` | `CallsBuildPipelines` | what calls build has each stage once, each edge once, and none from a stage to itself |
| | `FreezeIsAlwaysRight`, `QueriesAreAlwaysRight`, `SegmentsAreAlwaysRight`, `ResolverIsAlwaysRight` | the four parts of `GraphAnswers`, for pipelines of any size |
| | `GraphHolds` | `GraphAnswers` |

Every invariant of a run that is expected to pass is stated by one of these
theorems.

**Sums, minima and recursive functions (`Lemmas`).** Weights, worker counts and proposals are summed or
minimised by library operators that are recursive functions over sets. No
induction rule can be applied to them, so each lemma takes a smallest set (or a
smallest number) that refutes it and derives a contradiction from the fact that
strict inclusion of finite sets is well founded. `SumAdd`, that a sum takes its elements in any
order, is the one on which the weight half of admission, the worker count of the
rebalancer and the batchers' weights rest. Flattening a sequence of batches is
treated the same way. That a function defined step by step exists, which is
needed before anything can be said of it, is `IterationExists`.

**Admission.** `AdmissionInv == TypeOK /\ QueueDisjoint /\ CountConserved`. The
refinement needs `admitted = Cardinality(permits)`, since the loop compares the counter
and the abstract pool the set. The loop keeps that equality only if the
waiters it grants are distinct items none of which owns a slot: hence
`QueueDisjoint`. `WeightInv` adds that `admittedWeight` is the weight of
the permits and that only OversizeAllow leaves exempt waiters. From
it follow the three action properties: a run of the loop grants a prefix of
the queue, so nobody overtakes; each member fits when it is granted; and the
first one left does not.

**Stage.** The invariant says where every slot is. `Places`: each item that owns a
slot is at its Submit, in the channel or with one worker. `Team`: the first worker is
never retired, as SetWorkers cancels from the newest down to the second
(`toc.go:1233`), and it leaves only when the input is closed and empty. So when all
workers are gone, nothing is in the channel (`Ending`, `Counting`), which is
`NothingLeftBehind`. `Deliveries` says that what is owed to the reader is
what the channel and the workers hold: with it each step of the stage is a
step of `StageContract`. `Reasons` ties the latched cause to what raised it, for
the honesty of `Cause`.

**Network.** `NetInv` has a part for each operator, and one for the
channels. A step of an operator takes from its sources and sends on its outputs and
does nothing else to channels (`Acts`), so the channels stay well formed and the
other operators keep their parts. An operator's part ties its counters and its place in the code
to the logs of its channels: for Merge, what either forwarder has received is delivered,
in its hands or dropped, and the log of the output is an interleaving of what was
delivered, in each source's order; for Tee, the branches' logs are the source's, but
for the item in hand, until something is lost; for a batcher, the items sent,
those in the buffer and the one in hand are the source's log, in order, until it drops
something, and then what it sent is a prefix; for Join, which of the two results
it has decides what it may send. `NetInv` also holds on the instance of the `network` run, where it was checked before it was proved.

**Supervisor and limits.** Where the worker stands in `reconcile` decides what it
holds: from the moment it has stopped a rope to the moment it has started the next
it holds none, and while it waits it holds one that it has canceled (`OnlyActiveDrives`). The limits
need that the limiter's proposal stays in once it has a reading and is never
above it (`ReadingProposed`); the minimum over the live proposals exists because
they are finitely many numbers. `NoProposalOutlivesRopes` is about the name that all
ropes share: one that leaves withdraws its successor's proposal, and one left behind
may propose over it, but as long as a proposal named rope is in, some rope has not
yet closed that part of its handle.

**Analyzer and rebalancer.** The counters of the analyzer are evidence: `challengerN`
is a number of last windows whose sole top was the challenger, and `unsupportedN`
one of last windows whose sole top was not the incumbent. So a counter that
reaches its hysteresis is the history `IncumbentEarned` asks for. For the rebalancer the
invariant (`PoolInv`) has two parts. `CountInv` holds however long cancelled workers
linger: the numbers that a tick has read of a stage are never less than the handles it
still has, since handles only disappear meanwhile, and its oldest worker stays. From it follow `MovesRespectMax` and that no worker is lost. `RebalancerInv` holds as long as
moves and reversals are punctual: then the numbers read are exact, and asking for one more or one
less moves exactly one worker. It gives `WithinPolicy` and that none is made. The premise
`punctual` is part of the properties and not of the specification: the code does not wait
for cancelled workers, and TLC finds both conclusions violated without it (section 7).

**Budget.** The sum of floors is bounded from both sides: the parts times their
denominator sum to no more than the budget times the numerators, and each floor
loses less than one. `AllocationsAlwaysFit` holds for any number of stages with
different names and any fractions with positive denominators, with the drum among the
stages or without a drum; `BudgetHolds` applies it to the inputs of the run.

**Conversion.** Reading back what was written gives the record that was written,
whatever its mask (`ReadBack`); so all that is left of the way there and back are the
checks, and these refuse exactly what is not `Sound`, the wrap-around of the unsigned sum
included (`WorkIsChecked`). `WorkMax` is arbitrary. Of a diagnosis the count of unsupported windows
is narrowed on the way (`NarrowedIs`): `DiagnosesArrive` says what arrives for any count,
and that it is what was sent if the count fits. The analyzer's does: it demotes the
incumbent before the count reaches the demotion hysteresis, an `int` of the caller's.
`HeardAlwaysAddsUp` is about programs whose diagnoses keep to that (`ObservingAssumption`).

**Transport.** A callback is counted from the gate until it leaves, and `done` is
closed by whoever makes the gate shut and empty (`GateCounts`); once.Do lets one goroutine
through (`OnceInv`). The number of goroutines that call Close is arbitrary.

**From counters to handlers.** `HeardAlwaysAddsUp` has two independent halves. For the
first, every message that was heard, is in the callback or is on the wire has its place
in what was sent, and these places are in order (`LineInv`); losing or refusing a
message leaves a gap but no disorder. This assumes what a program publishes to be what an observer
or an analyzer makes, and what other clients send to be nothing that decodes
(`ObservingAssumption`): the code has no way to tell a well-formed message of
another client from one of its own. For the second, `AccountsInv` says where each
publisher's baseline is. The observer's (`ObserverInv`): what it holds for a stage is what was
told last, and each counter already read for the next window lies between that and the
counter as it is now, since workers go on and counters never fall. The tracker's
(`BaselineOK`): since its baseline a stage has counted no more than it has completed since the last
reading, and exactly that much unless it was restarted. A window then tells the
difference and moves the baseline in the same step; a stage without a baseline, or
without the field at one of the two ends, is accounted for in `skipped`.
`AccountsInv` also held on the states of a run before it was proved.

**Simulator.** Each zero-time transition keeps the books (`EngineOK`): the places are
disjoint and hold each item once, what is completed and what is somewhere add up
to the arrivals, and a stage's servers are those of its pending completions and of the
items blocked there. Two lemmas carry it: items move from the front of one place
to the end of another (`MoveKeepsItems`), or from queues into service
(`StartKeepsItems`). `ItemsConserved` follows for every line, with no
hypothesis; it holds even in an engine whose settling gave up.

That settling ends needs more. A lap leaves the line `Rested` (no free server has work
before it), and from a rested line a lap makes progress only if it unblocks an
item. So a lap is left for each blocked item, and `FewServersSettle` assumes that the
stage before the constraint has at most `MaxIter - 2` servers. Without that
hypothesis the claim is false (section 7). `RoomSettles` and
`ConstraintIsNeverStarved` need none, but speak of episodes whose caps have all left
room for one item. Their invariant is `RoomInv`: whatever is blocked stands
behind a busy constraint. A completion frees one server of the constraint at
most; the first lap fills the buffer if anything stays blocked, feeds it, and takes the
server again (`FirstLap`); the second then does nothing or unblocks into the buffer
what fits; a third finds nothing (`BusyLap`). Settling, a recursive function, is given its
equation by a smallest number of laps for which no function satisfies
it (`SettlingExists`).

**Pipeline graph.** `Pipelines(V)` are the pipelines that calls can build over the
names V (`CallsBuildPipelines`); they may have any size and, until they are
frozen, cycles. Kahn's queue keeps three things (`KahnKeeps`): it names a stage once
and exactly those all of whose feeders were taken; `left` counts the feeders not yet
taken; and each stage stands behind its feeders. If it holds every stage, places in it
number the stages along the edges, so there is no cycle (`NumberedIsAcyclic`);
if it does not, the stages that are left contain, without a cycle, one that none of
them feeds (`AcyclicHasFirst`, by a stage whose set of ancestors is smallest), which
the queue should have. A walk keeps that whatever follows a stage it has
been through is in it, and that a stage stands behind all that followed the
ones before its first finder (`WalkKeeps`). The first makes the walk the set
of what is reachable, downwards and upwards; the second puts the stages of each
level before those of the next (`LevelsInOrder`), hence the nearest first. A
segment is a chain of only successors (`WalkChains`). Two chains from the same
stage go on together (`SameWay`) and one that comes to the drum visits no stage
twice (`ChainIsShort`), so the walk's bound, the number of stages, is never in
the way, and the segment is found whenever there is one. The resolver combines
heads and segments. Only `FreezeIsAlwaysRight` asks for a pipeline that is not frozen
yet; the others need no acyclicity. `GraphHolds` shows that what the run
enumerates is built by calls.

**Only model-checked.** Out of the provers' reach, and so left to TLC, is
liveness, as it needs fairness and ENABLED: `NetworkEnds`, `ShutdownCompletes`,
`SubmitsReturn`, `DesiredServed`, `StopReleases`, `SubscriptionEnds` and the others.

## 7. Where code and documentation disagree

Each of these is shown by a run that is expected to fail and is listed in
`PROJECT.json`.

1. Two oversize items may be granted together (`admission_debt`,
   `toc.go:684`): the exemption is decided at arrival and not looked at again.
2. A waiter that gives up does not run the grant loop (`stage_wakeup`,
   `toc.go:765`): lighter waiters behind it may sleep with the stage empty.
3. Withdrawing the last weight proposal leaves its limit in force when there is
   no weight baseline (`rope_release`, `limit_manager.go:192`).
4. A window may break the invariants that its receivers check
   (`observe_window`, `adapt.go:29`): time is charged when a wait or a call ends,
   and a wait may be longer than the window; the whole batch is then refused.

Met while modelling and not given a run, because no promise of the repository
is broken outright or because a run shows them by a changed constant:

* `SetWorkers` counts cancelled workers that have not exited as live
  (`toc.go:1268`): `SetWorkers(1)` and at once `SetWorkers(2)` starts nobody, and
  when the cancelled worker exits one is left for good, although the comment
  (`toc.go:1242-1247`) promises two. `WorkersWithinTarget` therefore asks for at
  least one.
* The rebalancer computes from that count (`analyze/rebalancer.go:260`, `:349`), and does
  not wait for the workers it cancelled. Then a revert leaves the policy: a stage with
  maximum 2 donates one of its two workers, which is still in its item when the cooldown
  has passed; the revert reads two and asks for three. So do a move and the minimum.
  `WithinPolicy` and the upper half of `WorkersConserved` therefore ask that cancelled
  workers were gone whenever a move or a reversal began (`punctual`); TLC finds either
  violated when that is taken away. `WorkerPolicy` calls the two numbers
  minimum and maximum without a condition (`analyze/rebalancer.go:22-23`).
* A receiver that refuses because it is stopping makes the rebalancer give
  the worker back to the donor at once (`analyze/rebalancer.go:273`), where the worker just cancelled still
  counts: the donor stays one short. `WorkersConserved` counts only while no stage has
  shut down, and so does not show it.
* `SetMaxWIP` reads the worker target before it takes `admissionMu` (`toc.go:1152`): a
  scale-down in between leaves a limit above capacity plus workers.
* A weight proposal of the largest integer that stands alone counts as no
  proposal, for which `effectiveWeight` returns 0 (`limit_manager.go:276`), and
  `ProposeWeight` applies that 0 as a limit.
* A join that is cancelled counts extras as discarded (`join.go:307`).
* A rope that was left behind shares the source name of its successor
  (`RopeResolverParams.SourceID` is stored and never used): its late tick
  overrides the successor's limit and its Close withdraws it, until the successor's
  next tick.
* The backoff after a crash is kept through healthy ropes
  (`rope_supervisor.go:223`, `:408`).
* Submit's documentation says its context is not passed to fn (`toc.go:607-610`);
  `processItem` passes it when there is one (`toc.go:1464`). `Limits()` takes the
  current limits as baseline, not those of construction (`toc.go:1129-1144`). A comment
  in `rope_controller.go:472` takes 0 for no limit, which `SetMaxWIPWeight` takes
  literally. The analyzer skips windows under override when it counts
  "consecutive" unsupported ones, as `IncumbentEarned` says.
* A budget whose drum names none of the stages gives every stage the share of
  one that is not the drum, together more than the budget
  (`budget_allocator.go:115`); `AllocationsFit` asks for a name that is there.
* A poll cycle in which no source answers does not judge staleness
  (`internal/adapter/loop.go:80`), and a window after missed polls spans more time
  than the `PollInterval` it states. A field that is missing once is missing
  from two windows, since both ends need it.
* A diagnosis whose manual drum was not in the window does not survive the
  conversion (`tocpb/convert.go:281`), nor does a utilization above one. Its count of
  unsupported windows is narrowed to 32 bits without a check (`tocpb/convert.go:216`), while
  its neighbour, the starvation count, travels in 64.
* In the simulator a cap below one item's time blocks every server before the
  constraint, and raising it moves nothing until the next completion, which may
  never come (`sim/des.go:266`).
* The bound on `settle`'s laps, two per stage and ten, "derived from topology"
  (`sim/des.go:288`), leaves out the servers. When a cap below one item's time has
  blocked the servers before an idle constraint and the next cap leaves room
  for exactly one item, each lap moves one item. With two stages of 14 servers each the
  bound of 14 laps is used up while the last still makes progress, and the
  code panics that settle "did not converge", with a legal configuration and legal
  actions; with 13 this episode converges. `FewServersSettle` says that up to 12 always suffice,
  `RoomSettles` that caps with room for one item always do.
* A NATS handler that calls Close of its own subscription waits for itself
  (`natstransport/subscription.go:75`).

## 8. What is not modelled

* Time: durations, tickers and timeouts are nondeterministic or ticks of a
  bounded clock; rates and wait times are left out.
* Histograms of service times (`sampler.go`): `mergeServiceTime` copies the workers'
  handles and the pointer of the archive under `workersMu` and merges without it, while
  `compactWorkersLocked` may merge a copied handle into the same archive
  (`toc.go:1329-1352`). A worker may then be counted twice, and the archive is read
  while it is written.
* Statistics that nothing else depends on: high-water marks, allocation
  counters, hooks, logging; the Reporter, which prints them.
* The contents of values: items are model values, fn returns or fails.
* Floating point: ratios are percentages or hundredths, the damping factor is
  1/2, shares are fractions. The rope's control law and the arithmetic of
  `interval.go`, `focusing.go` and `scaling_history.go` are out for that reason.
* I/O: HTTP and JSON paths, the NATS server, memory readings of the platform,
  protobuf's encoding.
* A failed start of a rope is not retried by the code before the next wish, so
  `DesiredServed` excepts it (`gaveUp`).
* Misuse that the documentation names: Submit or CloseInput of a stage made by
  Pipe, a consumer that stops reading, a handler that closes itself.
* Generated code, commands and examples.

## 9. Plan

Done: admission and its abstract pool with the proofs; the stage and its
contract; the operators with Pipe and the network; limits, memory limiter,
budgets, topology, ropes and supervisor; analyzer and rebalancer; the way of
observations from counters to a subscriber; the simulator.

The theorems of section 6 cover admission, the stage, the operators, limits and
supervisor, budgets, the pipeline graph, analyzer and rebalancer, the simulator, and the
way of observations from counters to handlers with the conversion on it. Nothing of
the plan is left open; what is not modelled is listed in section 8.
