-------------------------------- MODULE Stage --------------------------------
(***************************************************************************)
(* The life of a stage created by Start (toc.go): Submit calls, the input  *)
(* channel, the workers and their scaling, CloseInput, cancellation, and   *)
(* the goroutine that latches the terminal cause and closes the output.    *)
(* Admission control is module Admission; each step that takes or returns  *)
(* a slot here makes the corresponding step there.                         *)
(*                                                                         *)
(* Each critical section, atomic access, channel operation or context      *)
(* call that another goroutine can tell apart is one action.  Timing,      *)
(* histograms, allocation counters and hooks are left out.                 *)
(***************************************************************************)
EXTENDS Admission

CONSTANTS
  Capacity,     \* Options.Capacity
  InitWorkers,  \* Options.Workers, at least 1
  MaxSpawned,   \* bound: worker goroutines ever started
  FailFast,     \* ~Options.ContinueOnError
  MayFail,      \* items whose fn may return an error
  Impatient,    \* items whose Submit context may be cancelled
  WorkerArgs,   \* arguments of SetWorkers
  ParentMayCancel,
  MayPause,
  None          \* no item

ASSUME StageAssumption ==
  /\ Capacity \in Nat
  /\ InitWorkers \in Nat \ {0}
  /\ MaxSpawned \in Nat /\ MaxSpawned >= InitWorkers
  /\ InitMaxWIP <= Capacity + InitWorkers     \* clamped by start()
  /\ FailFast \in BOOLEAN /\ ParentMayCancel \in BOOLEAN /\ MayPause \in BOOLEAN
  /\ MayFail \subseteq Items /\ Impatient \subseteq Items
  /\ WorkerArgs \subseteq Nat \ {0}           \* SetWorkers raises n < 1 to 1
  /\ None \notin Items

Workers == 1..MaxSpawned

VARIABLES
  pc,            \* where the Submit call of each item stands
  expired,       \* items whose Submit context is done
  in,            \* the input channel
  wpc,           \* where each worker stands
  job,           \* the item a worker holds
  kind,          \* the result it is about to send
  workerHandles, \* workers known to SetWorkers; the lower its number the older
  retired,       \* workers whose retireCtx is cancelled
  targetWorkers,
  ceiling,       \* the bound a SetMaxWIP call has read, 0 when none is running
  shut,          \* how far CloseInput has come
  parentDone,    \* the context given to Start is done
  stageDone,     \* stageCtx is done
  err,           \* s.err: the item whose failure is reported
  cause,         \* s.cause once latched
  done,          \* out and done are closed
  delivered,     \* how many results of each item the consumer has received
  counts         \* the stats counters

submitVars == <<pc, expired>>
workerVars == <<wpc, job, kind>>
scaleVars == <<workerHandles, retired, targetWorkers>>
ctxVars == <<parentDone, stageDone, err>>
endVars == <<cause, done>>
ownVars == <<submitVars, in, workerVars, scaleVars, ceiling, shut, ctxVars,
             endVars, delivered, counts>>
stageVars == <<admissionVars, ownVars>>

StageInit ==
  /\ AdmissionInit
  /\ pc = [i \in Items |-> "new"]
  /\ expired = {}
  /\ in = <<>>
  /\ wpc = [w \in Workers |-> IF w <= InitWorkers THEN "idle" ELSE "unborn"]
  /\ job = [w \in Workers |-> None]
  /\ kind = [w \in Workers |-> "none"]
  /\ workerHandles = 1..InitWorkers
  /\ retired = {}
  /\ targetWorkers = InitWorkers
  /\ ceiling = 0
  /\ shut = "open"
  /\ parentDone = FALSE
  /\ stageDone = FALSE
  /\ err = None
  /\ cause = "unset"
  /\ done = FALSE
  /\ delivered = [i \in Items |-> 0]
  /\ counts = [submitted |-> 0, completed |-> 0, failed |-> 0, canceled |-> 0]

\* The flags that CloseInput sets one after the other.
Stopping == shut # "open"
Closed == shut \in {"closed", "closing", "done"}
Closing == shut \in {"closing", "done"}
InputClosed == shut = "done"

Move(i, from, to) == pc[i] = from /\ pc' = [pc EXCEPT ![i] = to]
Count(c) == counts' = [counts EXCEPT ![c] = @ + 1]
------------------------------------------------------------------------------
(* Submit and trySend. *)

\* The three tests before acquireAdmission.  All three conditions are stable.
EnterSubmit(i) ==
  /\ ~Closed /\ ~stageDone /\ i \notin expired
  /\ Move(i, "new", "acquire")
  /\ UNCHANGED <<admissionVars, expired, in, workerVars, scaleVars, ceiling,
                 shut, ctxVars, endVars, delivered, counts>>

RefuseAtEntry(i) ==
  /\ Closed \/ stageDone \/ i \in expired
  /\ Move(i, "new", "refused")
  /\ UNCHANGED <<admissionVars, expired, in, workerVars, scaleVars, ceiling,
                 shut, ctxVars, endVars, delivered, counts>>

RefuseAtGate(i) ==
  /\ RefusedClosed \/ RefusedOversize(i)
  /\ Move(i, "acquire", "refused")
  /\ UNCHANGED <<admissionVars, expired, in, workerVars, scaleVars, ceiling,
                 shut, ctxVars, endVars, delivered, counts>>

AcquireFast(i) ==
  /\ Move(i, "acquire", "send")
  /\ AdmitNow(i)
  /\ UNCHANGED <<expired, in, workerVars, scaleVars, ceiling, shut, ctxVars,
                 endVars, delivered, counts>>

AcquireSlow(i) ==
  /\ Move(i, "acquire", "waiting")
  /\ Enqueue(i)
  /\ UNCHANGED <<expired, in, workerVars, scaleVars, ceiling, shut, ctxVars,
                 endVars, delivered, counts>>

\* The waiter was granted: w.ready fires, or revokeOrHonor honors the grant.
SeeGrant(i) ==
  /\ i \notin Waiting
  /\ Move(i, "waiting", "send")
  /\ UNCHANGED <<admissionVars, expired, in, workerVars, scaleVars, ceiling,
                 shut, ctxVars, endVars, delivered, counts>>

\* Mutant of MustGiveUp: a blocked Submit watches only its own context.
MustGiveUpDeaf(i) == i \in expired

\* Reasons for a blocked Submit to give up.
MustGiveUp(i) == i \in expired \/ Closing \/ stageDone

GiveUpWaiting(i) ==
  /\ MustGiveUp(i)
  /\ Move(i, "waiting", "refused")
  /\ Revoke(i)
  /\ UNCHANGED <<expired, in, workerVars, scaleVars, ceiling, shut, ctxVars,
                 endVars, delivered, counts>>

\* trySend under the read lock, held from here to the end of the select.
StartSend(i) ==
  /\ ~Closed
  /\ Move(i, "send", "sending")
  /\ UNCHANGED <<admissionVars, expired, in, workerVars, scaleVars, ceiling,
                 shut, ctxVars, endVars, delivered, counts>>

FindClosed(i) ==
  /\ Closed
  /\ Move(i, "send", "rollback")
  /\ UNCHANGED <<admissionVars, expired, in, workerVars, scaleVars, ceiling,
                 shut, ctxVars, endVars, delivered, counts>>

Send(i) ==
  /\ Len(in) < Capacity
  /\ Move(i, "sending", "accepted")
  /\ in' = Append(in, i)
  /\ Count("submitted")
  /\ UNCHANGED <<admissionVars, expired, workerVars, scaleVars, ceiling, shut,
                 ctxVars, endVars, delivered>>

\* Without a buffer the item passes straight to a worker in its select.
HandOver(i, w) ==
  /\ Capacity = 0
  /\ wpc[w] = "idle"
  /\ Move(i, "sending", "accepted")
  /\ wpc' = [wpc EXCEPT ![w] = "taken"]
  /\ job' = [job EXCEPT ![w] = i]
  /\ Count("submitted")
  /\ UNCHANGED <<admissionVars, expired, in, kind, scaleVars, ceiling, shut,
                 ctxVars, endVars, delivered>>

GiveUpSend(i) ==
  /\ MustGiveUp(i)
  /\ Move(i, "sending", "rollback")
  /\ UNCHANGED <<admissionVars, expired, in, workerVars, scaleVars, ceiling,
                 shut, ctxVars, endVars, delivered, counts>>

\* Mutant of Rollback: the slot of a failed send is kept.
RollbackWithoutRelease(i) ==
  /\ Move(i, "rollback", "refused")
  /\ UNCHANGED <<admissionVars, expired, in, workerVars, scaleVars, ceiling,
                 shut, ctxVars, endVars, delivered, counts>>

\* Submit returns the slot of a send that failed.
Rollback(i) ==
  /\ Move(i, "rollback", "refused")
  /\ ReleaseAdmission(i)
  /\ UNCHANGED <<expired, in, workerVars, scaleVars, ceiling, shut, ctxVars,
                 endVars, delivered, counts>>
------------------------------------------------------------------------------
(* worker and processItem. *)

Take(w) ==
  /\ wpc[w] = "idle"
  /\ in # <<>>
  /\ wpc' = [wpc EXCEPT ![w] = "taken"]
  /\ job' = [job EXCEPT ![w] = Head(in)]
  /\ in' = Tail(in)
  /\ UNCHANGED <<admissionVars, submitVars, kind, scaleVars, ceiling, shut,
                 ctxVars, endVars, delivered, counts>>

\* The loop ends on a closed and empty channel, or when the worker is retired.
ExitWorker(w) ==
  /\ wpc[w] = "idle"
  /\ (InputClosed /\ in = <<>>) \/ w \in retired
  /\ wpc' = [wpc EXCEPT ![w] = "exited"]
  /\ UNCHANGED <<admissionVars, submitVars, in, job, kind, scaleVars, ceiling,
                 shut, ctxVars, endVars, delivered, counts>>

\* Mutant of SkipCanceled: a cancelled item is dropped without a result.
DropCanceled(w) ==
  /\ wpc[w] = "taken"
  /\ stageDone
  /\ wpc' = [wpc EXCEPT ![w] = "release"]
  /\ Count("canceled")
  /\ UNCHANGED <<admissionVars, submitVars, in, job, kind, scaleVars, ceiling,
                 shut, ctxVars, endVars, delivered>>

SkipCanceled(w) ==
  /\ wpc[w] = "taken"
  /\ stageDone
  /\ wpc' = [wpc EXCEPT ![w] = "emit"]
  /\ kind' = [kind EXCEPT ![w] = "canceled"]
  /\ Count("canceled")
  /\ UNCHANGED <<admissionVars, submitVars, in, job, scaleVars, ceiling, shut,
                 ctxVars, endVars, delivered>>

RunFn(w) ==
  /\ wpc[w] = "taken"
  /\ ~stageDone
  /\ wpc' = [wpc EXCEPT ![w] = "running"]
  /\ UNCHANGED <<admissionVars, submitVars, in, job, kind, scaleVars, ceiling,
                 shut, ctxVars, endVars, delivered, counts>>

FnSucceeds(w) ==
  /\ wpc[w] = "running"
  /\ wpc' = [wpc EXCEPT ![w] = "emit"]
  /\ kind' = [kind EXCEPT ![w] = "ok"]
  /\ Count("completed")
  /\ UNCHANGED <<admissionVars, submitVars, in, job, scaleVars, ceiling, shut,
                 ctxVars, endVars, delivered>>

FnFails(w) ==
  /\ wpc[w] = "running"
  /\ job[w] \in MayFail
  /\ wpc' = [wpc EXCEPT ![w] = IF FailFast THEN "report" ELSE "emit"]
  /\ kind' = [kind EXCEPT ![w] = "failed"]
  /\ counts' = [counts EXCEPT !.completed = @ + 1, !.failed = @ + 1]
  /\ UNCHANGED <<admissionVars, submitVars, in, job, scaleVars, ceiling, shut,
                 ctxVars, endVars, delivered>>

\* Under errMu: the first failure of a stage that is not cancelled is kept.
ReportFailure(w) ==
  LET first == err = None /\ ~stageDone
  IN  /\ wpc[w] = "report"
      /\ err' = IF first THEN job[w] ELSE err
      /\ wpc' = [wpc EXCEPT ![w] = IF first THEN "cancel" ELSE "emit"]
      /\ UNCHANGED <<admissionVars, submitVars, in, job, kind, scaleVars,
                     ceiling, shut, parentDone, stageDone, endVars, delivered, counts>>

CancelStage(w) ==
  /\ wpc[w] = "cancel"
  /\ stageDone' = TRUE
  /\ wpc' = [wpc EXCEPT ![w] = "close"]
  /\ UNCHANGED <<admissionVars, submitVars, in, job, kind, scaleVars, ceiling,
                 shut, parentDone, err, endVars, delivered, counts>>

\* CloseInput returns to the failing worker, whoever executed it.
FailureClosed(w) ==
  /\ wpc[w] = "close"
  /\ InputClosed
  /\ wpc' = [wpc EXCEPT ![w] = "emit"]
  /\ UNCHANGED <<admissionVars, submitVars, in, job, kind, scaleVars, ceiling,
                 shut, ctxVars, endVars, delivered, counts>>

\* The consumer receives the result of a worker blocked on out.
Receive(w) ==
  /\ wpc[w] = "emit"
  /\ delivered' = [delivered EXCEPT ![job[w]] = @ + 1]
  /\ kind' = [kind EXCEPT ![w] = "none"]
  /\ wpc' = [wpc EXCEPT ![w] = "release"]
  /\ UNCHANGED <<admissionVars, submitVars, in, job, scaleVars, ceiling, shut,
                 ctxVars, endVars, counts>>

\* The deferred release of processItem.
FinishItem(w) ==
  /\ wpc[w] = "release"
  /\ wpc' = [wpc EXCEPT ![w] = "idle"]
  /\ job' = [job EXCEPT ![w] = None]
  /\ ReleaseAdmission(job[w])
  /\ UNCHANGED <<submitVars, in, kind, scaleVars, ceiling, shut, ctxVars,
                 endVars, delivered, counts>>
------------------------------------------------------------------------------
(* CloseInput.  sync.Once lets one caller through; the others wait for it,  *)
(* so its steps need no owner.                                             *)

\* The owner of the stage, the cancel watcher, or a worker that has failed.
BeginClose ==
  /\ shut = "open"
  /\ shut' = "stopping"
  /\ UNCHANGED <<admissionVars, submitVars, in, workerVars, scaleVars, ceiling,
                 ctxVars, endVars, delivered, counts>>

GateClose ==
  /\ shut = "stopping"
  /\ shut' = "gated"
  /\ CloseAdmission
  /\ UNCHANGED <<submitVars, in, workerVars, scaleVars, ceiling, ctxVars,
                 endVars, delivered, counts>>

FlagClose ==
  /\ shut = "gated"
  /\ shut' = "closed"
  /\ UNCHANGED <<admissionVars, submitVars, in, workerVars, scaleVars, ceiling,
                 ctxVars, endVars, delivered, counts>>

SignalClose ==
  /\ shut = "closed"
  /\ shut' = "closing"
  /\ UNCHANGED <<admissionVars, submitVars, in, workerVars, scaleVars, ceiling,
                 ctxVars, endVars, delivered, counts>>

\* Mutants of CloseIn: closes under a sender, waits for every slot to be back.
CloseInAtOnce ==
  /\ shut = "closing"
  /\ shut' = "done"
  /\ UNCHANGED <<admissionVars, submitVars, in, workerVars, scaleVars, ceiling,
                 ctxVars, endVars, delivered, counts>>
CloseInWhenEmpty ==
  /\ shut = "closing"
  /\ permits = {}
  /\ shut' = "done"
  /\ UNCHANGED <<admissionVars, submitVars, in, workerVars, scaleVars, ceiling,
                 ctxVars, endVars, delivered, counts>>

\* The write lock waits for the senders.
CloseIn ==
  /\ shut = "closing"
  /\ \A i \in Items : pc[i] # "sending"
  /\ shut' = "done"
  /\ UNCHANGED <<admissionVars, submitVars, in, workerVars, scaleVars, ceiling,
                 ctxVars, endVars, delivered, counts>>
------------------------------------------------------------------------------
(* Contexts and completion. *)

ExpireSubmit(i) ==
  /\ i \in Impatient \ expired
  /\ pc[i] \notin {"accepted", "refused"}
  /\ expired' = expired \cup {i}
  /\ UNCHANGED <<admissionVars, pc, in, workerVars, scaleVars, ceiling, shut,
                 ctxVars, endVars, delivered, counts>>

ParentCancel ==
  /\ ParentMayCancel
  /\ parentDone' = TRUE
  /\ UNCHANGED <<admissionVars, submitVars, in, workerVars, scaleVars, ceiling,
                 shut, stageDone, err, endVars, delivered, counts>>

\* The parent's cancel reaches the derived context after its own Err is set.
PropagateCancel ==
  /\ parentDone /\ ~stageDone
  /\ stageDone' = TRUE
  /\ UNCHANGED <<admissionVars, submitVars, in, workerVars, scaleVars, ceiling,
                 shut, parentDone, err, endVars, delivered, counts>>

\* Mutant of LatchCause: only a reported failure counts.
LatchFailureOnly ==
  /\ \A w \in Workers : wpc[w] \in {"unborn", "exited"}
  /\ cause = "unset"
  /\ cause' = IF err # None THEN "failure" ELSE "nil"
  /\ UNCHANGED <<admissionVars, submitVars, in, workerVars, scaleVars, ceiling,
                 shut, ctxVars, done, delivered, counts>>

\* The closer goroutine, after wg.Wait.
LatchCause ==
  /\ \A w \in Workers : wpc[w] \in {"unborn", "exited"}
  /\ cause = "unset"
  /\ cause' = IF err # None THEN "failure" ELSE IF parentDone THEN "parent" ELSE "nil"
  /\ UNCHANGED <<admissionVars, submitVars, in, workerVars, scaleVars, ceiling,
                 shut, ctxVars, done, delivered, counts>>

Complete ==
  /\ cause # "unset" /\ ~done
  /\ done' = TRUE
  /\ stageDone' = TRUE
  /\ UNCHANGED <<admissionVars, submitVars, in, workerVars, scaleVars, ceiling,
                 shut, parentDone, err, cause, delivered, counts>>
------------------------------------------------------------------------------
(* Controls of the operator. *)

\* Workers are numbered in the order they are started.
Live == {w \in workerHandles : wpc[w] # "exited"}
Unborn == {w \in Workers : wpc[w] = "unborn"}
Age(w) == Cardinality({v \in Live : v <= w})   \* its position, 1 the oldest

\* New workers are started with fresh contexts; the bound MaxSpawned limits n.
ScaleUp(n) ==
  LET more == n - Cardinality(Live)
      first == MaxSpawned - Cardinality(Unborn) + 1
      born == first..(first + more - 1)
  IN  /\ more > 0
      /\ born \subseteq Workers
      /\ workerHandles' = Live \cup born
      /\ wpc' = [w \in Workers |-> IF w \in born THEN "idle" ELSE wpc[w]]
      /\ UNCHANGED retired

\* Mutant of ScaleDown: one worker too many is cancelled.
ScaleDownOneMore(n) ==
  /\ n <= Cardinality(Live)
  /\ workerHandles' = Live
  /\ retired' = retired \cup {w \in Live : Age(w) >= n}
  /\ UNCHANGED wpc

\* The newest handles are cancelled, retired or not before.
ScaleDown(n) ==
  /\ n <= Cardinality(Live)
  /\ workerHandles' = Live
  /\ retired' = retired \cup {w \in Live : Age(w) > n}
  /\ UNCHANGED wpc

\* Mutant of SetWorkers: does not look at the stopping flag.
SetWorkersLate(n) ==
  /\ targetWorkers' = n
  /\ ScaleUp(n) \/ ScaleDown(n)
  /\ UNCHANGED <<admissionVars, submitVars, in, job, kind, ceiling, shut,
                 ctxVars, endVars, delivered, counts>>

SetWorkers(n) ==
  /\ ~Stopping
  /\ targetWorkers' = n
  /\ ScaleUp(n) \/ ScaleDown(n)
  /\ UNCHANGED <<admissionVars, submitVars, in, job, kind, ceiling, shut,
                 ctxVars, endVars, delivered, counts>>

\* ActiveWorkers compacts the handles as a side effect.
ActiveWorkers ==
  /\ workerHandles' = Live
  /\ UNCHANGED <<admissionVars, submitVars, in, workerVars, retired,
                 targetWorkers, ceiling, shut, ctxVars, endVars, delivered, counts>>

\* SetMaxWIP reads the worker target under workersMu ...
ReadCeiling ==
  /\ ceiling = 0 /\ MaxWIPArgs # {}
  /\ ceiling' = Capacity + targetWorkers
  /\ UNCHANGED <<admissionVars, submitVars, in, workerVars, scaleVars, shut,
                 ctxVars, endVars, delivered, counts>>

\* ... and applies the clamped limit later, under admissionMu.
SetMaxWIP(n) ==
  /\ ceiling # 0
  /\ ceiling' = 0
  /\ ApplyMaxWIP(IF n > ceiling THEN ceiling ELSE n)
  /\ UNCHANGED <<submitVars, in, workerVars, scaleVars, shut, ctxVars, endVars,
                 delivered, counts>>

OtherControl ==
  /\ \/ \E n \in WeightArgs : SetMaxWIPWeight(n)
     \/ WeightArgs # {} /\ DisableMaxWIPWeight
     \/ MayPause /\ (PauseAdmission \/ ResumeAdmission)
  /\ UNCHANGED ownVars
------------------------------------------------------------------------------
SubmitStep(i) ==
  \/ EnterSubmit(i) \/ RefuseAtEntry(i) \/ RefuseAtGate(i)
  \/ AcquireFast(i) \/ AcquireSlow(i) \/ SeeGrant(i) \/ GiveUpWaiting(i)
  \/ StartSend(i) \/ FindClosed(i) \/ Send(i) \/ GiveUpSend(i) \/ Rollback(i)
  \/ \E w \in Workers : HandOver(i, w)

WorkerStep(w) ==
  \/ Take(w) \/ ExitWorker(w) \/ SkipCanceled(w) \/ RunFn(w)
  \/ FnSucceeds(w) \/ FnFails(w) \/ ReportFailure(w) \/ CancelStage(w)
  \/ FailureClosed(w) \/ Receive(w) \/ FinishItem(w)

CloseStep == BeginClose \/ GateClose \/ FlagClose \/ SignalClose \/ CloseIn

ContextStep ==
  \/ \E i \in Items : ExpireSubmit(i)
  \/ ParentCancel \/ PropagateCancel

ControlStep ==
  \/ \E n \in WorkerArgs : SetWorkers(n)
  \/ ActiveWorkers
  \/ ReadCeiling
  \/ \E n \in MaxWIPArgs : SetMaxWIP(n)
  \/ OtherControl

StageNext ==
  \/ \E i \in Items : SubmitStep(i)
  \/ \E w \in Workers : WorkerStep(w)
  \/ CloseStep
  \/ ContextStep
  \/ LatchCause \/ Complete
  \/ ControlStep

StageSpec == StageInit /\ [][StageNext]_stageVars
------------------------------------------------------------------------------
(* Every goroutine of the stage keeps running, a consumer keeps reading    *)
(* Out (its duty, toc.go:898-901), and fn returns.  The owner need not     *)
(* close the input, no context need be cancelled and no control be used.   *)
CloseRequested == stageDone \/ (\E w \in Workers : wpc[w] = "close")

Fairness ==
  /\ \A i \in Items : WF_stageVars(SubmitStep(i))
  /\ \A w \in Workers : WF_stageVars(WorkerStep(w))
  /\ WF_stageVars(CloseRequested /\ BeginClose)
  /\ WF_stageVars(GateClose \/ FlagClose \/ SignalClose \/ CloseIn)
  /\ WF_stageVars(PropagateCancel)
  /\ WF_stageVars(LatchCause \/ Complete)

FairStageSpec == StageSpec /\ Fairness
------------------------------------------------------------------------------
InChannel == {in[k] : k \in DOMAIN in}
AtWorker == {job[w] : w \in Workers} \ {None}
Owed == {i \in Items : pc[i] = "accepted" /\ delivered[i] = 0}

StageTypeOK ==
  /\ TypeOK
  /\ pc \in [Items -> {"new", "acquire", "waiting", "send", "sending",
                       "rollback", "accepted", "refused"}]
  /\ expired \subseteq Items
  /\ in \in Seq(Items)
  /\ wpc \in [Workers -> {"unborn", "idle", "taken", "running", "report",
                          "cancel", "close", "emit", "release", "exited"}]
  /\ job \in [Workers -> Items \cup {None}]
  /\ kind \in [Workers -> {"none", "ok", "failed", "canceled"}]
  /\ workerHandles \subseteq Workers
  /\ retired \subseteq Workers
  /\ targetWorkers \in Nat \ {0}
  /\ ceiling \in Nat
  /\ shut \in {"open", "stopping", "gated", "closed", "closing", "done"}
  /\ parentDone \in BOOLEAN /\ stageDone \in BOOLEAN
  /\ err \in Items \cup {None}
  /\ cause \in {"unset", "nil", "failure", "parent"}
  /\ done \in BOOLEAN
  /\ delivered \in [Items -> Nat]
  /\ counts \in [{"submitted", "completed", "failed", "canceled"} -> Nat]

(* A slot is owned exactly while the item is between its grant and the     *)
(* release: at the sender, in the channel or at a worker.  No path of      *)
(* Submit or processItem forgets or repeats a release (toc.go:651-657,     *)
(* 1436).                                                                  *)
SlotLedger ==
  permits = {i \in Items : \/ pc[i] \in {"send", "sending", "rollback"}
                           \/ pc[i] = "waiting" /\ i \notin Waiting}
            \cup InChannel \cup AtWorker

(* The stage keeps its promise to submitter and consumer.                  *)
ItemState(i) ==
  IF delivered[i] > 1 THEN "twice"
  ELSE IF delivered[i] = 1 THEN "delivered"
  ELSE IF pc[i] \in {"accepted", "refused"} THEN pc[i]
  ELSE "open"
Contract == INSTANCE StageContract
              WITH state <- [i \in Items |-> ItemState(i)],
                   sealed <- InputClosed, finished <- done
ImplementsContract == Contract!ContractSpec

(* close(in) never meets a sender: the send would panic (trySend and       *)
(* CloseInput, toc.go:790-823, 866-871).                                   *)
NoSendOnClosedInput == InputClosed => \A i \in Items : pc[i] # "sending"

(* However often and however fast the stage is scaled, the workers that    *)
(* are not on their way out never exceed the target, and until the input   *)
(* is closed one of them will come back for more: counting workers that    *)
(* have been cancelled as live may start too few, never too many           *)
(* (SetWorkers, toc.go:1266-1303).                                         *)
Staying == {w \in Workers : wpc[w] \notin {"unborn", "exited"} /\ w \notin retired}
WorkersWithinTarget ==
  /\ Cardinality(Staying) <= targetWorkers
  /\ ~InputClosed => Staying # {}

(* Completion: nothing is left anywhere when the terminal cause is latched, *)
(* no worker is started after it, and the counters add up (start,          *)
(* toc.go:494-511; SetWorkers, toc.go:1254-1257; Stats).                   *)
NothingLeftBehind ==
  cause # "unset" =>
    /\ in = <<>> /\ AtWorker = {} /\ Owed = {}
    /\ \A w \in Workers : wpc[w] \in {"unborn", "exited"}
    /\ counts.submitted = counts.completed + counts.canceled

(* Cause is nil only if no item was cancelled and, when failing fast, none *)
(* failed; it is an fn error only if that error was reported (Cause,       *)
(* toc.go:927-936).                                                        *)
CauseIsHonest ==
  /\ cause = "nil" => counts.canceled = 0 /\ (FailFast => counts.failed = 0)
  /\ cause = "failure" => counts.failed > 0 /\ FailFast
  /\ cause = "parent" => parentDone

(* Once CloseInput has begun, and once any context is cancelled, the stage *)
(* completes; every Submit returns (toc.go:486-511, 595-606).              *)
ShutdownCompletes == (shut # "open" \/ stageDone) ~> done
SubmitsReturn ==
  \A i \in Items : (pc[i] # "new" /\ Closing) ~> pc[i] \in {"accepted", "refused"}

(* What is accepted is eventually delivered, whether the stage is closed   *)
(* or not.                                                                 *)
AcceptedDelivered ==
  \A i \in Items : pc[i] = "accepted" ~> delivered[i] = 1

(* A Submit whose weight and count fit is not left blocked: it goes on     *)
(* when the limits allow it ("Submit blocks when the limit is reached",    *)
(* toc.go:107-108).                                                        *)
BlockedOnlyAtLimit ==
  \A i \in Items :
    (HeadGrantable /\ waiters[1].item = i) ~> pc[i] # "waiting"
==============================================================================
