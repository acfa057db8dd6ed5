------------------------------ MODULE Admission ------------------------------
(***************************************************************************)
(* The admission controller of a stage (toc.go): the count and weight      *)
(* limits on admitted items, the FIFO list of blocked Submits, oversize    *)
(* policies, pause and close.  Everything here happens under admissionMu,  *)
(* so each critical section is one action, the loop of grantWaitersLocked  *)
(* included.                                                               *)
(*                                                                         *)
(* An item stands for one Submit call.  "permits" is the set of items that *)
(* own an admission slot.  The code has no such set: ownership is carried  *)
(* by control flow, and "queue membership under admissionMu is the source  *)
(* of truth for slot ownership" (toc.go:757).  The counters of the code    *)
(* are compared with it.                                                   *)
(***************************************************************************)
EXTENDS Integers, Sequences, FiniteSets, FiniteSetsExt

CONSTANTS
  Items,          \* Submit calls
  Weight,         \* Options.Weight: the weight of each item
  Policies,       \* values of Options.OversizePolicy to start with
  InitMaxWIP,     \* the clamped Options.MaxWIP
  OptMaxWIPWeight,\* Options.MaxWIPWeight as given
  MaxWIPArgs,     \* count limits an operator may set
  WeightArgs      \* weight limits an operator may set

ASSUME ItemsAssumption == IsFiniteSet(Items)
ASSUME WeightAssumption == Weight \in [Items -> Nat]
ASSUME PolicyAssumption == Policies \subseteq {"Reject", "Wait", "Allow"}
ASSUME LimitAssumption == InitMaxWIP \in Nat \ {0} /\ OptMaxWIPWeight \in Int
ASSUME ArgsAssumption == MaxWIPArgs \subseteq Nat \ {0} /\ WeightArgs \subseteq Nat

VARIABLES
  admitted,           \* items holding a slot, as counted
  admittedWeight,     \* their accumulated weight, as counted
  policy,             \* oversizePolicy, never changed
  maxWIP,
  maxWIPWeight,
  paused,
  closedForAdmission,
  waiters,            \* FIFO of [item, exempt]
  permits             \* items that own a slot

admissionVars == <<admitted, admittedWeight, policy, maxWIP, maxWIPWeight,
                   paused, closedForAdmission, waiters, permits>>

Disabled == -1        \* maxWIPWeightDisabled

MaxWIPWeightFromOpts(v) == IF v <= 0 THEN Disabled ELSE v

Waiter == [item : Items, exempt : BOOLEAN]
Waiting == {waiters[k].item : k \in DOMAIN waiters}

AdmissionInit ==
  /\ admitted = 0
  /\ admittedWeight = 0
  /\ policy \in Policies
  /\ maxWIP = InitMaxWIP
  /\ maxWIPWeight = MaxWIPWeightFromOpts(OptMaxWIPWeight)
  /\ paused = FALSE
  /\ closedForAdmission = FALSE
  /\ waiters = <<>>
  /\ permits = {}
------------------------------------------------------------------------------
(* The tests made under the lock. *)

\* Mutant of WeightAllows: forgets what is already admitted.
WeightAllowsAlone(w, load, limit) == limit = Disabled \/ w <= limit

WeightAllows(w, load, limit) == limit = Disabled \/ w <= limit - load

\* weight exceeds the limit in force.
Oversize(w, limit) == limit # Disabled /\ w > limit

\* The one-time exemption of OversizeAllow: no debt at this moment.
Exempts(w, load, limit) ==
  policy = "Allow" /\ Oversize(w, limit) /\ load <= limit

Total(S) == MapThenSumSet(LAMBDA i : Weight[i], S)

\* Weight of the first n waiters.
QueueWeight(n) == MapThenSumSet(LAMBDA k : Weight[waiters[k].item], 1..n)

\* Mutant of LoopGrants: the count is tested one slot late.
LoopGrantsOneMore(k, a, aw, wip, ww) ==
  LET w == Weight[waiters[k].item]
      load == aw + QueueWeight(k - 1)
  IN  /\ a + (k - 1) <= wip
      /\ waiters[k].exempt \/ WeightAllows(w, load, ww) \/ Exempts(w, load, ww)

\* The loop of grantWaitersLocked, entered with a slots out weighing aw and the
\* limits wip and ww, grants the k-th waiter once it has granted the k-1 before.
LoopGrants(k, a, aw, wip, ww) ==
  LET w == Weight[waiters[k].item]
      load == aw + QueueWeight(k - 1)
  IN  /\ a + (k - 1) < wip
      /\ \/ waiters[k].exempt
         \/ WeightAllows(w, load, ww)
         \/ Exempts(w, load, ww)

\* ... and stops after granting n of them.
LoopStopsAfter(n, a, aw, wip, ww) ==
  /\ \A k \in 1..n : LoopGrants(k, a, aw, wip, ww)
  /\ n < Len(waiters) => ~LoopGrants(n + 1, a, aw, wip, ww)

\* Mutant of GrantWaitersLocked: a granted waiter stays in the queue.
GrantWithoutRemoval(held, a, aw) ==
  \E n \in 0..Len(waiters) :
    /\ IF closedForAdmission \/ paused'
       THEN n = 0
       ELSE LoopStopsAfter(n, a, aw, maxWIP', maxWIPWeight')
    /\ admitted' = a + n
    /\ admittedWeight' = aw + QueueWeight(n)
    /\ waiters' = waiters
    /\ permits' = held \cup {waiters[k].item : k \in 1..n}

\* Mutant of GrantWaitersLocked: when the head does not fit the last waiter is
\* tried.
GrantFromBack(held, a, aw) ==
  LET last == Len(waiters)
      open == last > 0 /\ ~closedForAdmission /\ ~paused'
      fits == open /\ LoopGrants(last, a - (last - 1), aw - QueueWeight(last - 1),
                                 maxWIP', maxWIPWeight')
      n == IF fits THEN 1 ELSE 0
  IN  /\ admitted' = a + n
      /\ admittedWeight' = aw + (IF fits THEN Weight[waiters[last].item] ELSE 0)
      /\ waiters' = SubSeq(waiters, 1, last - n)
      /\ permits' = held \cup (IF fits THEN {waiters[last].item} ELSE {})

\* grantWaitersLocked, run with the slots in "held", counted as a and aw, and
\* after the caller has set its limits and pause flag (primed here).
GrantWaitersLocked(held, a, aw) ==
  \E n \in 0..Len(waiters) :
    /\ IF closedForAdmission \/ paused'
       THEN n = 0
       ELSE LoopStopsAfter(n, a, aw, maxWIP', maxWIPWeight')
    /\ admitted' = a + n
    /\ admittedWeight' = aw + QueueWeight(n)
    /\ waiters' = SubSeq(waiters, n + 1, Len(waiters))
    /\ permits' = held \cup {waiters[k].item : k \in 1..n}
------------------------------------------------------------------------------
(* acquireAdmission: five outcomes of one critical section. *)

RefusedClosed == closedForAdmission

RefusedOversize(i) ==
  /\ ~closedForAdmission
  /\ policy = "Reject"
  /\ Oversize(Weight[i], maxWIPWeight)

FastPath(i, exempt) ==
  /\ ~paused
  /\ admitted < maxWIP
  /\ exempt \/ WeightAllows(Weight[i], admittedWeight, maxWIPWeight)

\* The item passes the gate with the exemption decided, once, at this moment.
PassesGate(i, exempt) ==
  /\ i \notin permits \cup Waiting
  /\ ~closedForAdmission
  /\ ~RefusedOversize(i)
  /\ exempt = Exempts(Weight[i], admittedWeight, maxWIPWeight)

AdmitNow(i) ==
  \E exempt \in BOOLEAN :
    /\ PassesGate(i, exempt)
    /\ FastPath(i, exempt)
    /\ admitted' = admitted + 1
    /\ admittedWeight' = admittedWeight + Weight[i]
    /\ permits' = permits \cup {i}
    /\ UNCHANGED <<policy, maxWIP, maxWIPWeight, paused, closedForAdmission, waiters>>

Enqueue(i) ==
  \E exempt \in BOOLEAN :
    /\ PassesGate(i, exempt)
    /\ ~FastPath(i, exempt)
    /\ waiters' = Append(waiters, [item |-> i, exempt |-> exempt])
    /\ UNCHANGED <<policy, admitted, admittedWeight, maxWIP, maxWIPWeight, paused,
                   closedForAdmission, permits>>

\* revokeOrHonor finds the waiter still queued and removes it.  A waiter that
\* is no longer queued was granted, and its Submit goes on with the slot.
Revoke(i) ==
  \E k \in DOMAIN waiters :
    /\ waiters[k].item = i
    /\ waiters' = SubSeq(waiters, 1, k - 1) \o SubSeq(waiters, k + 1, Len(waiters))
    /\ UNCHANGED <<policy, admitted, admittedWeight, maxWIP, maxWIPWeight, paused,
                   closedForAdmission, permits>>

\* Mutant of ReleaseAdmission: the slot is counted back twice.
ReleaseTwice(i) ==
  /\ i \in permits
  /\ UNCHANGED <<policy, maxWIP, maxWIPWeight, paused, closedForAdmission>>
  /\ GrantWaitersLocked(permits \ {i}, admitted - 2, admittedWeight - Weight[i])

ReleaseAdmission(i) ==
  /\ i \in permits
  /\ UNCHANGED <<policy, maxWIP, maxWIPWeight, paused, closedForAdmission>>
  /\ GrantWaitersLocked(permits \ {i}, admitted - 1, admittedWeight - Weight[i])
------------------------------------------------------------------------------
(* The operator's controls. *)

\* n is the value after the clamp, which is computed outside admissionMu.
ApplyMaxWIP(n) ==
  /\ maxWIP' = n
  /\ UNCHANGED <<policy, maxWIPWeight, paused, closedForAdmission>>
  /\ GrantWaitersLocked(permits, admitted, admittedWeight)

SetMaxWIPWeight(n) ==
  /\ maxWIPWeight' = n
  /\ UNCHANGED <<policy, maxWIP, paused, closedForAdmission>>
  /\ GrantWaitersLocked(permits, admitted, admittedWeight)

DisableMaxWIPWeight ==
  /\ maxWIPWeight' = Disabled
  /\ UNCHANGED <<policy, maxWIP, paused, closedForAdmission>>
  /\ GrantWaitersLocked(permits, admitted, admittedWeight)

PauseAdmission ==
  /\ paused' = TRUE
  /\ UNCHANGED <<policy, admitted, admittedWeight, maxWIP, maxWIPWeight,
                 closedForAdmission, waiters, permits>>

\* Mutant of ResumeAdmission: lifts the pause and does not serve the queue.
ResumeWithoutGrant ==
  /\ paused' = FALSE
  /\ UNCHANGED <<policy, admitted, admittedWeight, maxWIP, maxWIPWeight,
                 closedForAdmission, waiters, permits>>

ResumeAdmission ==
  /\ paused' = FALSE
  /\ UNCHANGED <<policy, maxWIP, maxWIPWeight, closedForAdmission>>
  /\ GrantWaitersLocked(permits, admitted, admittedWeight)

\* The part of CloseInput under admissionMu: no grant happens after it.
CloseAdmission ==
  /\ closedForAdmission' = TRUE
  /\ UNCHANGED <<policy, admitted, admittedWeight, maxWIP, maxWIPWeight, paused,
                 waiters, permits>>
------------------------------------------------------------------------------
(* The controller on its own: any item may be submitted again once its     *)
(* permit is back, and revocation and release come from an arbitrary user. *)

AdmissionNext ==
  \/ \E i \in Items : AdmitNow(i)
  \/ \E i \in Items : Enqueue(i)
  \/ \E i \in Items : Revoke(i)
  \/ \E i \in Items : ReleaseAdmission(i)
  \/ \E n \in MaxWIPArgs : ApplyMaxWIP(n)
  \/ \E n \in WeightArgs : SetMaxWIPWeight(n)
  \/ DisableMaxWIPWeight
  \/ PauseAdmission
  \/ ResumeAdmission
  \/ CloseAdmission

AdmissionSpec == AdmissionInit /\ [][AdmissionNext]_admissionVars
------------------------------------------------------------------------------
(* TypeOK: every component of the controller has its type.  admittedWeight *)
(* is a sum over permits, which WeightLimitStep pins down.                 *)
TypeOK ==
  /\ admitted \in Nat
  /\ policy \in Policies
  /\ maxWIP \in Nat \ {0}
  /\ maxWIPWeight \in Nat \cup {Disabled}
  /\ paused \in BOOLEAN
  /\ closedForAdmission \in BOOLEAN
  /\ waiters \in Seq(Waiter)
  /\ permits \in SUBSET Items

(* No item waits twice, and none both waits and owns a slot: the Submit    *)
(* that is granted while it revokes must not be counted as rejected too    *)
(* (revokeOrHonor, toc.go:747-774).                                        *)
QueueDisjoint ==
  /\ \A j, k \in DOMAIN waiters : waiters[j].item = waiters[k].item => j = k
  /\ Waiting \cap permits = {}

(* The counter is never off by a permit: each slot taken by the fast path  *)
(* or granted by the loop is counted once and returned once, and nobody    *)
(* who owns one is in the queue (toc.go:695-696, 1100-1101, 1115-1116).    *)
CountConserved == admitted = Cardinality(permits)
PermitConservation == QueueDisjoint /\ CountConserved

\* The slots out at the moment i gets its own: those that are kept and those
\* that the same run of the loop has granted to waiters in front of it.
OutBefore(i) ==
  {h \in permits' \ {i} :
     \A j, k \in DOMAIN waiters :
       waiters[j].item = i /\ waiters[k].item = h => k < j}

\* A slot for i on top of the weight load needs no excuse, or has one.
WithinWeight(i, load) ==
  \/ maxWIPWeight' = Disabled
  \/ load + Weight[i] <= maxWIPWeight'
  \/ Exempts(Weight[i], load, maxWIPWeight')
  \/ policy = "Allow" /\ \E k \in DOMAIN waiters :
       waiters[k] = [item |-> i, exempt |-> TRUE]

(* The weight admitted is the weight of the slots in use.  Under every     *)
(* policy a slot is handed out only if its item fits in what the slots out *)
(* before it leave of the limit in force; the two exceptions, both under   *)
(* OversizeAllow, are an item that is itself over the limit while those    *)
(* slots leave no debt, and one that was over it, without a debt, when it  *)
(* joined the queue (MaxWIPWeight, toc.go:114-118, 682-694, 1075-1093).    *)
WeightLimitStep ==
  /\ admittedWeight' = Total(permits')
  /\ \A i \in permits' \ permits : WithinWeight(i, Total(OutBefore(i)))
  /\ \A k \in DOMAIN waiters' :
       \/ \E j \in DOMAIN waiters : waiters'[k] = waiters[j]
       \/ waiters'[k].exempt
            => Exempts(Weight[waiters'[k].item], Total(permits), maxWIPWeight)
WeightLimitRespected == [][WeightLimitStep]_admissionVars

(* Slots are handed out only while admission is open and running, never    *)
(* beyond the count limit in force at that moment (also when the same call *)
(* has just moved the limit), and one at a time come back: the controller  *)
(* implements PermitPool (MaxWIP, toc.go:107-112; no grant after close,    *)
(* toc.go:1069-1071).                                                      *)
Pool == INSTANCE PermitPool
          WITH holders <- permits, limit <- maxWIP, closed <- closedForAdmission
ImplementsPool == Pool!PoolSpec

(* A Submit that waits leaves the queue only after all that were queued    *)
(* before it, unless it is revoked: a heavy item is not overtaken inside   *)
(* the queue (toc.go:1093).                                                *)
FifoGrantsStep ==
  \A j, k \in DOMAIN waiters :
    j < k /\ waiters[k].item \in permits' => waiters[j].item \in permits'
FifoGrants == [][FifoGrantsStep]_admissionVars

(* OversizeAllow tolerates one oversize item at a time: an oversize item   *)
(* gets a slot only if the others leave no debt (toc.go:86-91).            *)
OversizeDebtStep ==
  \A i \in permits' \ permits :
    Oversize(Weight[i], maxWIPWeight') => Total(permits' \ {i}) <= maxWIPWeight'
OneOversizeAtATime == [][OversizeDebtStep]_admissionVars

\* The waiter at the head of the queue could be granted now.
HeadGrantable ==
  /\ waiters # <<>>
  /\ ~closedForAdmission
  /\ ~paused
  /\ LoopGrants(1, admitted, admittedWeight, maxWIP, maxWIPWeight)

(* No wake-up is lost: every critical section that makes the head of the   *)
(* queue admissible grants it before it unlocks.  Revocation is left out   *)
(* on purpose: it removes a waiter and does not run the loop.              *)
NoMissedGrantStep ==
  ~HeadGrantable /\ HeadGrantable' => \E i \in Items : Revoke(i)
NoMissedGrant == [][NoMissedGrantStep]_admissionVars
==============================================================================
