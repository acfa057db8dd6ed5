----------------------------- MODULE StageProofs -----------------------------
(***************************************************************************)
(* The stage, for every set of items, every weight function, every policy, *)
(* every capacity, number of workers, failure, cancellation and scaling.   *)
(*                                                                         *)
(* First the admission controller, on its own: its state is well typed,    *)
(* its count is never off by a permit, no Submit is both queued and        *)
(* admitted, and it implements PermitPool.  AdmissionInv is inductive as   *)
(* it stands.  Then weights and the order of the queue: the weight in use  *)
(* is never off and within its limit, waiters are granted in order and no  *)
(* step but a revocation leaves a grantable head.  WeightInv adds to       *)
(* AdmissionInv what the weight counters are sums of.                      *)
(*                                                                         *)
(* Then the life of a stage.  The argument follows the slot.  Every slot   *)
(* is where control flow says: at a Submit, in the channel or with a       *)
(* worker, one place each (Places), and what is owed to the consumer is    *)
(* what the channel and the workers hold (Deliveries).  The first worker   *)
(* is never retired (Team), so the workers are gone only once the input is *)
(* closed and empty; hence what holds when the cause is latched (Ending,   *)
(* Counting, Reasons).                                                     *)
(***************************************************************************)
EXTENDS Stage, Lemmas

-------------------------------------------------------------------------------
(* The admission controller.                                                   *)

AdmissionInv == TypeOK /\ QueueDisjoint /\ CountConserved

\* The first n waiters, as items.
Granted(n) == {waiters[k].item : k \in 1..n}

\* The abstract pool counts as the controller does.
LEMMA PoolCardinality == \A S : Pool!Cardinality(S) = Cardinality(S)
BY DEF Pool!Cardinality, Cardinality

\* The admitted items are finitely many.
LEMMA PermitsFinite ==
  ASSUME TypeOK
  PROVE  IsFiniteSet(permits) /\ Cardinality(permits) \in Nat
BY ItemsAssumption, FS_Subset, FS_CardinalityType DEF TypeOK

\* Waiters are distinct, so the first n of them are n items.
LEMMA GrantedCount ==
  ASSUME TypeOK, QueueDisjoint, NEW n \in 0..Len(waiters)
  PROVE  /\ Granted(n) \subseteq Items
         /\ IsFiniteSet(Granted(n))
         /\ Cardinality(Granted(n)) = n
<1>1. waiters \in Seq(Waiter) /\ Len(waiters) \in Nat /\ n \in Nat
  BY DEF TypeOK
<1>2. \A k \in 1..n : waiters[k] \in Waiter /\ k \in DOMAIN waiters
  BY <1>1
<1>3. Granted(n) \subseteq Items
  BY <1>2 DEF Granted, Waiter
<1>. DEFINE f == [k \in 1..n |-> waiters[k].item]
<1>4. f \in Bijection(1..n, Granted(n))
  <2>1. \A j, k \in 1..n : f[j] = f[k] => j = k
    BY <1>2 DEF QueueDisjoint
  <2>2. f \in [1..n -> Granted(n)]
    BY DEF Granted
  <2>3. \A t \in Granted(n) : \E k \in 1..n : f[k] = t
    BY DEF Granted
  <2>4. QED
    BY <2>1, <2>2, <2>3 DEF Bijection, Injection, Surjection, IsInjective
<1>5. IsFiniteSet(1..n) /\ Cardinality(1..n) = n
  BY <1>1, FS_Interval
<1>6. QED
  BY <1>3, <1>4, <1>5, FS_Bijection DEF ExistsBijection

\* What one run of grantWaitersLocked does to the queue and the permits, when
\* the caller has dropped at most some permits and counted them correctly.
LEMMA GrantWaiters ==
  ASSUME TypeOK, QueueDisjoint,
         NEW held \in SUBSET permits, NEW a \in Nat, NEW aw,
         a = Cardinality(held),
         maxWIP' \in Nat,
         GrantWaitersLocked(held, a, aw)
  PROVE  /\ waiters' \in Seq(Waiter)
         /\ permits' \in SUBSET Items
         /\ held \subseteq permits'
         /\ admitted' \in Nat
         /\ CountConserved'
         /\ QueueDisjoint'
         /\ permits' # held => /\ ~closedForAdmission /\ ~paused'
                               /\ admitted' <= maxWIP'
                               /\ Items # {}
<1>1. PICK n \in 0..Len(waiters) :
        /\ IF closedForAdmission \/ paused'
             THEN n = 0
             ELSE LoopStopsAfter(n, a, aw, maxWIP', maxWIPWeight')
        /\ admitted' = a + n
        /\ waiters' = SubSeq(waiters, n + 1, Len(waiters))
        /\ permits' = held \cup Granted(n)
  BY DEF GrantWaitersLocked, Granted
<1>2. waiters \in Seq(Waiter) /\ Len(waiters) \in Nat /\ n \in Nat
  BY DEF TypeOK
<1>3. \A k \in DOMAIN waiters : waiters[k] \in Waiter
  BY <1>2
<1>4. /\ Granted(n) \subseteq Items /\ IsFiniteSet(Granted(n))
      /\ Cardinality(Granted(n)) = n
  BY GrantedCount
<1>5. waiters' \in Seq(Waiter)
  BY <1>1, <1>2
<1>6. /\ Len(waiters') = Len(waiters) - n
      /\ \A k \in DOMAIN waiters' : /\ k + n \in DOMAIN waiters
                                    /\ k \in Nat
                                    /\ waiters'[k] = waiters[k + n]
  BY <1>1, <1>2
<1>7. permits' \in SUBSET Items /\ held \subseteq permits' /\ admitted' \in Nat
  BY <1>1, <1>2, <1>4 DEF TypeOK
<1>8. Granted(n) \subseteq Waiting
  BY <1>2 DEF Granted, Waiting
<1>9. CountConserved'
  <2>1. held \cap Granted(n) = {}
    BY <1>8 DEF QueueDisjoint
  <2>2. IsFiniteSet(held)
    BY PermitsFinite, FS_Subset
  <2>3. Cardinality(held \cup Granted(n)) = a + n - Cardinality({})
    BY <2>1, <2>2, <1>4, FS_Union
  <2>4. QED
    BY <2>3, <1>1, <1>2, FS_EmptySet DEF CountConserved
<1>10. QueueDisjoint'
  <2>1. \A j, k \in DOMAIN waiters' :
           waiters'[j].item = waiters'[k].item => j = k
    BY <1>6, <1>2 DEF QueueDisjoint
  <2>2. \A i \in Waiting' : i \in Waiting /\ i \notin Granted(n)
    <3> SUFFICES ASSUME NEW k \in DOMAIN waiters'
                 PROVE  waiters'[k].item \in Waiting /\ waiters'[k].item \notin Granted(n)
      BY DEF Waiting
    <3>1. waiters'[k].item = waiters[k + n].item /\ k + n \in DOMAIN waiters
      BY <1>6
    <3>2. ASSUME NEW j \in 1..n, waiters[j].item = waiters[k + n].item
          PROVE  FALSE
      <4>1. j \in DOMAIN waiters /\ k \in Nat /\ k >= 1
        BY <1>2, <1>6, <1>5
      <4>2. j = k + n
        BY <3>1, <3>2, <4>1 DEF QueueDisjoint
      <4>3. QED
        BY <4>1, <4>2, <1>2
    <3>3. QED
      BY <3>1, <3>2 DEF Waiting, Granted
  <2>3. Waiting' \cap permits' = {}
    BY <2>2, <1>1 DEF QueueDisjoint
  <2>4. QED
    BY <2>1, <2>3 DEF QueueDisjoint
<1>11. ASSUME permits' # held
       PROVE  /\ ~closedForAdmission /\ ~paused'
              /\ admitted' <= maxWIP'
              /\ Items # {}
  <2>1. Granted(n) # {}
    BY <1>1, <1>11
  <2>2. n >= 1
    BY <2>1, <1>2 DEF Granted
  <2>3. ~closedForAdmission /\ ~paused' /\ LoopGrants(n, a, aw, maxWIP', maxWIPWeight')
    BY <1>1, <1>2, <2>2 DEF LoopStopsAfter
  <2>4. a + (n - 1) < maxWIP'
    BY <2>3 DEF LoopGrants
  <2>5. QED
    BY <2>1, <2>3, <2>4, <1>1, <1>2, <1>4
<1>12. QED
  BY <1>5, <1>7, <1>9, <1>10, <1>11

\* Removing the k-th waiter keeps the others and their order.
LEMMA RevokeKeepsQueue ==
  ASSUME TypeOK, QueueDisjoint, NEW i, Revoke(i)
  PROVE  /\ waiters' \in Seq(Waiter)
         /\ QueueDisjoint'
         /\ \A j \in DOMAIN waiters' :
              \E l \in DOMAIN waiters : waiters'[j] = waiters[l]
<1>1. PICK k \in DOMAIN waiters :
        waiters' = SubSeq(waiters, 1, k - 1) \o SubSeq(waiters, k + 1, Len(waiters))
  BY DEF Revoke
<1>2. waiters \in Seq(Waiter) /\ Len(waiters) \in Nat /\ k \in 1..Len(waiters)
  BY DEF TypeOK
<1>. DEFINE pos(j) == IF j < k THEN j ELSE j + 1
<1>3. /\ waiters' \in Seq(Waiter)
      /\ Len(waiters') = Len(waiters) - 1
      /\ \A j \in 1..Len(waiters') : waiters'[j] = waiters[pos(j)]
  BY <1>1, <1>2, TakeOutElement
<1>4. \A j \in DOMAIN waiters' : /\ pos(j) \in DOMAIN waiters
                                /\ j \in 1..Len(waiters')
  <2>1. DOMAIN waiters' = 1..Len(waiters') /\ DOMAIN waiters = 1..Len(waiters)
    BY <1>2, <1>3, LenProperties
  <2>2. QED
    BY <2>1, <1>2, <1>3
<1>5. \A j, l \in DOMAIN waiters' : waiters'[j].item = waiters'[l].item => j = l
  <2> SUFFICES ASSUME NEW j \in DOMAIN waiters', NEW l \in DOMAIN waiters',
                      waiters'[j].item = waiters'[l].item
               PROVE  j = l
    OBVIOUS
  <2>1. pos(j) = pos(l)
    BY <1>3, <1>4 DEF QueueDisjoint
  <2>2. QED
    BY <2>1, <1>2, <1>4
<1>6. Waiting' \subseteq Waiting
  BY <1>3, <1>4 DEF Waiting
<1>7. permits' = permits
  BY DEF Revoke
<1>8. \A j \in DOMAIN waiters' : waiters'[j] = waiters[pos(j)]
  BY <1>3, <1>4
<1>9. QED
  BY <1>3, <1>4, <1>5, <1>6, <1>7, <1>8 DEF QueueDisjoint

\* Queueing an item that neither waits nor owns a slot.
LEMMA EnqueueKeepsQueue ==
  ASSUME TypeOK, QueueDisjoint, NEW i \in Items, Enqueue(i)
  PROVE  /\ waiters' \in Seq(Waiter)
         /\ QueueDisjoint'
<1>1. PICK e \in BOOLEAN :
        /\ i \notin permits /\ i \notin Waiting
        /\ waiters' = Append(waiters, [item |-> i, exempt |-> e])
        /\ permits' = permits
  BY DEF Enqueue, PassesGate
<1>. DEFINE w == [item |-> i, exempt |-> e]
<1>2. w \in Waiter /\ waiters \in Seq(Waiter) /\ Len(waiters) \in Nat
  BY DEF TypeOK, Waiter
<1>3. /\ waiters' \in Seq(Waiter)
      /\ Len(waiters') = Len(waiters) + 1
      /\ \A j \in 1..Len(waiters) : waiters'[j] = waiters[j]
      /\ waiters'[Len(waiters) + 1] = w
  BY <1>1, <1>2
<1>4. \A j \in 1..Len(waiters) : waiters[j].item # i
  BY <1>1, <1>2 DEF Waiting
<1>5. \A j, l \in DOMAIN waiters' : waiters'[j].item = waiters'[l].item => j = l
  <2> SUFFICES ASSUME NEW j \in DOMAIN waiters', NEW l \in DOMAIN waiters',
                      waiters'[j].item = waiters'[l].item
               PROVE  j = l
    OBVIOUS
  <2>1. /\ j \in 1..Len(waiters) \/ j = Len(waiters) + 1
        /\ l \in 1..Len(waiters) \/ l = Len(waiters) + 1
    BY <1>2, <1>3
  <2>2. QED
    BY <2>1, <1>2, <1>3, <1>4 DEF QueueDisjoint
<1>6. Waiting' \cap permits' = {}
  <2> SUFFICES ASSUME NEW j \in DOMAIN waiters'
               PROVE  waiters'[j].item \notin permits
    BY <1>1 DEF Waiting
  <2>1. j \in 1..Len(waiters) \/ j = Len(waiters) + 1
    BY <1>2, <1>3
  <2>2. QED
    BY <2>1, <1>1, <1>2, <1>3 DEF QueueDisjoint, Waiting
<1>7. QED
  BY <1>3, <1>5, <1>6 DEF QueueDisjoint

\* The invariant holds at first.
LEMMA AdmissionInvInit == AdmissionInit => AdmissionInv
<1> SUFFICES ASSUME AdmissionInit PROVE AdmissionInv
  OBVIOUS
<1>1. TypeOK
  <2>1. MaxWIPWeightFromOpts(OptMaxWIPWeight) \in Nat \cup {Disabled}
    BY LimitAssumption DEF MaxWIPWeightFromOpts
  <2>2. <<>> \in Seq(Waiter)
    BY EmptySeq
  <2>3. QED
    BY <2>1, <2>2, LimitAssumption DEF AdmissionInit, TypeOK
<1>2. QueueDisjoint
  BY DEF AdmissionInit, QueueDisjoint, Waiting
<1>3. CountConserved
  BY FS_EmptySet DEF AdmissionInit, CountConserved
<1>4. QED
  BY <1>1, <1>2, <1>3 DEF AdmissionInv

\* A control that sets a limit, or lifts the pause, and then serves the queue.
LEMMA GrantingControlStep ==
  ASSUME AdmissionInv, GrantWaitersLocked(permits, admitted, admittedWeight),
         maxWIP' \in Nat \ {0},
         maxWIPWeight' \in Nat \cup {Disabled},
         paused' \in BOOLEAN,
         closedForAdmission' = closedForAdmission,
         policy' = policy
  PROVE  AdmissionInv' /\ Pool!PoolNext
<1> USE DEF AdmissionInv
<1>1. admitted \in Nat /\ admitted = Cardinality(permits) /\ permits \in SUBSET permits
  BY DEF TypeOK, CountConserved
<1>2. /\ waiters' \in Seq(Waiter) /\ permits' \in SUBSET Items
      /\ permits \subseteq permits' /\ admitted' \in Nat
      /\ CountConserved' /\ QueueDisjoint'
      /\ permits' # permits => /\ ~closedForAdmission /\ ~paused'
                               /\ admitted' <= maxWIP'
                               /\ Items # {}
  BY <1>1, GrantWaiters
<1>3. TypeOK'
  BY <1>2 DEF TypeOK
<1>4. Pool!PoolNext
  <2>1. CASE permits' = permits
    BY <2>1 DEF Pool!PoolNext, Pool!Control
  <2>2. CASE permits' # permits
    <3>1. Cardinality(permits') <= maxWIP'
      BY <2>2, <1>2 DEF CountConserved
    <3>2. Pool!HandOut
      BY <2>2, <3>1, <1>2, PoolCardinality DEF Pool!HandOut
    <3>3. QED
      BY <3>2 DEF Pool!PoolNext
  <2>3. QED
    BY <2>1, <2>2
<1>5. QED
  BY <1>2, <1>3, <1>4

\* One step of the controller: what it preserves, and the pool step it makes.
LEMMA AdmissionStep ==
  ASSUME AdmissionInv, [AdmissionNext]_admissionVars
  PROVE  AdmissionInv' /\ [Pool!PoolNext]_(Pool!poolVars)
<1> USE DEF AdmissionInv
<1>1. TypeOK /\ QueueDisjoint /\ CountConserved
  OBVIOUS
<1>2. IsFiniteSet(permits) /\ Cardinality(permits) \in Nat
  BY <1>1, PermitsFinite
<1>3. ASSUME NEW i \in Items, AdmitNow(i)
      PROVE  AdmissionInv' /\ Pool!PoolNext
  <2>1. /\ i \notin permits /\ i \notin Waiting /\ ~closedForAdmission
        /\ ~paused /\ admitted < maxWIP
        /\ admitted' = admitted + 1 /\ permits' = permits \cup {i}
        /\ UNCHANGED <<policy, maxWIP, maxWIPWeight, paused, closedForAdmission, waiters>>
    BY <1>3 DEF AdmitNow, PassesGate, FastPath
  <2>2. TypeOK'
    BY <2>1, <1>1 DEF TypeOK
  <2>3. QueueDisjoint'
    BY <2>1, <1>1 DEF QueueDisjoint, Waiting
  <2>4. Cardinality(permits') = Cardinality(permits) + 1
    BY <2>1, <1>2, FS_AddElement
  <2>5. CountConserved'
    BY <2>1, <2>4, <1>1 DEF CountConserved
  <2>6. Pool!HandOut
    <3>1. Cardinality(permits') <= maxWIP'
      BY <2>1, <2>4, <1>1, <1>2 DEF CountConserved, TypeOK
    <3>2. permits \ {i} \subseteq permits' /\ permits' \subseteq Items
      BY <2>1, <1>1 DEF TypeOK
    <3>3. QED
      BY <2>1, <2>2, <3>1, <3>2, PoolCardinality DEF Pool!HandOut, TypeOK
  <2>7. QED
    BY <2>2, <2>3, <2>5, <2>6 DEF Pool!PoolNext
<1>4. ASSUME NEW i \in Items, Enqueue(i)
      PROVE  AdmissionInv' /\ Pool!PoolNext
  <2>1. UNCHANGED <<admitted, policy, maxWIP, maxWIPWeight, paused, closedForAdmission, permits>>
    BY <1>4 DEF Enqueue
  <2>2. waiters' \in Seq(Waiter) /\ QueueDisjoint'
    BY <1>1, <1>4, EnqueueKeepsQueue
  <2>3. TypeOK' /\ CountConserved'
    BY <2>1, <2>2, <1>1 DEF TypeOK, CountConserved
  <2>4. Pool!Control
    BY <2>1, <1>1 DEF Pool!Control, TypeOK
  <2>5. QED
    BY <2>2, <2>3, <2>4 DEF Pool!PoolNext
<1>5. ASSUME NEW i \in Items, Revoke(i)
      PROVE  AdmissionInv' /\ Pool!PoolNext
  <2>1. UNCHANGED <<admitted, policy, maxWIP, maxWIPWeight, paused, closedForAdmission, permits>>
    BY <1>5 DEF Revoke
  <2>2. waiters' \in Seq(Waiter) /\ QueueDisjoint'
    BY <1>1, <1>5, RevokeKeepsQueue
  <2>3. TypeOK' /\ CountConserved'
    BY <2>1, <2>2, <1>1 DEF TypeOK, CountConserved
  <2>4. Pool!Control
    BY <2>1, <1>1 DEF Pool!Control, TypeOK
  <2>5. QED
    BY <2>2, <2>3, <2>4 DEF Pool!PoolNext
<1>6. ASSUME NEW i \in Items, ReleaseAdmission(i)
      PROVE  AdmissionInv' /\ Pool!PoolNext
  <2>. DEFINE held == permits \ {i}
  <2>1. /\ i \in permits
        /\ UNCHANGED <<policy, maxWIP, maxWIPWeight, paused, closedForAdmission>>
        /\ GrantWaitersLocked(held, admitted - 1, admittedWeight - Weight[i])
    BY <1>6 DEF ReleaseAdmission
  <2>2. Cardinality(held) = admitted - 1 /\ admitted - 1 \in Nat
    <3>1. IsFiniteSet(held) /\ Cardinality(held) = Cardinality(permits) - 1
      BY <2>1, <1>2, FS_RemoveElement
    <3>2. Cardinality(held) \in Nat
      BY <3>1, FS_CardinalityType
    <3>3. QED
      BY <3>1, <3>2, <1>1 DEF CountConserved
  <2>3. maxWIP' \in Nat
    BY <2>1, <1>1 DEF TypeOK
  <2>. HIDE DEF held
  <2>4. held \in SUBSET permits
    BY DEF held
  <2>5. /\ waiters' \in Seq(Waiter) /\ permits' \in SUBSET Items
        /\ held \subseteq permits' /\ admitted' \in Nat
        /\ CountConserved' /\ QueueDisjoint'
        /\ permits' # held => /\ ~closedForAdmission /\ ~paused'
                              /\ admitted' <= maxWIP'
    BY <1>1, <2>1, <2>2, <2>3, <2>4, GrantWaiters
  <2>6. TypeOK'
    BY <2>1, <2>5, <1>1 DEF TypeOK
  <2>7. Pool!PoolNext
    <3>1. CASE permits' = held
      BY <3>1, <2>1, <1>1 DEF held, Pool!PoolNext, Pool!TakeBack
    <3>2. CASE permits' # held
      <4>1. Cardinality(permits') <= maxWIP'
        BY <3>2, <2>5 DEF CountConserved
      <4>2. i \in Items /\ permits \ {i} \subseteq permits'
        BY <2>1, <2>5, <1>1 DEF held, TypeOK
      <4>3. Pool!HandOut
        BY <3>2, <4>1, <4>2, <2>1, <2>5, <2>6, PoolCardinality DEF Pool!HandOut, TypeOK
      <4>4. QED
        BY <4>3 DEF Pool!PoolNext
    <3>3. QED
      BY <3>1, <3>2
  <2>8. QED
    BY <2>5, <2>6, <2>7
<1>7. ASSUME NEW n \in MaxWIPArgs, ApplyMaxWIP(n)
      PROVE  AdmissionInv' /\ Pool!PoolNext
  BY <1>7, GrantingControlStep, <1>1, ArgsAssumption DEF ApplyMaxWIP, TypeOK
<1>8. ASSUME NEW n \in WeightArgs, SetMaxWIPWeight(n)
      PROVE  AdmissionInv' /\ Pool!PoolNext
  BY <1>8, GrantingControlStep, <1>1, ArgsAssumption DEF SetMaxWIPWeight, TypeOK
<1>9. CASE DisableMaxWIPWeight
  BY <1>9, GrantingControlStep, <1>1 DEF DisableMaxWIPWeight, TypeOK
<1>10. CASE ResumeAdmission
  BY <1>10, GrantingControlStep, <1>1 DEF ResumeAdmission, TypeOK
<1>11. CASE PauseAdmission \/ CloseAdmission
  <2>1. AdmissionInv'
    BY <1>11, <1>1
    DEF PauseAdmission, CloseAdmission, TypeOK, QueueDisjoint, Waiting, CountConserved
  <2>2. Pool!Control
    BY <1>11, <1>1 DEF PauseAdmission, CloseAdmission, Pool!Control, TypeOK
  <2>3. QED
    BY <2>1, <2>2 DEF Pool!PoolNext
<1>12. CASE UNCHANGED admissionVars
  <2>1. AdmissionInv'
    BY <1>12, <1>1
    DEF admissionVars, TypeOK, QueueDisjoint, Waiting, CountConserved
  <2>2. UNCHANGED Pool!poolVars
    BY <1>12 DEF admissionVars, Pool!poolVars
  <2>3. QED
    BY <2>1, <2>2
<1>13. QED
  BY <1>3, <1>4, <1>5, <1>6, <1>7, <1>8, <1>9, <1>10, <1>11, <1>12
  DEF AdmissionNext

(* In every behaviour of the controller its state is well typed, no Submit *)
(* is both queued and admitted, and the count equals the slots owned.      *)
THEOREM AdmissionInvariant == AdmissionSpec => [](TypeOK /\ PermitConservation)
<1>1. AdmissionInv /\ [AdmissionNext]_admissionVars => AdmissionInv'
  BY AdmissionStep
<1>2. AdmissionSpec => []AdmissionInv
  BY <1>1, AdmissionInvInit, PTL DEF AdmissionSpec
<1>3. AdmissionInv => TypeOK /\ PermitConservation
  BY DEF AdmissionInv, PermitConservation
<1>4. QED
  BY <1>2, <1>3, PTL

(* The counters, the queue and the sets of items stay of their types: in   *)
(* particular no release takes the count below zero                        *)
(* (releaseAdmission, toc.go:1113).                                        *)
THEOREM AdmissionTypeCorrect == AdmissionSpec => []TypeOK
BY AdmissionInvariant, PTL

(* The controller implements the pool of slots: slots are handed out only  *)
(* while it is open and running, within the limit then in force.           *)
THEOREM AdmissionImplementsPool == AdmissionSpec => ImplementsPool
<1>1. AdmissionInit => Pool!PoolInit
  BY LimitAssumption DEF AdmissionInit, Pool!PoolInit
<1>2. AdmissionInv /\ [AdmissionNext]_admissionVars => [Pool!PoolNext]_(Pool!poolVars)
  BY AdmissionStep
<1>3. AdmissionInv /\ [AdmissionNext]_admissionVars => AdmissionInv'
  BY AdmissionStep
<1>4. QED
  BY <1>1, <1>2, <1>3, AdmissionInvInit, PTL
  DEF AdmissionSpec, ImplementsPool, Pool!PoolSpec
------------------------------------------------------------------------------
(* Weights.  The sums of the model are sums in the sense of module Lemmas.  *)

\* The weights of the model are the sums the lemmas speak of.
LEMMA TotalIsSum == \A S : Total(S) = SumOf(Weight, S)
BY DEF Total, SumOf

\* What the elements of a queue are.
LEMMA WaiterAt ==
  ASSUME NEW q \in Seq(Waiter), NEW k \in 1..Len(q)
  PROVE  k \in DOMAIN q /\ q[k].item \in Items /\ q[k].exempt \in BOOLEAN
<1>1. k \in DOMAIN q /\ q[k] \in Waiter
  OBVIOUS
<1>2. QED
  BY <1>1 DEF Waiter

\* The weight of the first n elements of any queue, this one or the next.
WeightIn(q, n) == MapThenSumSet(LAMBDA k : Weight[q[k].item], 1..n)
WeightsIn(q) == [k \in DOMAIN q |-> Weight[q[k].item]]

\* The weight of the first n waiters is a sum.
LEMMA WeightInIsSum ==
  ASSUME NEW q \in Seq(Waiter), NEW n \in 0..Len(q)
  PROVE  WeightIn(q, n) = SumOf(WeightsIn(q), 1..n)
<1>. DEFINE S == 1..n
            f == WeightsIn(q)
            up(g) == g = [T \in SUBSET S |-> IF T = {} THEN 0
                                 ELSE Weight[q[PickOf(T)].item] + g[T \ {PickOf(T)}]]
            h == CHOOSE g : up(g)
<1>1. n \in Nat /\ IsFiniteSet(S) /\ S \in SUBSET S
  BY FS_Interval
<1>2. WeightIn(q, n) = h[S]
  BY DEF WeightIn, MapThenSumSet, MapThenFoldSet, PickOf
<1>3. ASSUME NEW T \in SUBSET S, T # {}
      PROVE  f[PickOf(T)] = Weight[q[PickOf(T)].item]
  <2>1. PickOf(T) \in T
    BY <1>3 DEF PickOf
  <2>2. PickOf(T) \in DOMAIN q
    <3>1. 1..n \subseteq DOMAIN q
      OBVIOUS
    <3>2. QED
      BY <2>1, <3>1
  <2>3. QED
    BY <2>2 DEF WeightsIn
<1>4. SumsUp(PartialSums(f, S), f, S)
  BY <1>1, PartialSumsExist
<1>5. \A g : up(g) <=> SumsUp(g, f, S)
  BY <1>3 DEF SumsUp
<1>6. up(h)
  BY <1>4, <1>5
<1>7. SumsUp(h, f, S)
  BY <1>5, <1>6
<1>8. h[S] = PartialSums(f, S)[S]
  <2>. HIDE DEF h, f, S, up
  <2>. QED
    BY <1>1, <1>4, <1>7, SumsAgree
<1>9. QED
  BY <1>2, <1>8, SumOfIsPartialSum

\* The weight of a queue grows by that of its next element.
LEMMA WeightInGrows ==
  ASSUME NEW q \in Seq(Waiter)
  PROVE  /\ WeightIn(q, 0) = 0
         /\ \A n \in 0..Len(q) : WeightIn(q, n) \in Nat
         /\ \A n \in 1..Len(q) :
              WeightIn(q, n) = WeightIn(q, n - 1) + Weight[q[n].item]
<1>. DEFINE f == WeightsIn(q)
<1>1. \A k \in 1..Len(q) : f[k] = Weight[q[k].item] /\ f[k] \in Nat
  <2> SUFFICES ASSUME NEW k \in 1..Len(q)
               PROVE  f[k] = Weight[q[k].item] /\ f[k] \in Nat
    OBVIOUS
  <2>1. k \in DOMAIN q /\ q[k].item \in Items
    BY WaiterAt
  <2>2. QED
    BY <2>1, WeightAssumption DEF WeightsIn
<1>2. Len(q) \in Nat
  OBVIOUS
<1>3. \A n \in 0..Len(q) : WeightIn(q, n) = SumOf(f, 1..n)
  BY WeightInIsSum
<1>. HIDE DEF f
<1>4. WeightIn(q, 0) = 0
  <2>1. 1..0 = {} /\ 0 \in 0..Len(q)
    BY <1>2
  <2>2. QED
    BY <1>3, <2>1, SumEmpty
<1>5. ASSUME NEW n \in 0..Len(q)
      PROVE  WeightIn(q, n) \in Nat
  <2>1. IsFiniteSet(1..n) /\ \A x \in 1..n : f[x] \in Nat
    BY <1>1, <1>2, FS_Interval
  <2>2. SumOf(f, 1..n) \in Nat
    BY <2>1, SumNat
  <2>3. QED
    BY <1>3, <2>2
<1>6. ASSUME NEW n \in 1..Len(q)
      PROVE  WeightIn(q, n) = WeightIn(q, n - 1) + Weight[q[n].item]
  <2>1. /\ n \in Nat /\ n - 1 \in 0..Len(q) /\ n \in 0..Len(q)
        /\ 1..n = (1..(n - 1)) \cup {n} /\ n \notin 1..(n - 1)
    BY <1>2
  <2>2. IsFiniteSet(1..(n - 1))
    BY <2>1, FS_Interval
  <2>3. \A x \in (1..(n - 1)) \cup {n} : f[x] \in Int
    BY <1>1, <1>2
  <2>4. SumOf(f, 1..n) = f[n] + SumOf(f, 1..(n - 1))
    BY <2>1, <2>2, <2>3, SumAdd
  <2>5. SumOf(f, 1..(n - 1)) \in Int
    BY <2>2, <2>3, SumTakeOut
  <2>6. QED
    BY <2>1, <2>4, <2>5, <1>1, <1>3
<1>7. QED
  BY <1>4, <1>5, <1>6

\* Granting n waiters adds their weights to what is held.
LEMMA TotalGranted ==
  ASSUME TypeOK, QueueDisjoint, NEW held \in SUBSET permits,
         NEW n \in 0..Len(waiters)
  PROVE  Total(held \cup Granted(n)) = Total(held) + QueueWeight(n)
<1>. DEFINE B == {k \in 0..Len(waiters) :
                   Total(held \cup Granted(k)) # Total(held) + QueueWeight(k)}
<1>1. SUFFICES ASSUME B # {} PROVE FALSE
  OBVIOUS
<1>2. waiters \in Seq(Waiter) /\ Len(waiters) \in Nat
  BY DEF TypeOK
<1>3. PICK k \in B : \A m \in B : k <= m
  <2>1. B \in SUBSET Nat
    BY <1>2
  <2>. HIDE DEF B
  <2>. QED
    BY <1>1, <2>1, SmallestNumber
<1>4. k \in 0..Len(waiters) /\ k \in Nat
  BY <1>2, <1>3
<1>5. \A m : QueueWeight(m) = WeightIn(waiters, m)
  BY DEF QueueWeight, WeightIn
<1>6. IsFiniteSet(held) /\ \A x \in Items : Weight[x] \in Nat
  BY PermitsFinite, FS_Subset, WeightAssumption
<1>7. held \subseteq Items /\ Total(held) \in Nat
  <2>1. held \subseteq Items
    BY DEF TypeOK
  <2>2. QED
    BY <2>1, <1>6, SumNat, TotalIsSum
<1>8. CASE k = 0
  <2>1. held \cup Granted(k) = held
    BY <1>8 DEF Granted
  <2>2. QueueWeight(k) = 0
    BY <1>2, <1>5, <1>8, WeightInGrows
  <2>3. Total(held \cup Granted(k)) = Total(held) + QueueWeight(k)
    <3>1. Total(held \cup Granted(k)) = Total(held)
      BY <2>1
    <3>2. QED
      BY <2>2, <3>1, <1>7
  <2>4. QED
    BY <2>3, <1>3
<1>9. CASE k # 0
  <2>. DEFINE i == waiters[k].item
              S == held \cup Granted(k - 1)
  <2>1. k - 1 \in 0..Len(waiters) /\ k \in 1..Len(waiters) /\ k - 1 \in Nat
    BY <1>2, <1>4, <1>9
  <2>2. Total(S) = Total(held) + QueueWeight(k - 1)
    BY <1>3, <2>1
  <2>3. /\ QueueWeight(k) = QueueWeight(k - 1) + Weight[i]
        /\ QueueWeight(k - 1) \in Nat /\ Weight[i] \in Nat /\ i \in Items
    <3>1. /\ WeightIn(waiters, k) = WeightIn(waiters, k - 1) + Weight[i]
          /\ WeightIn(waiters, k - 1) \in Nat
      BY <1>2, <2>1, WeightInGrows
    <3>2. i \in Items
      BY <1>2, <2>1, WaiterAt
    <3>3. QED
      BY <3>1, <3>2, <1>5, <1>6
  <2>4. held \cup Granted(k) = S \cup {i}
    BY <2>1 DEF Granted
  <2>5. i \notin S
    <3>1. i \in Waiting /\ k \in DOMAIN waiters
      BY <2>1, <1>2 DEF Waiting
    <3>2. i \notin held
      BY <3>1 DEF QueueDisjoint
    <3>3. \A j \in 1..(k - 1) : j \in DOMAIN waiters /\ j # k
      BY <2>1, <1>2
    <3>4. i \notin Granted(k - 1)
      BY <3>1, <3>3 DEF QueueDisjoint, Granted
    <3>5. QED
      BY <3>2, <3>4
  <2>6. IsFiniteSet(S) /\ S \subseteq Items
    BY <2>1, <1>6, <1>7, GrantedCount, FS_Union
  <2>. HIDE DEF S, i
  <2>7. Total(S \cup {i}) = Weight[i] + Total(S)
    <3>1. \A x \in S \cup {i} : Weight[x] \in Int
      BY <1>6, <2>3, <2>6
    <3>2. QED
      BY <3>1, <2>5, <2>6, SumAdd, TotalIsSum
  <2>. HIDE DEF B
  <2>8. Total(held \cup Granted(k)) = Total(held) + QueueWeight(k)
    <3>1. Total(held \cup Granted(k)) = Total(S \cup {i})
      BY <2>4
    <3>2. QED
      BY <1>7, <2>2, <2>3, <2>7, <3>1
  <2>. USE DEF B
  <2>9. QED
    BY <1>3, <2>8
<1>10. QED
  BY <1>8, <1>9
------------------------------------------------------------------------------
(* What a step does to the weights, to the order of the queue and to its   *)
(* head.  The counter of weights equals the weight of the permits, and     *)
(* only OversizeAllow leaves exempt waiters behind.                        *)

WeightCounted == admittedWeight = Total(permits)
ExemptOnlyIfAllowed ==
  policy # "Allow" => \A k \in DOMAIN waiters : ~waiters[k].exempt

WeightInv == AdmissionInv /\ WeightCounted /\ ExemptOnlyIfAllowed

\* A waiter w can be granted with a slots out that weigh load.
Fits(w, a, load, wip, ww) ==
  /\ a < wip
  /\ \/ w.exempt
     \/ WeightAllows(Weight[w.item], load, ww)
     \/ Exempts(Weight[w.item], load, ww)

\* A sum of weights is a natural number.
LEMMA TotalNat ==
  ASSUME NEW S \in SUBSET Items
  PROVE  Total(S) \in Nat
<1>1. IsFiniteSet(S) /\ \A x \in S : Weight[x] \in Nat
  BY ItemsAssumption, WeightAssumption, FS_Subset
<1>2. QED
  BY <1>1, SumNat, TotalIsSum

\* Weights of the items in and out of a set of slots.
LEMMA TotalTakeOut ==
  ASSUME NEW S \in SUBSET Items, NEW i \in S
  PROVE  Total(S) = Weight[i] + Total(S \ {i})
<1>1. IsFiniteSet(S) /\ \A x \in S : Weight[x] \in Int
  BY ItemsAssumption, WeightAssumption, FS_Subset
<1>2. QED
  BY <1>1, SumTakeOut, TotalIsSum

\* The test of the loop at its k-th waiter.
LEMMA LoopGrantsIsFits ==
  ASSUME NEW k, NEW a, NEW aw, NEW wip, NEW ww
  PROVE  LoopGrants(k, a, aw, wip, ww)
           <=> Fits(waiters[k], a + (k - 1), aw + QueueWeight(k - 1), wip, ww)
BY DEF LoopGrants, Fits

\* The head of the queue is granted by the test made on entry of the loop.
LEMMA HeadGrantableIsFits ==
  ASSUME waiters \in Seq(Waiter), admitted \in Nat, admittedWeight \in Int
  PROVE  HeadGrantable <=>
           /\ waiters # <<>> /\ ~closedForAdmission /\ ~paused
           /\ Fits(waiters[1], admitted, admittedWeight, maxWIP, maxWIPWeight)
<1>1. QueueWeight(0) = 0
  BY WeightInGrows DEF QueueWeight, WeightIn
<1>2. /\ admitted + (1 - 1) = admitted /\ 1 - 1 = 0
      /\ admittedWeight + QueueWeight(0) = admittedWeight
  BY <1>1
<1>3. LoopGrants(1, admitted, admittedWeight, maxWIP, maxWIPWeight)
        <=> Fits(waiters[1], admitted, admittedWeight, maxWIP, maxWIPWeight)
  BY <1>2, LoopGrantsIsFits
<1>4. QED
  BY <1>3 DEF HeadGrantable

\* In the next state the head is grantable if the gate is open and it fits.
LEMMA HeadGrantableIsFitsNext ==
  ASSUME waiters' \in Seq(Waiter), admitted' \in Nat, admittedWeight' \in Int,
         policy' = policy
  PROVE  HeadGrantable' <=>
           /\ waiters' # <<>> /\ ~closedForAdmission' /\ ~paused'
           /\ Fits(waiters'[1], admitted', admittedWeight', maxWIP', maxWIPWeight')
<1>1. QueueWeight(0)' = 0
  <2>1. WeightIn(waiters', 0) = 0
    BY WeightInGrows
  <2>2. QED
    BY <2>1 DEF QueueWeight, WeightIn, MapThenSumSet, MapThenFoldSet
<1>2. \A x \in Int : x + (1 - 1) = x /\ x + 0 = x /\ 1 - 1 = 0
  OBVIOUS
<1>3. LoopGrants(1, admitted, admittedWeight, maxWIP, maxWIPWeight)'
        <=> Fits(waiters'[1], admitted', admittedWeight', maxWIP', maxWIPWeight')
  <2>1. /\ admitted' + (1 - 1) = admitted' /\ 1 - 1 = 0
        /\ admittedWeight' + QueueWeight(0)' = admittedWeight'
    <3>1. admitted' + (1 - 1) = admitted'
      <4>1. \A x \in Int : x + (1 - 1) = x
        OBVIOUS
      <4>2. admitted' \in Int
        OBVIOUS
      <4>3. QED
        BY <4>1, <4>2
    <3>2. admittedWeight' + 0 = admittedWeight'
      BY <1>2
    <3>3. QED
      BY <3>1, <3>2, <1>1, <1>2
  <2>2. QED
    BY <2>1 DEF LoopGrants, Fits, Exempts
<1>4. QED
  BY <1>3 DEF HeadGrantable

\* The weight test bounds the weight after the grant.
LEMMA AllowedFits ==
  ASSUME NEW w \in Nat, NEW load \in Nat, NEW limit \in Nat \cup {Disabled},
         WeightAllows(w, load, limit)
  PROVE  limit = Disabled \/ load + w <= limit
BY DEF WeightAllows, Disabled

\* What one run of grantWaitersLocked does to weights, order and head.
LEMMA GrantWeights ==
  ASSUME TypeOK, QueueDisjoint, ExemptOnlyIfAllowed,
         NEW held \in SUBSET permits, NEW a \in Nat, NEW aw,
         aw = Total(held),
         maxWIP' \in Nat \ {0}, maxWIPWeight' \in Nat \cup {Disabled},
         policy' = policy, closedForAdmission' = closedForAdmission,
         GrantWaitersLocked(held, a, aw)
  PROVE  /\ WeightCounted'
         /\ ExemptOnlyIfAllowed'
         /\ \A i \in permits' \ held : WithinWeight(i, Total(OutBefore(i)))
         /\ \A k \in DOMAIN waiters' :
              \E j \in DOMAIN waiters : waiters'[k] = waiters[j]
         /\ \A j, k \in DOMAIN waiters :
              j < k /\ waiters[k].item \in permits' /\ waiters[k].item \notin held
                => waiters[j].item \in permits'
         /\ ~HeadGrantable'
<1>1. PICK n \in 0..Len(waiters) :
        /\ IF closedForAdmission \/ paused'
             THEN n = 0
             ELSE LoopStopsAfter(n, a, aw, maxWIP', maxWIPWeight')
        /\ admitted' = a + n
        /\ admittedWeight' = aw + QueueWeight(n)
        /\ waiters' = SubSeq(waiters, n + 1, Len(waiters))
        /\ permits' = held \cup Granted(n)
  BY DEF GrantWaitersLocked, Granted
<1>2. waiters \in Seq(Waiter) /\ Len(waiters) \in Nat /\ n \in Nat
  BY DEF TypeOK
<1>3. aw \in Nat
  BY TotalNat DEF TypeOK
<1>4. \A m : QueueWeight(m) = WeightIn(waiters, m)
  BY DEF QueueWeight, WeightIn
<1>5. \A m \in 0..Len(waiters) : QueueWeight(m) \in Nat
  BY <1>2, <1>4, WeightInGrows
<1>6. /\ waiters' \in Seq(Waiter) /\ Len(waiters') = Len(waiters) - n
      /\ \A k \in DOMAIN waiters' : /\ k + n \in DOMAIN waiters
                                    /\ waiters'[k] = waiters[k + n]
  BY <1>1, <1>2
<1>7. WeightCounted'
  <2>1. Total(held \cup Granted(n)) = Total(held) + QueueWeight(n)
    BY <1>1, TotalGranted
  <2>2. Total(permits') = Total(held \cup Granted(n))
    BY <1>1
  <2>3. admittedWeight' = Total(permits')
    BY <2>1, <2>2, <1>1
  <2>4. QED
    BY <2>3 DEF WeightCounted, Total, MapThenSumSet, MapThenFoldSet
<1>8. ExemptOnlyIfAllowed'
  BY <1>6 DEF ExemptOnlyIfAllowed
<1>9. ASSUME NEW i \in permits' \ held
      PROVE  WithinWeight(i, Total(OutBefore(i)))
  <2>1. PICK k \in 1..n : i = waiters[k].item
    BY <1>1, <1>9 DEF Granted
  <2>2. k \in DOMAIN waiters /\ k \in 1..Len(waiters) /\ k - 1 \in 0..Len(waiters)
    BY <1>2, <2>1
  <2>3. \A j \in DOMAIN waiters : waiters[j].item = i => j = k
    BY <2>1, <2>2 DEF QueueDisjoint
  <2>4. OutBefore(i) = held \cup Granted(k - 1)
    <3>1. ASSUME NEW h \in held
          PROVE  h \in OutBefore(i)
      <4>1. h \in permits' \ {i}
        BY <1>1, <1>9
      <4>2. \A j \in DOMAIN waiters : waiters[j].item # h
        BY DEF QueueDisjoint, Waiting
      <4>3. QED
        BY <4>1, <4>2 DEF OutBefore
    <3>2. ASSUME NEW h \in Granted(k - 1)
          PROVE  h \in OutBefore(i)
      <4>1. PICK m \in 1..(k - 1) : h = waiters[m].item
        BY DEF Granted
      <4>2. m \in DOMAIN waiters /\ m \in 1..n /\ m < k
        BY <1>2, <2>1, <4>1
      <4>3. \A j \in DOMAIN waiters : waiters[j].item = h => j = m
        BY <4>1, <4>2 DEF QueueDisjoint
      <4>4. h \in permits' /\ h # i
        <5>1. h \in Granted(n)
          BY <4>1, <4>2 DEF Granted
        <5>2. QED
          BY <1>1, <2>1, <2>2, <4>2, <4>3, <5>1
      <4>5. QED
        BY <2>3, <4>2, <4>3, <4>4 DEF OutBefore
    <3>3. ASSUME NEW h \in OutBefore(i), h \notin held
          PROVE  h \in Granted(k - 1)
      <4>1. PICK m \in 1..n : h = waiters[m].item
        BY <1>1, <3>3 DEF OutBefore, Granted
      <4>2. m \in DOMAIN waiters
        BY <1>2, <4>1
      <4>3. m < k
        BY <2>1, <2>2, <4>1, <4>2 DEF OutBefore
      <4>4. m \in 1..(k - 1)
        BY <1>2, <2>1, <4>1, <4>3
      <4>5. QED
        BY <4>1, <4>4 DEF Granted
    <3>4. QED
      BY <3>1, <3>2, <3>3
  <2>. DEFINE load == aw + QueueWeight(k - 1)
  <2>5. Total(OutBefore(i)) = load
    BY <2>2, <2>4, TotalGranted
  <2>6. Fits(waiters[k], a + (k - 1), load, maxWIP', maxWIPWeight')
    BY <1>1, <1>2, <2>1, LoopGrantsIsFits DEF LoopStopsAfter
  <2>7. load \in Nat /\ Weight[i] \in Nat
    <3>1. QueueWeight(k - 1) \in Nat
      BY <1>5, <2>2
    <3>2. Weight[i] \in Nat
      BY <1>2, <2>1, <2>2, WaiterAt, WeightAssumption
    <3>3. QED
      BY <1>3, <3>1, <3>2
  <2>. HIDE DEF load
  <2>8. CASE waiters[k].exempt
    <3>1. waiters[k] = [item |-> i, exempt |-> TRUE]
      <4>1. waiters[k] \in Waiter
        BY <1>2, <2>2
      <4>2. QED
        BY <2>1, <2>8, <4>1 DEF Waiter
    <3>2. policy = "Allow"
      BY <2>2, <2>8 DEF ExemptOnlyIfAllowed
    <3>3. QED
      BY <2>2, <3>1, <3>2 DEF WithinWeight
  <2>9. CASE WeightAllows(Weight[i], load, maxWIPWeight')
    <3>1. maxWIPWeight' = Disabled \/ load + Weight[i] <= maxWIPWeight'
      BY <2>7, <2>9, AllowedFits
    <3>2. QED
      BY <2>5, <3>1 DEF WithinWeight
  <2>10. CASE Exempts(Weight[i], load, maxWIPWeight')
    BY <2>5, <2>10 DEF WithinWeight
  <2>11. QED
    BY <2>1, <2>6, <2>8, <2>9, <2>10 DEF Fits
<1>10. ASSUME NEW j \in DOMAIN waiters, NEW k \in DOMAIN waiters, j < k,
              waiters[k].item \in permits', waiters[k].item \notin held
       PROVE  waiters[j].item \in permits'
  <2>1. PICK m \in 1..n : waiters[m].item = waiters[k].item
    BY <1>1, <1>10 DEF Granted
  <2>2. m \in DOMAIN waiters
    BY <1>2
  <2>3. m = k
    BY <2>1, <2>2 DEF QueueDisjoint
  <2>4. j \in 1..n
    BY <1>2, <1>10, <2>1, <2>3
  <2>5. QED
    BY <1>1, <2>4 DEF Granted
<1>11. ~HeadGrantable'
  <2>1. SUFFICES ASSUME HeadGrantable' PROVE FALSE
    OBVIOUS
  <2>2. admitted' \in Nat /\ admittedWeight' \in Int
    BY <1>1, <1>2, <1>3, <1>5
  <2>3. /\ waiters' # <<>> /\ ~closedForAdmission' /\ ~paused'
        /\ Fits(waiters'[1], admitted', admittedWeight', maxWIP', maxWIPWeight')
    BY <1>6, <2>1, <2>2, HeadGrantableIsFitsNext
  <2>4. /\ n + 1 \in 1..Len(waiters) /\ n < Len(waiters)
        /\ waiters'[1] = waiters[n + 1]
    BY <1>2, <1>6, <2>3
  <2>5. ~LoopGrants(n + 1, a, aw, maxWIP', maxWIPWeight')
    BY <1>1, <2>3, <2>4 DEF LoopStopsAfter
  <2>6. ~Fits(waiters[n + 1], a + ((n + 1) - 1), aw + QueueWeight((n + 1) - 1),
              maxWIP', maxWIPWeight')
    BY <2>5, LoopGrantsIsFits
  <2>7. (n + 1) - 1 = n
    BY <1>2
  <2>8. ~Fits(waiters'[1], admitted', admittedWeight', maxWIP', maxWIPWeight')
    BY <1>1, <2>4, <2>6, <2>7
  <2>9. QED
    BY <2>3, <2>8
<1>12. \A k \in DOMAIN waiters' : \E j \in DOMAIN waiters : waiters'[k] = waiters[j]
  BY <1>6
<1>13. QED
  BY <1>7, <1>8, <1>9, <1>10, <1>11, <1>12

\* A critical section that ends with a run of the loop, by the controls or a
\* release, has kept some of the permits and counted what they weigh.
LEMMA GrantStep ==
  ASSUME WeightInv, WeightInv => AdmissionInv',
         NEW held \in SUBSET permits, NEW a \in Nat, NEW aw,
         aw = Total(held),
         maxWIP' \in Nat \ {0}, maxWIPWeight' \in Nat \cup {Disabled},
         policy' = policy, closedForAdmission' = closedForAdmission,
         GrantWaitersLocked(held, a, aw)
  PROVE  /\ WeightInv'
         /\ WeightLimitStep /\ FifoGrantsStep /\ NoMissedGrantStep
<1>1. /\ WeightCounted' /\ ExemptOnlyIfAllowed' /\ ~HeadGrantable'
      /\ \A i \in permits' \ held : WithinWeight(i, Total(OutBefore(i)))
      /\ \A k \in DOMAIN waiters' : \E j \in DOMAIN waiters : waiters'[k] = waiters[j]
      /\ \A j, k \in DOMAIN waiters :
           j < k /\ waiters[k].item \in permits' /\ waiters[k].item \notin held
             => waiters[j].item \in permits'
  BY GrantWeights DEF WeightInv, AdmissionInv
<1>2. WeightLimitStep
  <2>1. admittedWeight' = Total(permits')
    BY <1>1 DEF WeightCounted, Total, MapThenSumSet, MapThenFoldSet
  <2>2. permits' \ permits \subseteq permits' \ held
    OBVIOUS
  <2>3. QED
    BY <1>1, <2>1, <2>2 DEF WeightLimitStep
<1>3. FifoGrantsStep
  <2>1. \A k \in DOMAIN waiters : waiters[k].item \notin held
    BY DEF WeightInv, AdmissionInv, QueueDisjoint, Waiting
  <2>2. QED
    BY <1>1, <2>1 DEF FifoGrantsStep
<1>4. QED
  BY <1>1, <1>2, <1>3 DEF WeightInv, NoMissedGrantStep

\* Whoever joins the queue exempt was over the limit while nobody was in debt.
KeepsExemptions ==
  \A k \in DOMAIN waiters' :
    \/ \E j \in DOMAIN waiters : waiters'[k] = waiters[j]
    \/ waiters'[k].exempt
         => Exempts(Weight[waiters'[k].item], Total(permits), maxWIPWeight)

\* Every step keeps the weight invariant and is one the action properties allow.
LEMMA WeightStep ==
  ASSUME WeightInv, [AdmissionNext]_admissionVars
  PROVE  /\ WeightInv'
         /\ [WeightLimitStep]_admissionVars
         /\ [FifoGrantsStep]_admissionVars
         /\ [NoMissedGrantStep]_admissionVars
<1>. DEFINE Good == /\ WeightInv'
                    /\ WeightLimitStep /\ FifoGrantsStep /\ NoMissedGrantStep
<1>1. AdmissionInv /\ TypeOK /\ QueueDisjoint /\ WeightCounted /\ ExemptOnlyIfAllowed
  BY DEF WeightInv, AdmissionInv
<1>2. AdmissionInv'
  BY <1>1, AdmissionStep
<1>3. /\ waiters \in Seq(Waiter) /\ Len(waiters) \in Nat
      /\ permits \in SUBSET Items /\ admitted \in Nat /\ maxWIP \in Nat \ {0}
      /\ maxWIPWeight \in Nat \cup {Disabled} /\ paused \in BOOLEAN
  BY <1>1 DEF TypeOK
<1>4. admittedWeight \in Nat
  BY <1>1, <1>3, TotalNat DEF WeightCounted
<1>5. ASSUME permits' = permits, admittedWeight' = admittedWeight
      PROVE  /\ WeightCounted' /\ FifoGrantsStep
             /\ KeepsExemptions => WeightLimitStep
  <2>1. admittedWeight' = Total(permits')
    BY <1>1, <1>5 DEF WeightCounted
  <2>2. WeightCounted'
    BY <2>1 DEF WeightCounted, Total, MapThenSumSet, MapThenFoldSet
  <2>3. \A k \in DOMAIN waiters : waiters[k].item \notin permits'
    BY <1>1, <1>5 DEF QueueDisjoint, Waiting
  <2>4. QED
    BY <1>5, <2>1, <2>2, <2>3 DEF WeightLimitStep, FifoGrantsStep, KeepsExemptions
<1>6. HeadGrantable <=>
        /\ waiters # <<>> /\ ~closedForAdmission /\ ~paused
        /\ Fits(waiters[1], admitted, admittedWeight, maxWIP, maxWIPWeight)
  BY <1>3, <1>4, HeadGrantableIsFits
<1>7. ASSUME NEW i \in Items, AdmitNow(i)
      PROVE  Good
  <2>1. PICK e \in BOOLEAN :
          /\ PassesGate(i, e) /\ FastPath(i, e)
          /\ admitted' = admitted + 1
          /\ admittedWeight' = admittedWeight + Weight[i]
          /\ permits' = permits \cup {i}
          /\ UNCHANGED <<policy, maxWIP, maxWIPWeight, paused, closedForAdmission, waiters>>
    BY <1>7 DEF AdmitNow
  <2>2. i \notin permits /\ i \notin Waiting /\ Weight[i] \in Nat
    BY <2>1, WeightAssumption DEF PassesGate
  <2>3. admittedWeight' = Total(permits')
    <3>1. permits' \in SUBSET Items /\ i \in permits' /\ permits' \ {i} = permits
      BY <1>3, <2>1, <2>2
    <3>2. Total(permits') = Weight[i] + Total(permits)
      BY <3>1, TotalTakeOut
    <3>3. QED
      BY <1>1, <1>4, <2>1, <2>2, <3>2 DEF WeightCounted
  <2>4. WeightInv'
    <3>1. WeightCounted'
      BY <2>3 DEF WeightCounted, Total, MapThenSumSet, MapThenFoldSet
    <3>2. ExemptOnlyIfAllowed'
      BY <1>1, <2>1 DEF ExemptOnlyIfAllowed
    <3>3. QED
      BY <1>2, <3>1, <3>2 DEF WeightInv
  <2>5. WeightLimitStep
    <3>1. OutBefore(i) = permits
      <4>1. \A k \in DOMAIN waiters : waiters[k].item # i
        BY <2>2 DEF Waiting
      <4>2. QED
        BY <2>1, <2>2, <4>1 DEF OutBefore
    <3>2. Total(OutBefore(i)) = admittedWeight
      BY <1>1, <3>1 DEF WeightCounted
    <3>3. WithinWeight(i, admittedWeight)
      <4>1. CASE e
        BY <2>1, <4>1 DEF PassesGate, WithinWeight
      <4>2. CASE WeightAllows(Weight[i], admittedWeight, maxWIPWeight)
        <5>1. maxWIPWeight = Disabled \/ admittedWeight + Weight[i] <= maxWIPWeight
          BY <1>3, <1>4, <2>2, <4>2, AllowedFits
        <5>2. QED
          BY <2>1, <5>1 DEF WithinWeight
      <4>3. QED
        BY <2>1, <4>1, <4>2 DEF FastPath
    <3>4. permits' \ permits = {i}
      BY <2>1, <2>2
    <3>5. \A k \in DOMAIN waiters' : waiters'[k] = waiters[k] /\ k \in DOMAIN waiters
      BY <2>1
    <3>6. QED
      BY <2>3, <3>2, <3>3, <3>4, <3>5 DEF WeightLimitStep
  <2>6. FifoGrantsStep
    <3>1. \A k \in DOMAIN waiters : waiters[k].item \notin permits'
      BY <1>1, <2>1, <2>2 DEF QueueDisjoint, Waiting
    <3>2. QED
      BY <3>1 DEF FifoGrantsStep
  <2>7. NoMissedGrantStep
    <3>1. SUFFICES ASSUME HeadGrantable' PROVE HeadGrantable
      BY DEF NoMissedGrantStep
    <3>2. waiters' \in Seq(Waiter) /\ admitted' \in Nat /\ admittedWeight' \in Int
      BY <1>3, <1>4, <2>1, <2>2
    <3>3. /\ waiters' # <<>> /\ ~closedForAdmission' /\ ~paused'
          /\ Fits(waiters'[1], admitted', admittedWeight', maxWIP', maxWIPWeight')
      BY <2>1, <3>1, <3>2, HeadGrantableIsFitsNext
    <3>4. /\ waiters # <<>> /\ ~closedForAdmission /\ ~paused
          /\ Fits(waiters[1], admitted + 1, admittedWeight + Weight[i],
                  maxWIP, maxWIPWeight)
      BY <2>1, <3>3
    <3>5. Fits(waiters[1], admitted, admittedWeight, maxWIP, maxWIPWeight)
      <4>1. waiters[1].item \in Items
        BY <1>3, <3>4, WaiterAt
      <4>2. Weight[waiters[1].item] \in Nat
        BY <4>1, WeightAssumption
      <4>3. ASSUME NEW w \in Nat, NEW load \in Nat, NEW more \in Nat,
                   NEW l \in Nat \cup {Disabled}
            PROVE  /\ WeightAllows(w, load + more, l) => WeightAllows(w, load, l)
                   /\ Exempts(w, load + more, l) => Exempts(w, load, l)
        BY DEF WeightAllows, Exempts, Oversize, Disabled
      <4>4. admitted < maxWIP
        BY <1>3, <3>4 DEF Fits
      <4>5. QED
        BY <1>3, <1>4, <2>2, <3>4, <4>2, <4>3, <4>4 DEF Fits
    <3>6. QED
      BY <1>6, <3>4, <3>5
  <2>8. QED
    BY <2>4, <2>5, <2>6, <2>7
<1>8. ASSUME NEW i \in Items, Enqueue(i)
      PROVE  Good
  <2>1. PICK e \in BOOLEAN :
          /\ PassesGate(i, e) /\ ~FastPath(i, e)
          /\ waiters' = Append(waiters, [item |-> i, exempt |-> e])
          /\ UNCHANGED <<policy, admitted, admittedWeight, maxWIP, maxWIPWeight,
                         paused, closedForAdmission, permits>>
    BY <1>8 DEF Enqueue
  <2>2. [item |-> i, exempt |-> e] \in Waiter
    BY DEF Waiter
  <2>3. /\ waiters' \in Seq(Waiter)
        /\ \A k \in DOMAIN waiters' :
             \/ k \in DOMAIN waiters /\ waiters'[k] = waiters[k]
             \/ waiters'[k] = [item |-> i, exempt |-> e]
        /\ waiters # <<>> => waiters'[1] = waiters[1]
        /\ waiters = <<>> => waiters'[1] = [item |-> i, exempt |-> e]
    BY <1>3, <2>1, <2>2
  <2>4. ExemptOnlyIfAllowed'
    <3>1. policy # "Allow" => ~e
      BY <2>1 DEF PassesGate, Exempts
    <3>2. QED
      BY <1>1, <2>1, <2>3, <3>1 DEF ExemptOnlyIfAllowed
  <2>5. NoMissedGrantStep
    <3>1. SUFFICES ASSUME HeadGrantable' PROVE HeadGrantable
      BY DEF NoMissedGrantStep
    <3>2. admitted' \in Nat /\ admittedWeight' \in Int
      BY <1>3, <1>4, <2>1
    <3>3. /\ ~closedForAdmission /\ ~paused
          /\ Fits(waiters'[1], admitted, admittedWeight, maxWIP, maxWIPWeight)
      BY <2>1, <2>3, <3>1, <3>2, HeadGrantableIsFitsNext
    <3>4. waiters # <<>>
      BY <2>1, <2>3, <3>3 DEF Fits, FastPath, PassesGate
    <3>5. QED
      BY <1>6, <2>3, <3>3, <3>4
  <2>6. KeepsExemptions
    <3>1. e = Exempts(Weight[i], Total(permits), maxWIPWeight)
      BY <1>1, <2>1 DEF PassesGate, WeightCounted
    <3>2. QED
      BY <2>3, <3>1 DEF KeepsExemptions
  <2>7. QED
    BY <1>2, <1>5, <2>1, <2>4, <2>5, <2>6 DEF WeightInv
<1>9. ASSUME NEW i \in Items, Revoke(i)
      PROVE  Good
  <2>1. UNCHANGED <<policy, admitted, admittedWeight, permits>>
    BY <1>9 DEF Revoke
  <2>2. \A j \in DOMAIN waiters' : \E l \in DOMAIN waiters : waiters'[j] = waiters[l]
    BY <1>1, <1>9, RevokeKeepsQueue
  <2>3. ExemptOnlyIfAllowed'
    BY <1>1, <2>1, <2>2 DEF ExemptOnlyIfAllowed
  <2>4. NoMissedGrantStep
    BY <1>9 DEF NoMissedGrantStep
  <2>5. KeepsExemptions
    BY <2>2 DEF KeepsExemptions
  <2>6. QED
    BY <1>2, <1>5, <2>1, <2>3, <2>4, <2>5 DEF WeightInv
<1>10. ASSUME NEW i \in Items, ReleaseAdmission(i)
       PROVE  Good
  <2>1. /\ i \in permits
        /\ UNCHANGED <<policy, maxWIP, maxWIPWeight, paused, closedForAdmission>>
        /\ GrantWaitersLocked(permits \ {i}, admitted - 1, admittedWeight - Weight[i])
    BY <1>10 DEF ReleaseAdmission
  <2>2. admitted - 1 \in Nat
    <3>1. admitted # 0
      BY <1>1, <2>1, PermitsFinite, FS_EmptySet DEF AdmissionInv, CountConserved
    <3>2. QED
      BY <1>3, <3>1
  <2>3. admittedWeight - Weight[i] = Total(permits \ {i})
    <3>1. Total(permits) = Weight[i] + Total(permits \ {i})
      BY <1>3, <2>1, TotalTakeOut
    <3>2. Total(permits \ {i}) \in Nat /\ Weight[i] \in Nat
      BY <1>3, TotalNat, WeightAssumption
    <3>3. QED
      BY <1>1, <3>1, <3>2 DEF WeightCounted
  <2>4. permits \ {i} \in SUBSET permits
    OBVIOUS
  <2>5. maxWIP' \in Nat \ {0} /\ maxWIPWeight' \in Nat \cup {Disabled}
    BY <1>3, <2>1
  <2>6. QED
    BY <1>2, <2>1, <2>2, <2>3, <2>4, <2>5, GrantStep
<1>11. ASSUME GrantWaitersLocked(permits, admitted, admittedWeight),
              maxWIP' \in Nat \ {0}, maxWIPWeight' \in Nat \cup {Disabled},
              closedForAdmission' = closedForAdmission, policy' = policy
       PROVE  Good
  <2>1. admittedWeight = Total(permits) /\ permits \in SUBSET permits
    BY <1>1 DEF WeightCounted
  <2>2. QED
    BY <1>2, <1>3, <1>11, <2>1, GrantStep
<1>12. ASSUME NEW n \in MaxWIPArgs, ApplyMaxWIP(n)
       PROVE  Good
  BY <1>3, <1>11, <1>12, ArgsAssumption DEF ApplyMaxWIP
<1>13. ASSUME NEW n \in WeightArgs, SetMaxWIPWeight(n)
       PROVE  Good
  BY <1>3, <1>11, <1>13, ArgsAssumption DEF SetMaxWIPWeight
<1>14. CASE DisableMaxWIPWeight
  BY <1>3, <1>11, <1>14 DEF DisableMaxWIPWeight
<1>15. CASE ResumeAdmission
  BY <1>3, <1>11, <1>15 DEF ResumeAdmission
<1>16. CASE PauseAdmission \/ CloseAdmission
  <2>1. /\ UNCHANGED <<policy, admitted, admittedWeight, waiters, permits>>
        /\ paused' \/ closedForAdmission'
    BY <1>16 DEF PauseAdmission, CloseAdmission
  <2>2. ExemptOnlyIfAllowed'
    BY <1>1, <2>1 DEF ExemptOnlyIfAllowed
  <2>3. ~HeadGrantable'
    BY <2>1 DEF HeadGrantable
  <2>4. KeepsExemptions
    BY <2>1 DEF KeepsExemptions
  <2>5. QED
    BY <1>2, <1>5, <2>1, <2>2, <2>3, <2>4 DEF WeightInv, NoMissedGrantStep
<1>17. ASSUME UNCHANGED admissionVars
       PROVE  WeightInv'
  <2>1. UNCHANGED <<policy, admittedWeight, waiters, permits>>
    BY <1>17 DEF admissionVars
  <2>2. QED
    BY <1>1, <1>2, <1>5, <2>1 DEF WeightInv, ExemptOnlyIfAllowed
<1>18. QED
  BY <1>7, <1>8, <1>9, <1>10, <1>12, <1>13, <1>14, <1>15, <1>16, <1>17
  DEF AdmissionNext

\* The weight invariant holds at first.
LEMMA WeightInvInit == AdmissionInit => WeightInv
<1>1. Total({}) = 0
  BY SumEmpty, TotalIsSum
<1>2. QED
  BY <1>1, AdmissionInvInit
  DEF AdmissionInit, WeightInv, WeightCounted, ExemptOnlyIfAllowed

(* Under every policy the weight counter is never off and a slot is handed *)
(* out only within the weight limit in force; OversizeAllow excepts only   *)
(* an item over the limit with no debt before it, now or when it queued.   *)
THEOREM AdmissionRespectsWeightLimit == AdmissionSpec => WeightLimitRespected
<1>1. WeightInv /\ [AdmissionNext]_admissionVars
        => WeightInv' /\ [WeightLimitStep]_admissionVars
  BY WeightStep
<1>2. QED
  BY <1>1, WeightInvInit, PTL DEF AdmissionSpec, WeightLimitRespected

(* The queue is served in order: a Submit that waits is granted after all  *)
(* that were queued before it.                                             *)
THEOREM AdmissionIsFifo == AdmissionSpec => FifoGrants
<1>1. WeightInv /\ [AdmissionNext]_admissionVars
        => WeightInv' /\ [FifoGrantsStep]_admissionVars
  BY WeightStep
<1>2. QED
  BY <1>1, WeightInvInit, PTL DEF AdmissionSpec, FifoGrants

(* No wake-up is lost: whatever makes the head of the queue admissible     *)
(* grants it in the same critical section, except a revocation.            *)
THEOREM AdmissionMissesNoGrant == AdmissionSpec => NoMissedGrant
<1>1. WeightInv /\ [AdmissionNext]_admissionVars
        => WeightInv' /\ [NoMissedGrantStep]_admissionVars
  BY WeightStep
<1>2. QED
  BY <1>1, WeightInvInit, PTL DEF AdmissionSpec, NoMissedGrant

-------------------------------------------------------------------------------
(* The invariant.                                                          *)

\* Where a worker that holds an item can stand.
Busy == {"taken", "running", "report", "cancel", "close", "emit", "release"}

Places ==
  /\ \A i \in Waiting : pc[i] = "waiting"
  /\ \A i \in InChannel \cup AtWorker : pc[i] = "accepted"
  /\ InChannel \cap AtWorker = {}
  /\ \A j, k \in DOMAIN in : in[j] = in[k] => j = k
  /\ \A v, w \in Workers : job[v] # None /\ job[v] = job[w] => v = w
  /\ \A w \in Workers : job[w] # None <=> wpc[w] \in Busy

\* SetWorkers cancels from the newest down to the second at most.
Team ==
  /\ Staying \subseteq workerHandles
  /\ \E n \in 0..MaxSpawned : \A w \in Workers : wpc[w] = "unborn" <=> w > n
  /\ 1 \notin retired /\ wpc[1] # "unborn"
  /\ wpc[1] = "exited" => InputClosed /\ in = <<>>
  /\ wpc[1] # "exited" => 1 \in workerHandles
  /\ Cardinality(Staying) <= targetWorkers

Undelivered == {w \in Workers : wpc[w] \in Busy \ {"release"}}
Deliveries ==
  /\ \A i \in Items : delivered[i] # 0 => delivered[i] = 1 /\ pc[i] = "accepted"
  /\ Owed = InChannel \cup {job[w] : w \in Undelivered}

Ending ==
  /\ cause # "unset" => \A w \in Workers : wpc[w] \in {"unborn", "exited"}
  /\ done => cause # "unset"

Handling == {w \in Workers : wpc[w] \in {"taken", "running"}}
Counting ==
  counts.submitted = counts.completed + counts.canceled + Len(in) + Cardinality(Handling)

Reasons ==
  /\ stageDone => err # None \/ parentDone \/ done
  /\ counts.canceled > 0 => stageDone
  /\ err # None => FailFast /\ counts.failed > 0
  /\ \A w \in Workers :
       /\ wpc[w] \in {"report", "cancel", "close"} => FailFast /\ counts.failed > 0
       /\ wpc[w] = "cancel" => err # None
  /\ FailFast /\ counts.failed > 0 =>
       err # None \/ stageDone \/ \E w \in Workers : wpc[w] = "report"

StageInv ==
  /\ AdmissionInv /\ StageTypeOK
  /\ SlotLedger /\ Places /\ NoSendOnClosedInput
  /\ Team /\ Deliveries /\ Ending /\ Counting /\ Reasons /\ CauseIsHonest

-------------------------------------------------------------------------------
(* What the steps of the admission controller mean to the stage.           *)

\* A run of grantWaitersLocked moves some Submits out of the queue and hands
\* them slots.
LEMMA GrantEffect ==
  ASSUME AdmissionInv, NEW held, NEW a, NEW aw, GrantWaitersLocked(held, a, aw)
  PROVE  \E G \in SUBSET Waiting : Waiting' = Waiting \ G /\ permits' = held \cup G
<1>1. PICK n \in 0..Len(waiters) :
        /\ waiters' = SubSeq(waiters, n + 1, Len(waiters))
        /\ permits' = held \cup Granted(n)
  BY DEF GrantWaitersLocked, Granted
<1>2. waiters \in Seq(Waiter) /\ Len(waiters) \in Nat /\ n \in Nat /\ n <= Len(waiters)
  BY DEF AdmissionInv, TypeOK
<1>3. /\ Len(waiters') = Len(waiters) - n
      /\ DOMAIN waiters' = 1..(Len(waiters) - n)
      /\ \A k \in 1..(Len(waiters) - n) : waiters'[k] = waiters[k + n]
  BY <1>1, <1>2
<1>4. Granted(n) \subseteq Waiting
  BY <1>2 DEF Granted, Waiting
<1>5. Waiting' = {waiters[k].item : k \in (n + 1)..Len(waiters)}
  <2>1. ASSUME NEW k \in 1..(Len(waiters) - n)
        PROVE  k + n \in (n + 1)..Len(waiters)
    BY <1>2
  <2>2. ASSUME NEW k \in (n + 1)..Len(waiters)
        PROVE  k - n \in 1..(Len(waiters) - n) /\ (k - n) + n = k
    BY <1>2
  <2>3. Waiting' = {waiters'[k].item : k \in 1..(Len(waiters) - n)}
    BY <1>3 DEF Waiting
  <2>4. ASSUME NEW x \in Waiting'
        PROVE  x \in {waiters[k].item : k \in (n + 1)..Len(waiters)}
    <3>1. PICK k \in 1..(Len(waiters) - n) : x = waiters[k + n].item
      BY <2>3, <1>3
    <3>2. QED
      BY <3>1, <2>1
  <2>5. ASSUME NEW k \in (n + 1)..Len(waiters)
        PROVE  waiters[k].item \in Waiting'
    <3>1. waiters'[k - n] = waiters[k]
      BY <2>2, <1>3
    <3>2. QED
      BY <3>1, <2>2, <2>3
  <2>6. QED
    BY <2>4, <2>5
<1>6. \A j, k \in 1..Len(waiters) : waiters[j].item = waiters[k].item => j = k
  BY <1>2 DEF AdmissionInv, QueueDisjoint
<1>7. Waiting = {waiters[k].item : k \in 1..Len(waiters)}
  BY <1>2 DEF Waiting
<1>8. Waiting' = Waiting \ Granted(n)
  <2>1. ASSUME NEW i \in Waiting' PROVE i \in Waiting \ Granted(n)
    <3>1. PICK k \in (n + 1)..Len(waiters) : i = waiters[k].item
      BY <1>5
    <3>2. k \in 1..Len(waiters) /\ \A j \in 1..n : j \in 1..Len(waiters) /\ j # k
      BY <1>2
    <3>3. QED
      BY <3>1, <3>2, <1>6, <1>7 DEF Granted
  <2>2. ASSUME NEW i \in Waiting \ Granted(n) PROVE i \in Waiting'
    <3>1. PICK k \in 1..Len(waiters) : i = waiters[k].item
      BY <1>7
    <3>2. k \notin 1..n
      BY <3>1 DEF Granted
    <3>3. k \in (n + 1)..Len(waiters)
      BY <3>2, <1>2
    <3>4. QED
      BY <3>1, <3>3, <1>5
  <2>3. QED
    BY <2>1, <2>2
<1>9. QED
  BY <1>1, <1>4, <1>8

\* What admitting an item does.
LEMMA AdmitEffect ==
  ASSUME NEW i, AdmitNow(i)
  PROVE  i \notin permits \cup Waiting /\ permits' = permits \cup {i} /\ Waiting' = Waiting
BY DEF AdmitNow, PassesGate, Waiting

\* What queueing an item does.
LEMMA EnqueueEffect ==
  ASSUME AdmissionInv, NEW i \in Items, Enqueue(i)
  PROVE  i \notin permits \cup Waiting /\ permits' = permits /\ Waiting' = Waiting \cup {i}
<1>1. PICK exempt \in BOOLEAN :
        /\ i \notin permits \cup Waiting /\ permits' = permits
        /\ waiters' = Append(waiters, [item |-> i, exempt |-> exempt])
  BY DEF Enqueue, PassesGate
<1>2. waiters \in Seq(Waiter) /\ Len(waiters) \in Nat
  BY DEF AdmissionInv, TypeOK
<1>3. /\ DOMAIN waiters' = 1..(Len(waiters) + 1) /\ DOMAIN waiters = 1..Len(waiters)
      /\ waiters'[Len(waiters) + 1] = [item |-> i, exempt |-> exempt]
      /\ \A k \in 1..Len(waiters) : waiters'[k] = waiters[k]
  BY <1>1, <1>2
<1>4. \A k : k \in 1..(Len(waiters) + 1) <=> k \in 1..Len(waiters) \/ k = Len(waiters) + 1
  BY <1>2
<1>5. Waiting' = Waiting \cup {i}
  BY <1>3, <1>4 DEF Waiting
<1>6. QED
  BY <1>1, <1>5

\* What revoking a waiter does.
LEMMA RevokeEffect ==
  ASSUME AdmissionInv, NEW i, Revoke(i)
  PROVE  i \in Waiting /\ permits' = permits /\ Waiting' = Waiting \ {i}
<1>1. PICK k \in DOMAIN waiters :
        /\ waiters[k].item = i /\ permits' = permits
        /\ waiters' = SubSeq(waiters, 1, k - 1) \o SubSeq(waiters, k + 1, Len(waiters))
  BY DEF Revoke
<1>2. waiters \in Seq(Waiter) /\ Len(waiters) \in Nat /\ k \in 1..Len(waiters)
      /\ DOMAIN waiters = 1..Len(waiters)
  BY <1>1 DEF AdmissionInv, TypeOK
<1>3. /\ waiters' \in Seq(Waiter) /\ Len(waiters') = Len(waiters) - 1
      /\ \A j \in 1..(Len(waiters) - 1) : waiters'[j] = waiters[IF j < k THEN j ELSE j + 1]
  BY <1>1, <1>2, TakeOutElement
<1>4. DOMAIN waiters' = 1..(Len(waiters) - 1)
  BY <1>3
<1>5. \A j, l \in 1..Len(waiters) : waiters[j].item = waiters[l].item => j = l
  BY <1>2 DEF AdmissionInv, QueueDisjoint
<1>6. ASSUME NEW x \in Waiting' PROVE x \in Waiting \ {i}
  <2>1. PICK j \in 1..(Len(waiters) - 1) : x = waiters[IF j < k THEN j ELSE j + 1].item
    BY <1>3, <1>4 DEF Waiting
  <2>2. (IF j < k THEN j ELSE j + 1) \in 1..Len(waiters)
        /\ (IF j < k THEN j ELSE j + 1) # k
    BY <1>2
  <2>3. QED
    BY <2>1, <2>2, <1>1, <1>2, <1>5 DEF Waiting
<1>7. ASSUME NEW x \in Waiting \ {i} PROVE x \in Waiting'
  <2>1. PICK l \in 1..Len(waiters) : x = waiters[l].item /\ l # k
    BY <1>1, <1>2 DEF Waiting
  <2>2. PICK j \in 1..(Len(waiters) - 1) : l = IF j < k THEN j ELSE j + 1
    <3>1. CASE l < k
      BY <3>1, <1>2, <2>1
    <3>2. CASE ~(l < k)
      <4>1. l - 1 \in 1..(Len(waiters) - 1) /\ ~(l - 1 < k) /\ l = (l - 1) + 1
        BY <3>2, <1>2, <2>1
      <4>2. QED
        BY <4>1
    <3>3. QED
      BY <3>1, <3>2
  <2>3. QED
    BY <2>1, <2>2, <1>3, <1>4 DEF Waiting
<1>8. i \in Waiting
  BY <1>1 DEF Waiting
<1>9. QED
  BY <1>1, <1>6, <1>7, <1>8

\* Each step of the stage is one of the controller, or leaves it alone.
LEMMA AdmissionKept ==
  ASSUME AdmissionInv, ceiling \in Nat, [StageNext]_stageVars
  PROVE  AdmissionInv' /\ [Pool!PoolNext]_(Pool!poolVars)
<1>1. ASSUME [AdmissionNext]_admissionVars
      PROVE  AdmissionInv' /\ [Pool!PoolNext]_(Pool!poolVars)
  BY <1>1, AdmissionStep
<1>2. ASSUME NEW i \in Items, SubmitStep(i)
      PROVE  [AdmissionNext]_admissionVars
  <2>1. CASE \/ EnterSubmit(i) \/ RefuseAtEntry(i) \/ RefuseAtGate(i) \/ SeeGrant(i)
             \/ StartSend(i) \/ FindClosed(i) \/ Send(i) \/ GiveUpSend(i)
             \/ \E w \in Workers : HandOver(i, w)
    BY <2>1 DEF EnterSubmit, RefuseAtEntry, RefuseAtGate, SeeGrant, StartSend, FindClosed,
                Send, GiveUpSend, HandOver
  <2>2. CASE AcquireFast(i) \/ AcquireSlow(i) \/ GiveUpWaiting(i) \/ Rollback(i)
    BY <2>2 DEF AcquireFast, AcquireSlow, GiveUpWaiting, Rollback, AdmissionNext
  <2>3. QED
    BY <1>2, <2>1, <2>2 DEF SubmitStep
<1>3. ASSUME NEW w \in Workers, WorkerStep(w)
      PROVE  AdmissionInv' /\ [Pool!PoolNext]_(Pool!poolVars)
  <2>1. CASE FinishItem(w)
    <3>1. ReleaseAdmission(job[w]) /\ job[w] \in permits /\ permits \subseteq Items
      BY <2>1 DEF FinishItem, ReleaseAdmission, AdmissionInv, TypeOK
    <3>2. QED
      BY <3>1, <1>1 DEF AdmissionNext
  <2>2. CASE ~FinishItem(w)
    <3>1. UNCHANGED admissionVars
      BY <1>3, <2>2 DEF WorkerStep, Take, ExitWorker, SkipCanceled, RunFn, FnSucceeds, FnFails,
                        ReportFailure, CancelStage, FailureClosed, Receive
    <3>2. QED
      BY <3>1, <1>1
  <2>3. QED
    BY <2>1, <2>2
<1>4. CASE CloseStep
  BY <1>4, <1>1 DEF CloseStep, BeginClose, GateClose, FlagClose, SignalClose, CloseIn,
                    AdmissionNext
<1>5. CASE ContextStep \/ LatchCause \/ Complete
  BY <1>5, <1>1 DEF ContextStep, ExpireSubmit, ParentCancel, PropagateCancel, LatchCause, Complete
<1>6. CASE ControlStep
  <2>1. ASSUME NEW n \in MaxWIPArgs, SetMaxWIP(n)
        PROVE  AdmissionInv' /\ [Pool!PoolNext]_(Pool!poolVars)
    <3>. DEFINE m == IF n > ceiling THEN ceiling ELSE n
    <3>1. ApplyMaxWIP(m) /\ m \in Nat \ {0}
      BY <2>1, ArgsAssumption DEF SetMaxWIP
    <3>2. QED
      BY <3>1, GrantingControlStep DEF ApplyMaxWIP, AdmissionInv, TypeOK
  <2>2. CASE OtherControl
    BY <2>2, <1>1 DEF OtherControl, AdmissionNext
  <2>3. CASE (\E n \in WorkerArgs : SetWorkers(n)) \/ ActiveWorkers \/ ReadCeiling
    BY <2>3, <1>1 DEF SetWorkers, ActiveWorkers, ReadCeiling
  <2>4. QED
    BY <1>6, <2>1, <2>2, <2>3 DEF ControlStep
<1>7. CASE UNCHANGED stageVars
  BY <1>7, <1>1 DEF stageVars
<1>8. QED
  BY <1>1, <1>2, <1>3, <1>4, <1>5, <1>6, <1>7 DEF StageNext

Counters == {"submitted", "completed", "failed", "canceled"}

\* Counting touches one counter.
LEMMA OneCounted ==
  ASSUME counts \in [Counters -> Nat], NEW c \in Counters, Count(c)
  PROVE  /\ counts' \in [Counters -> Nat]
         /\ counts'[c] = counts[c] + 1
         /\ \A d \in Counters : d # c => counts'[d] = counts[d]
BY DEF Count

\* A failure is a completion as well.
LEMMA FailureCounted ==
  ASSUME counts \in [Counters -> Nat], NEW w, FnFails(w)
  PROVE  /\ counts' \in [Counters -> Nat]
         /\ counts'.completed = counts.completed + 1 /\ counts'.failed = counts.failed + 1
         /\ counts'.submitted = counts.submitted /\ counts'.canceled = counts.canceled
<1>. DEFINE once == [counts EXCEPT !["completed"] = counts.completed + 1]
<1>1. once \in [Counters -> Nat] /\ once["failed"] = counts.failed
      /\ once["completed"] = counts.completed + 1
      /\ once["submitted"] = counts.submitted /\ once["canceled"] = counts.canceled
  BY DEF Counters
<1>2. counts' = [once EXCEPT !["failed"] = counts.failed + 1]
  BY DEF FnFails
<1>. HIDE DEF once
<1>3. QED
  BY <1>1, <1>2 DEF Counters

\* The types of the stage's own variables.
LEMMA StageTypesKept ==
  ASSUME StageTypeOK, TypeOK', [StageNext]_stageVars,
         \A w \in Workers : job[w] # None <=> wpc[w] \in Busy
  PROVE  StageTypeOK'
<1>1. ASSUME NEW i \in Items, SubmitStep(i) PROVE StageTypeOK'
  <2>1. CASE \/ EnterSubmit(i) \/ RefuseAtEntry(i) \/ RefuseAtGate(i)
    BY <2>1, ZenonT(40) DEF StageTypeOK, EnterSubmit, RefuseAtEntry, RefuseAtGate, Move, workerVars,
                scaleVars, ctxVars, endVars
  <2>2. CASE \/ SeeGrant(i) \/ StartSend(i) \/ FindClosed(i) \/ GiveUpSend(i)
    BY <2>2, ZenonT(40) DEF StageTypeOK, SeeGrant, StartSend, FindClosed, GiveUpSend, Move, workerVars,
                scaleVars, ctxVars, endVars
  <2>3. CASE AcquireFast(i) \/ AcquireSlow(i) \/ GiveUpWaiting(i) \/ Rollback(i)
    BY <2>3, ZenonT(40) DEF StageTypeOK, AcquireFast, AcquireSlow, GiveUpWaiting, Rollback, Move,
                workerVars, scaleVars, ctxVars, endVars
  <2>4. CASE Send(i)
    BY <2>4 DEF StageTypeOK, Send, Move, Count, workerVars, scaleVars, ctxVars, endVars
  <2>5. ASSUME NEW w \in Workers, HandOver(i, w) PROVE StageTypeOK'
    BY <2>5 DEF StageTypeOK, HandOver, Move, Count, workerVars, scaleVars, ctxVars, endVars
  <2>6. QED
    BY <1>1, <2>1, <2>2, <2>3, <2>4, <2>5 DEF SubmitStep
<1>2. ASSUME NEW w \in Workers, WorkerStep(w) PROVE StageTypeOK'
  <2>1. CASE Take(w)
    <3>1. Head(in) \in Items /\ Tail(in) \in Seq(Items)
      BY <2>1 DEF Take, StageTypeOK
    <3>2. QED
      BY <2>1, <3>1 DEF StageTypeOK, Take, submitVars, scaleVars, ctxVars, endVars
  <2>7. CASE ExitWorker(w) \/ RunFn(w) \/ FailureClosed(w)
    BY <2>7, ZenonT(40) DEF StageTypeOK, ExitWorker, RunFn, FailureClosed, submitVars, scaleVars,
                ctxVars, endVars
  <2>2. CASE SkipCanceled(w)
    BY <2>2 DEF StageTypeOK, SkipCanceled, Count, submitVars, scaleVars, ctxVars, endVars
  <2>9. CASE FnSucceeds(w)
    BY <2>9 DEF StageTypeOK, FnSucceeds, Count, submitVars, scaleVars, ctxVars, endVars
  <2>8. CASE FnFails(w)
    <3>1. counts' \in [{"submitted", "completed", "failed", "canceled"} -> Nat]
      BY <2>8, FailureCounted DEF StageTypeOK, Counters
    <3>2. QED
      BY <2>8, <3>1 DEF StageTypeOK, FnFails, submitVars, scaleVars, ctxVars, endVars
  <2>3. CASE ReportFailure(w) \/ CancelStage(w)
    BY <2>3, ZenonT(40) DEF StageTypeOK, ReportFailure, CancelStage, submitVars, scaleVars, endVars
  <2>4. CASE Receive(w)
    <3>1. job[w] \in Items
      BY <2>4 DEF StageTypeOK, Receive, Busy
    <3>2. QED
      BY <2>4, <3>1 DEF StageTypeOK, Receive, submitVars, scaleVars, ctxVars, endVars
  <2>5. CASE FinishItem(w)
    BY <2>5 DEF StageTypeOK, FinishItem, submitVars, scaleVars, ctxVars, endVars
  <2>6. QED
    BY <1>2, <2>1, <2>2, <2>3, <2>4, <2>5, <2>7, <2>8, <2>9 DEF WorkerStep
<1>3. CASE CloseStep
  BY <1>3 DEF StageTypeOK, CloseStep, BeginClose, GateClose, FlagClose, SignalClose, CloseIn,
              submitVars, workerVars, scaleVars, ctxVars, endVars
<1>4. CASE ContextStep
  BY <1>4, StageAssumption, ZenonT(40)
     DEF StageTypeOK, ContextStep, ExpireSubmit, ParentCancel, PropagateCancel,
         submitVars, workerVars, scaleVars, ctxVars, endVars
<1>5. CASE LatchCause \/ Complete
  BY <1>5 DEF StageTypeOK, LatchCause, Complete, submitVars, workerVars, scaleVars, ctxVars,
              endVars
<1>6. CASE ControlStep
  <2>1. ASSUME NEW n \in WorkerArgs, SetWorkers(n) PROVE StageTypeOK'
    <3>1. n \in Nat \ {0}
      BY StageAssumption
    <3>2. CASE ScaleUp(n)
      BY <2>1, <3>1, <3>2 DEF StageTypeOK, SetWorkers, ScaleUp, Live, submitVars, ctxVars, endVars
    <3>3. CASE ScaleDown(n)
      BY <2>1, <3>1, <3>3 DEF StageTypeOK, SetWorkers, ScaleDown, Live, submitVars, ctxVars, endVars
    <3>4. QED
      BY <2>1, <3>2, <3>3 DEF SetWorkers
  <2>2. CASE ActiveWorkers
    BY <2>2 DEF StageTypeOK, ActiveWorkers, Live, submitVars, workerVars, ctxVars, endVars
  <2>3. CASE ReadCeiling
    BY <2>3, StageAssumption
       DEF StageTypeOK, ReadCeiling, submitVars, workerVars, scaleVars, ctxVars, endVars
  <2>4. ASSUME NEW n \in MaxWIPArgs, SetMaxWIP(n) PROVE StageTypeOK'
    BY <2>4 DEF StageTypeOK, SetMaxWIP, submitVars, workerVars, scaleVars, ctxVars, endVars
  <2>5. CASE OtherControl
    BY <2>5 DEF StageTypeOK, OtherControl, ownVars, submitVars, workerVars, scaleVars,
                ctxVars, endVars
  <2>6. QED
    BY <1>6, <2>1, <2>2, <2>3, <2>4, <2>5 DEF ControlStep
<1>7. CASE UNCHANGED stageVars
  BY <1>7 DEF StageTypeOK, stageVars, ownVars, submitVars, workerVars, scaleVars, ctxVars,
              endVars
<1>8. QED
  BY <1>1, <1>2, <1>3, <1>4, <1>5, <1>6, <1>7 DEF StageNext

-------------------------------------------------------------------------------
(* Where the slots are.                                                    *)

\* The ledger, item by item.
OwnsSlot(i) ==
  \/ pc[i] \in {"send", "sending", "rollback"}
  \/ pc[i] = "waiting" /\ i \notin Waiting
  \/ i \in InChannel
  \/ i \in AtWorker

\* The slots of a state, item by item.
LEMMA LedgerByItem ==
  ASSUME StageTypeOK
  PROVE  SlotLedger <=> \A i \in Items : i \in permits <=> OwnsSlot(i)
<1>1. InChannel \subseteq Items /\ AtWorker \subseteq Items /\ permits \subseteq Items
  BY DEF StageTypeOK, TypeOK, InChannel, AtWorker
<1>2. QED
  BY <1>1 DEF SlotLedger, OwnsSlot

\* The same of the next state.
LEMMA LedgerByItemNext ==
  ASSUME StageTypeOK'
  PROVE  SlotLedger' <=> \A i \in Items : i \in permits' <=> OwnsSlot(i)'
<1>1. InChannel' \subseteq Items /\ AtWorker' \subseteq Items /\ permits' \subseteq Items
  BY DEF StageTypeOK, TypeOK, InChannel, AtWorker
<1>2. QED
  BY <1>1 DEF SlotLedger, OwnsSlot

\* The channel and the hands of the workers, as items move through them.
LEMMA ItemSent ==
  ASSUME in \in Seq(Items), NEW i \in Items, in' = Append(in, i)
  PROVE  /\ InChannel' = InChannel \cup {i}
         /\ in' \in Seq(Items) /\ Len(in') = Len(in) + 1
         /\ (\A j, k \in DOMAIN in : in[j] = in[k] => j = k) /\ i \notin InChannel
              => \A j, k \in DOMAIN in' : in'[j] = in'[k] => j = k
<1>1. /\ DOMAIN in = 1..Len(in) /\ DOMAIN in' = 1..(Len(in) + 1) /\ Len(in) \in Nat
      /\ in'[Len(in) + 1] = i
      /\ \A k \in 1..Len(in) : in'[k] = in[k]
  OBVIOUS
<1>2. \A k : k \in 1..(Len(in) + 1) <=> k \in 1..Len(in) \/ k = Len(in) + 1
  BY <1>1
<1>3. InChannel' = InChannel \cup {i}
  BY <1>1, <1>2 DEF InChannel
<1>4. ASSUME \A j, k \in DOMAIN in : in[j] = in[k] => j = k, i \notin InChannel,
             NEW j \in DOMAIN in', NEW k \in DOMAIN in', in'[j] = in'[k]
      PROVE  j = k
  BY <1>1, <1>2, <1>4 DEF InChannel
<1>5. QED
  BY <1>3, <1>4

\* A worker that receives an item takes its slot over.
LEMMA ItemReceived ==
  ASSUME in \in Seq(Items), in # <<>>, in' = Tail(in),
         \A j, k \in DOMAIN in : in[j] = in[k] => j = k
  PROVE  /\ Head(in) \in InChannel /\ Head(in) \in Items
         /\ InChannel' = InChannel \ {Head(in)}
         /\ Len(in') = Len(in) - 1
         /\ \A j, k \in DOMAIN in' : in'[j] = in'[k] => j = k
<1>1. /\ Len(in) \in Nat \ {0} /\ DOMAIN in = 1..Len(in) /\ Head(in) = in[1]
      /\ Len(in') = Len(in) - 1 /\ DOMAIN in' = 1..(Len(in) - 1)
      /\ \A k \in 1..(Len(in) - 1) : in'[k] = in[k + 1]
  OBVIOUS
<1>2. /\ 1 \in 1..Len(in)
      /\ \A k \in 1..(Len(in) - 1) : k + 1 \in 1..Len(in) /\ k + 1 # 1
      /\ \A k \in 1..Len(in) : k # 1 => k - 1 \in 1..(Len(in) - 1) /\ (k - 1) + 1 = k
      /\ \A j, k \in 1..(Len(in) - 1) : j + 1 = k + 1 => j = k
  BY <1>1
<1>3. Head(in) \in InChannel /\ Head(in) \in Items
  BY <1>1, <1>2 DEF InChannel
<1>4. ASSUME NEW i \in InChannel' PROVE i \in InChannel \ {Head(in)}
  <2>1. PICK k \in 1..(Len(in) - 1) : i = in[k + 1]
    BY <1>1 DEF InChannel
  <2>2. QED
    BY <2>1, <1>1, <1>2 DEF InChannel
<1>5. ASSUME NEW i \in InChannel \ {Head(in)} PROVE i \in InChannel'
  <2>1. PICK k \in 1..Len(in) : i = in[k] /\ k # 1
    BY <1>1 DEF InChannel
  <2>2. k - 1 \in DOMAIN in' /\ in'[k - 1] = i
    BY <2>1, <1>1, <1>2
  <2>3. QED
    BY <2>2 DEF InChannel
<1>6. ASSUME NEW j \in DOMAIN in', NEW k \in DOMAIN in', in'[j] = in'[k] PROVE j = k
  BY <1>1, <1>2, <1>6
<1>7. QED
  BY <1>1, <1>3, <1>4, <1>5, <1>6

\* A worker takes an item that nobody else has.
LEMMA JobTaken ==
  ASSUME job \in [Workers -> Items \cup {None}], NEW w \in Workers, NEW i \in Items,
         job[w] = None, job' = [job EXCEPT ![w] = i]
  PROVE  /\ AtWorker' = AtWorker \cup {i}
         /\ (\A u, v \in Workers : job[u] # None /\ job[u] = job[v] => u = v)
            /\ i \notin AtWorker
              => \A u, v \in Workers : job'[u] # None /\ job'[u] = job'[v] => u = v
<1>1. job'[w] = i /\ i # None /\ \A v \in Workers : v # w => job'[v] = job[v]
  BY StageAssumption
<1>2. AtWorker' = AtWorker \cup {i}
  BY <1>1 DEF AtWorker
<1>3. QED
  BY <1>1, <1>2 DEF AtWorker

\* A worker that is done with its job gives the slot back.
LEMMA JobDone ==
  ASSUME job \in [Workers -> Items \cup {None}], NEW w \in Workers, job[w] # None,
         \A u, v \in Workers : job[u] # None /\ job[u] = job[v] => u = v,
         job' = [job EXCEPT ![w] = None]
  PROVE  /\ job[w] \in AtWorker /\ AtWorker' = AtWorker \ {job[w]}
         /\ \A u, v \in Workers : job'[u] # None /\ job'[u] = job'[v] => u = v
<1>1. job'[w] = None /\ \A v \in Workers : v # w => job'[v] = job[v]
  OBVIOUS
<1>2. QED
  BY <1>1 DEF AtWorker

\* Slots are held by items.
LEMMA SlotsAreItems ==
  ASSUME AdmissionInv, StageTypeOK
  PROVE  Waiting \subseteq Items /\ InChannel \subseteq Items /\ AtWorker \subseteq Items
<1>1. waiters \in Seq(Waiter)
  BY DEF AdmissionInv, TypeOK
<1>2. ASSUME NEW k \in DOMAIN waiters PROVE waiters[k].item \in Items
  <2>1. waiters[k] \in Waiter
    BY <1>1
  <2>2. QED
    BY <2>1 DEF Waiter
<1>3. Waiting \subseteq Items
  BY <1>2 DEF Waiting
<1>4. QED
  BY <1>3 DEF StageTypeOK, InChannel, AtWorker

\* What the ledger's proofs have at hand.
LedgerInv == AdmissionInv /\ StageTypeOK /\ SlotLedger /\ Places

\* The steps of a Submit keep every slot with one owner.
LEMMA LedgerSubmit ==
  ASSUME LedgerInv, StageTypeOK', NEW i \in Items, SubmitStep(i)
  PROVE  SlotLedger' /\ Places'
<1>1. \A j \in Items : j \in permits <=> OwnsSlot(j)
  BY LedgerByItem DEF LedgerInv
<1>2. SUFFICES (\A j \in Items : j \in permits' <=> OwnsSlot(j)') /\ Places'
  BY LedgerByItemNext
<1>. USE <1>1 DEF LedgerInv, OwnsSlot
<1>3. /\ pc \in [Items -> {"new", "acquire", "waiting", "send", "sending",
                           "rollback", "accepted", "refused"}]
      /\ in \in Seq(Items) /\ job \in [Workers -> Items \cup {None}]
      /\ wpc \in [Workers -> Busy \cup {"unborn", "idle", "exited"}]
  BY DEF StageTypeOK, Busy
<1>4. CASE \/ EnterSubmit(i) \/ RefuseAtEntry(i) \/ RefuseAtGate(i)
           \/ SeeGrant(i) \/ StartSend(i) \/ FindClosed(i) \/ GiveUpSend(i)
  <2>1. /\ Waiting' = Waiting /\ permits' = permits /\ in' = in
        /\ InChannel' = InChannel /\ AtWorker' = AtWorker /\ job' = job /\ wpc' = wpc
    BY <1>4 DEF EnterSubmit, RefuseAtEntry, RefuseAtGate, SeeGrant, StartSend, FindClosed,
                GiveUpSend, admissionVars, workerVars, Waiting, InChannel, AtWorker
  <2>2. PICK from, to :
          /\ Move(i, from, to) /\ from # "accepted" /\ to # "accepted" /\ to # "waiting"
          /\ \/ from \in {"new", "acquire"} /\ to \in {"acquire", "refused"}
             \/ from = "waiting" /\ i \notin Waiting /\ to = "send"
             \/ from \in {"send", "sending"} /\ to \in {"sending", "rollback"}
    BY <1>4 DEF EnterSubmit, RefuseAtEntry, RefuseAtGate, SeeGrant, StartSend, FindClosed,
                GiveUpSend
  <2>3. pc[i] = from /\ pc'[i] = to /\ \A j \in Items : j # i => pc'[j] = pc[j]
    BY <2>2, <1>3 DEF Move
  <2>4. Places'
    BY <2>1, <2>2, <2>3, SlotsAreItems DEF Places
  <2>5. \A j \in Items : j \in permits' <=> OwnsSlot(j)'
    BY <2>1, <2>2, <2>3 DEF Places
  <2>6. QED
    BY <2>4, <2>5
<1>5. CASE AcquireFast(i) \/ AcquireSlow(i) \/ GiveUpWaiting(i) \/ Rollback(i)
  <2>1. in' = in /\ InChannel' = InChannel /\ AtWorker' = AtWorker /\ job' = job /\ wpc' = wpc
    BY <1>5 DEF AcquireFast, AcquireSlow, GiveUpWaiting, Rollback, workerVars, InChannel, AtWorker
  <2>2. /\ pc[i] \notin {"accepted"}
        /\ pc'[i] \notin {"accepted"}
        /\ \A j \in Items : j # i => pc'[j] = pc[j]
    BY <1>5, <1>3 DEF AcquireFast, AcquireSlow, GiveUpWaiting, Rollback, Move
  <2>3. Waiting \subseteq Items
    BY SlotsAreItems
  <2>4. /\ \A j \in Waiting' : pc'[j] = "waiting"
        /\ \A j \in Items : j \in permits' <=> OwnsSlot(j)'
    <3>1. CASE AcquireFast(i)
      <4>1. i \notin permits \cup Waiting /\ permits' = permits \cup {i} /\ Waiting' = Waiting
        BY <3>1, AdmitEffect DEF AcquireFast
      <4>2. pc[i] = "acquire" /\ pc'[i] = "send"
        BY <3>1, <1>3 DEF AcquireFast, Move
      <4>3. QED
        BY <2>1, <2>2, <2>3, <4>1, <4>2 DEF Places
    <3>2. CASE AcquireSlow(i)
      <4>1. i \notin permits \cup Waiting /\ permits' = permits /\ Waiting' = Waiting \cup {i}
        BY <3>2, EnqueueEffect DEF AcquireSlow
      <4>2. pc[i] = "acquire" /\ pc'[i] = "waiting"
        BY <3>2, <1>3 DEF AcquireSlow, Move
      <4>3. QED
        BY <2>1, <2>2, <2>3, <4>1, <4>2 DEF Places
    <3>3. CASE GiveUpWaiting(i)
      <4>1. i \in Waiting /\ permits' = permits /\ Waiting' = Waiting \ {i}
        BY <3>3, RevokeEffect DEF GiveUpWaiting
      <4>2. pc[i] = "waiting" /\ pc'[i] = "refused"
        BY <3>3, <1>3 DEF GiveUpWaiting, Move
      <4>3. QED
        BY <2>1, <2>2, <2>3, <4>1, <4>2 DEF Places
    <3>4. CASE Rollback(i)
      <4>1. PICK G \in SUBSET Waiting :
              Waiting' = Waiting \ G /\ permits' = (permits \ {i}) \cup G
        BY <3>4, GrantEffect DEF Rollback, ReleaseAdmission
      <4>2. pc[i] = "rollback" /\ pc'[i] = "refused"
        BY <3>4, <1>3 DEF Rollback, Move
      <4>3. QED
        BY <2>1, <2>2, <2>3, <4>1, <4>2 DEF Places
    <3>5. QED
      BY <1>5, <3>1, <3>2, <3>3, <3>4
  <2>5. InChannel \cup AtWorker \subseteq Items
    BY <1>3 DEF InChannel, AtWorker
  <2>6. \A j \in InChannel' \cup AtWorker' : pc'[j] = "accepted"
    BY <2>1, <2>2, <2>5 DEF Places
  <2>7. QED
    BY <2>1, <2>4, <2>6 DEF Places
<1>6. CASE Send(i)
  <2>1. /\ Waiting' = Waiting /\ permits' = permits /\ AtWorker' = AtWorker
        /\ job' = job /\ wpc' = wpc /\ in' = Append(in, i)
    BY <1>6 DEF Send, admissionVars, workerVars, Waiting, AtWorker
  <2>2. pc[i] = "sending" /\ pc'[i] = "accepted" /\ \A j \in Items : j # i => pc'[j] = pc[j]
    BY <1>6, <1>3 DEF Send, Move
  <2>3. InChannel \cup AtWorker \subseteq Items /\ i \notin InChannel \cup AtWorker /\ i \notin Waiting
    BY <1>3, <2>2 DEF InChannel, AtWorker, Places
  <2>4. /\ InChannel' = InChannel \cup {i}
        /\ \A j, k \in DOMAIN in' : in'[j] = in'[k] => j = k
    BY <1>3, <2>1, <2>3, ItemSent DEF Places
  <2>5. Waiting \subseteq Items
    BY SlotsAreItems
  <2>6. \A j \in Items : j \in permits' <=> OwnsSlot(j)'
    BY <2>1, <2>2, <2>3, <2>4
  <2>7. QED
    BY <2>1, <2>2, <2>3, <2>4, <2>5, <2>6 DEF Places
<1>7. ASSUME NEW w \in Workers, HandOver(i, w)
      PROVE  (\A j \in Items : j \in permits' <=> OwnsSlot(j)') /\ Places'
  <2>1. /\ Waiting' = Waiting /\ permits' = permits /\ InChannel' = InChannel /\ in' = in
        /\ job' = [job EXCEPT ![w] = i] /\ wpc[w] = "idle"
        /\ wpc' = [wpc EXCEPT ![w] = "taken"]
    BY <1>7 DEF HandOver, admissionVars, Waiting, InChannel
  <2>2. pc[i] = "sending" /\ pc'[i] = "accepted" /\ \A j \in Items : j # i => pc'[j] = pc[j]
    BY <1>7, <1>3 DEF HandOver, Move
  <2>3. InChannel \cup AtWorker \subseteq Items /\ i \notin InChannel \cup AtWorker /\ i \notin Waiting
    BY <1>3, <2>2 DEF InChannel, AtWorker, Places
  <2>4. job[w] = None
    BY <2>1 DEF Places, Busy
  <2>5. /\ AtWorker' = AtWorker \cup {i}
        /\ \A u, v \in Workers : job'[u] # None /\ job'[u] = job'[v] => u = v
    BY <1>3, <2>1, <2>3, <2>4, JobTaken DEF Places
  <2>6. Waiting \subseteq Items
    BY SlotsAreItems
  <2>7. \A j \in Items : j \in permits' <=> OwnsSlot(j)'
    BY <2>1, <2>2, <2>3, <2>5
  <2>8. \A v \in Workers : job'[v] # None <=> wpc'[v] \in Busy
    BY <1>3, <2>1, StageAssumption DEF Places, Busy
  <2>9. QED
    BY <2>1, <2>2, <2>3, <2>5, <2>6, <2>7, <2>8 DEF Places
<1>8. QED
  BY <1>4, <1>5, <1>6, <1>7 DEF SubmitStep

\* So do the steps of a worker.
LEMMA LedgerWorker ==
  ASSUME LedgerInv, StageTypeOK', NEW w \in Workers, WorkerStep(w)
  PROVE  SlotLedger' /\ Places'
<1>1. \A j \in Items : j \in permits <=> OwnsSlot(j)
  BY LedgerByItem DEF LedgerInv
<1>2. SUFFICES (\A j \in Items : j \in permits' <=> OwnsSlot(j)') /\ Places'
  BY LedgerByItemNext
<1>. USE <1>1 DEF LedgerInv, OwnsSlot
<1>3. /\ in \in Seq(Items) /\ job \in [Workers -> Items \cup {None}]
      /\ wpc \in [Workers -> Busy \cup {"unborn", "idle", "exited"}]
  BY DEF StageTypeOK, Busy
<1>4. CASE ExitWorker(w) \/ SkipCanceled(w) \/ RunFn(w) \/ FnSucceeds(w) \/ FnFails(w)
           \/ ReportFailure(w) \/ CancelStage(w) \/ FailureClosed(w) \/ Receive(w)
  <2>1. /\ Waiting' = Waiting /\ permits' = permits /\ in' = in /\ pc' = pc
        /\ InChannel' = InChannel /\ AtWorker' = AtWorker /\ job' = job
    BY <1>4 DEF ExitWorker, SkipCanceled, RunFn, FnSucceeds, FnFails, ReportFailure,
                CancelStage, FailureClosed, Receive, admissionVars, submitVars, Waiting,
                InChannel, AtWorker
  <2>2. \A v \in Workers : wpc'[v] \in Busy <=> wpc[v] \in Busy
    BY <1>3, <1>4 DEF ExitWorker, SkipCanceled, RunFn, FnSucceeds, FnFails, ReportFailure,
                CancelStage, FailureClosed, Receive, Busy
  <2>3. QED
    BY <2>1, <2>2 DEF Places
<1>5. CASE Take(w)
  <2>1. /\ Waiting' = Waiting /\ permits' = permits /\ pc' = pc
        /\ in # <<>> /\ in' = Tail(in) /\ job' = [job EXCEPT ![w] = Head(in)]
        /\ wpc[w] = "idle" /\ wpc' = [wpc EXCEPT ![w] = "taken"]
    BY <1>5 DEF Take, admissionVars, submitVars, Waiting
  <2>2. /\ Head(in) \in InChannel /\ Head(in) \in Items
        /\ InChannel' = InChannel \ {Head(in)}
        /\ \A j, k \in DOMAIN in' : in'[j] = in'[k] => j = k
    BY <1>3, <2>1, ItemReceived DEF Places
  <2>3. job[w] = None /\ Head(in) \notin AtWorker
    BY <2>1, <2>2 DEF Places, Busy
  <2>4. /\ AtWorker' = AtWorker \cup {Head(in)}
        /\ \A u, v \in Workers : job'[u] # None /\ job'[u] = job'[v] => u = v
    BY <1>3, <2>1, <2>2, <2>3, JobTaken DEF Places
  <2>5. \A v \in Workers : job'[v] # None <=> wpc'[v] \in Busy
    BY <1>3, <2>1, <2>2, StageAssumption DEF Places, Busy
  <2>6. \A j \in Items : j \in permits' <=> OwnsSlot(j)'
    BY <2>1, <2>2, <2>4
  <2>7. QED
    BY <2>1, <2>2, <2>3, <2>4, <2>5, <2>6 DEF Places
<1>6. CASE FinishItem(w)
  <2>1. /\ pc' = pc /\ in' = in /\ InChannel' = InChannel
        /\ job' = [job EXCEPT ![w] = None]
        /\ wpc[w] = "release" /\ wpc' = [wpc EXCEPT ![w] = "idle"]
    BY <1>6 DEF FinishItem, submitVars, InChannel
  <2>2. PICK G \in SUBSET Waiting :
          Waiting' = Waiting \ G /\ permits' = (permits \ {job[w]}) \cup G
    BY <1>6, GrantEffect DEF FinishItem, ReleaseAdmission
  <2>3. job[w] # None
    BY <2>1 DEF Places, Busy
  <2>4. /\ job[w] \in AtWorker /\ AtWorker' = AtWorker \ {job[w]}
        /\ \A u, v \in Workers : job'[u] # None /\ job'[u] = job'[v] => u = v
    BY <1>3, <2>1, <2>3, JobDone DEF Places
  <2>5. job[w] \notin Waiting /\ pc[job[w]] = "accepted" /\ job[w] \notin InChannel
    BY <2>4 DEF Places
  <2>6. \A v \in Workers : job'[v] # None <=> wpc'[v] \in Busy
    BY <1>3, <2>1 DEF Places, Busy
  <2>7. \A j \in Items : j \in permits' <=> OwnsSlot(j)'
    BY <2>1, <2>2, <2>4, <2>5 DEF Places
  <2>8. QED
    BY <2>1, <2>2, <2>4, <2>6, <2>7 DEF Places
<1>7. QED
  BY <1>4, <1>5, <1>6 DEF WorkerStep

-------------------------------------------------------------------------------
(* Who is on the team.                                                     *)

\* There are finitely many workers.
LEMMA WorkersFinite ==
  /\ IsFiniteSet(Workers) /\ MaxSpawned \in Nat /\ 1 \in Workers
  /\ \A S \in SUBSET Workers : IsFiniteSet(S) /\ Cardinality(S) \in Nat
<1>1. MaxSpawned \in Nat /\ 1 \in Workers /\ Workers = 1..MaxSpawned
  BY StageAssumption DEF Workers
<1>2. IsFiniteSet(Workers)
  BY <1>1, FS_Interval
<1>3. QED
  BY <1>1, <1>2, FS_Subset, FS_CardinalityType

\* The workers a call of SetWorkers starts are the next ones, and new.
LEMMA ScaleUpEffect ==
  ASSUME StageTypeOK, Team, NEW n \in Nat, ScaleUp(n)
  PROVE  \E m, k \in 0..MaxSpawned :
           /\ \A w \in Workers : wpc[w] = "unborn" <=> w > m
           /\ k - m = n - Cardinality(Live) /\ k > m
           /\ workerHandles' = Live \cup ((m + 1)..k)
           /\ wpc' = [w \in Workers |-> IF w \in (m + 1)..k THEN "idle" ELSE wpc[w]]
           /\ retired' = retired
<1>1. PICK m \in 0..MaxSpawned : \A w \in Workers : wpc[w] = "unborn" <=> w > m
  BY DEF Team
<1>2. MaxSpawned \in Nat /\ Live \subseteq Workers /\ Cardinality(Live) \in Nat
  BY WorkersFinite DEF Live, StageTypeOK
<1>3. Unborn = (m + 1)..MaxSpawned
  BY <1>1, <1>2 DEF Unborn, Workers
<1>4. Cardinality(Unborn) = MaxSpawned - m
  <2>1. m + 1 \in Int /\ MaxSpawned \in Int /\ m <= MaxSpawned
    BY <1>2
  <2>2. Cardinality((m + 1)..MaxSpawned) = IF m + 1 > MaxSpawned THEN 0 ELSE MaxSpawned - (m + 1) + 1
    BY <2>1, FS_Interval
  <2>3. QED
    BY <2>1, <2>2, <1>3
<1>. DEFINE more == n - Cardinality(Live)
            k == m + more
            born == (m + 1)..k
<1>5. /\ more > 0 /\ born \subseteq Workers
      /\ workerHandles' = Live \cup born
      /\ wpc' = [w \in Workers |-> IF w \in born THEN "idle" ELSE wpc[w]]
      /\ retired' = retired
  <2>1. MaxSpawned - Cardinality(Unborn) + 1 = m + 1 /\ (m + 1) + more - 1 = k
    BY <1>2, <1>4
  <2>2. QED
    BY <2>1 DEF ScaleUp
<1>6. k \in born /\ k \in Nat
  BY <1>2, <1>5
<1>7. k \in 0..MaxSpawned /\ k > m /\ k - m = more
  BY <1>2, <1>5, <1>6 DEF Workers
<1>8. QED
  BY <1>1, <1>5, <1>7

\* However numbers are spread, no more than n of them have at most n of them
\* at or below.
LEMMA OldestFew ==
  ASSUME NEW S \in SUBSET Workers, NEW n \in Nat
  PROVE  Cardinality({w \in S : Cardinality({v \in S : v <= w}) <= n}) <= n
<1>. DEFINE T == {w \in S : Cardinality({v \in S : v <= w}) <= n}
            Bounds == {b \in Nat : \A t \in T : t <= b}
<1>1. T \subseteq Workers /\ IsFiniteSet(T) /\ \A t \in T : t \in Nat /\ t <= MaxSpawned
  <2>1. T \subseteq Workers
    OBVIOUS
  <2>. HIDE DEF T
  <2>2. \A t \in T : t \in Nat /\ t <= MaxSpawned
    BY <2>1, WorkersFinite DEF Workers
  <2>3. QED
    BY <2>1, <2>2, WorkersFinite
<1>2. CASE T = {}
  <2>1. Cardinality(T) <= n
    <3>. HIDE DEF T
    <3>. QED
      BY <1>2, FS_EmptySet
  <2>2. QED
    BY <2>1
<1>3. CASE T # {}
  <2>1. Bounds \in SUBSET Nat /\ Bounds # {}
    BY <1>1, WorkersFinite
  <2>2. PICK b \in Bounds : \A c \in Bounds : b <= c
    <3>. HIDE DEF Bounds
    <3>. QED
      BY <2>1, SmallestNumber
  <2>3. b \in T
    <3>1. SUFFICES ASSUME b \notin T PROVE FALSE
      OBVIOUS
    <3>2. \A t \in T : t <= b - 1
      BY <1>1, <2>2, <3>1
    <3>3. b - 1 \in Nat
      <4>1. PICK t \in T : t \in Nat
        BY <1>1, <1>3
      <4>2. t <= b - 1 /\ b \in Nat
        BY <4>1, <3>2, <2>2
      <4>3. QED
        BY <4>1, <4>2
    <3>4. b - 1 \in Bounds
      BY <3>2, <3>3
    <3>5. QED
      BY <2>2, <3>4
  <2>4. T \subseteq {v \in S : v <= b} /\ Cardinality({v \in S : v <= b}) <= n
    BY <2>2, <2>3
  <2>. HIDE DEF T, Bounds
  <2>5. IsFiniteSet({v \in S : v <= b}) /\ Cardinality({v \in S : v <= b}) \in Nat
    BY WorkersFinite
  <2>6. Cardinality(T) <= Cardinality({v \in S : v <= b}) /\ Cardinality(T) \in Nat
    BY <1>1, <2>4, <2>5, FS_Subset, FS_CardinalityType
  <2>7. QED
    BY <2>4, <2>5, <2>6 DEF T
<1>4. QED
  BY <1>2, <1>3

-------------------------------------------------------------------------------
(* Steps of all kinds.                                                     *)

\* No step but those of Submit and the workers moves a slot; the controls of
\* the operator may hand out some.
LEMMA LedgerStep ==
  ASSUME LedgerInv, Team, StageTypeOK', [StageNext]_stageVars
  PROVE  SlotLedger' /\ Places'
<1>1. \A j \in Items : j \in permits <=> OwnsSlot(j)
  BY LedgerByItem DEF LedgerInv
<1>2. ASSUME UNCHANGED <<permits, waiters, pc, in, wpc, job>>
      PROVE  SlotLedger' /\ Places'
  BY <1>2 DEF LedgerInv, SlotLedger, Places, Waiting, InChannel, AtWorker
<1>3. ASSUME UNCHANGED <<pc, in, wpc, job>>,
             NEW G \in SUBSET Waiting, Waiting' = Waiting \ G, permits' = permits \cup G
      PROVE  SlotLedger' /\ Places'
  <2>1. InChannel' = InChannel /\ AtWorker' = AtWorker
    BY <1>3 DEF InChannel, AtWorker
  <2>2. Places'
    BY <1>3, <2>1 DEF LedgerInv, Places
  <2>3. \A j \in Items : j \in permits' <=> OwnsSlot(j)'
    BY <1>1, <1>3, <2>1 DEF OwnsSlot, LedgerInv, Places
  <2>4. QED
    BY <2>2, <2>3, LedgerByItemNext
<1>4. CASE CloseStep
  BY <1>4, <1>2 DEF CloseStep, BeginClose, GateClose, CloseAdmission, FlagClose, SignalClose,
                    CloseIn, admissionVars, submitVars, workerVars
<1>5. CASE ContextStep \/ LatchCause \/ Complete
  BY <1>5, <1>2 DEF ContextStep, ExpireSubmit, ParentCancel, PropagateCancel, LatchCause,
                    Complete, admissionVars, submitVars, workerVars
<1>6. CASE ControlStep
  <2>1. ASSUME NEW n \in WorkerArgs, SetWorkers(n) PROVE SlotLedger' /\ Places'
    <3>1. /\ UNCHANGED <<permits, waiters, pc, in, job>>
          /\ Waiting' = Waiting /\ InChannel' = InChannel /\ AtWorker' = AtWorker
      BY <2>1 DEF SetWorkers, admissionVars, submitVars, Waiting, InChannel, AtWorker
    <3>2. \A w \in Workers : wpc'[w] \in Busy <=> wpc[w] \in Busy
      <4>1. CASE ScaleUp(n)
        <5>1. n \in Nat
          BY StageAssumption
        <5>2. PICK m, k \in 0..MaxSpawned :
                /\ \A w \in Workers : wpc[w] = "unborn" <=> w > m
                /\ wpc' = [w \in Workers |-> IF w \in (m + 1)..k THEN "idle" ELSE wpc[w]]
          BY <4>1, <5>1, ScaleUpEffect DEF LedgerInv
        <5>3. \A w \in Workers : w \in (m + 1)..k => wpc[w] = "unborn"
          BY <5>2
        <5>4. QED
          BY <5>2, <5>3 DEF Busy
      <4>2. CASE ScaleDown(n)
        BY <4>2 DEF ScaleDown
      <4>3. QED
        BY <2>1, <4>1, <4>2 DEF SetWorkers
    <3>3. QED
      BY <3>1, <3>2 DEF LedgerInv, SlotLedger, Places
  <2>2. ASSUME NEW n \in MaxWIPArgs, SetMaxWIP(n) PROVE SlotLedger' /\ Places'
    BY <2>2, <1>3, GrantEffect
       DEF SetMaxWIP, ApplyMaxWIP, submitVars, workerVars, LedgerInv
  <2>3. CASE OtherControl
    <3>1. UNCHANGED <<pc, in, wpc, job>>
      BY <2>3 DEF OtherControl, ownVars, submitVars, workerVars
    <3>2. CASE PauseAdmission
      BY <3>1, <3>2, <1>2 DEF PauseAdmission
    <3>3. CASE (\E n \in WeightArgs : SetMaxWIPWeight(n)) \/ DisableMaxWIPWeight \/ ResumeAdmission
      BY <3>1, <3>3, <1>3, GrantEffect
         DEF SetMaxWIPWeight, DisableMaxWIPWeight, ResumeAdmission, LedgerInv
    <3>4. QED
      BY <2>3, <3>2, <3>3 DEF OtherControl
  <2>4. CASE ActiveWorkers \/ ReadCeiling
    BY <2>4, <1>2 DEF ActiveWorkers, ReadCeiling, admissionVars, submitVars, workerVars
  <2>5. QED
    BY <1>6, <2>1, <2>2, <2>3, <2>4 DEF ControlStep
<1>7. CASE UNCHANGED stageVars
  BY <1>7, <1>2 DEF stageVars, admissionVars, ownVars, submitVars, workerVars
<1>8. QED
  BY <1>4, <1>5, <1>6, <1>7, LedgerSubmit, LedgerWorker DEF StageNext

\* The flags of CloseInput only go up, and change only in its own steps.
LEMMA ShutStep ==
  ASSUME StageTypeOK, [StageNext]_stageVars
  PROVE  \/ shut' = shut
         \/ CloseStep /\ (InputClosed => InputClosed') /\ (Closed => Closed')
<1>1. ASSUME NEW i \in Items, SubmitStep(i) PROVE shut' = shut
  BY <1>1 DEF SubmitStep, EnterSubmit, RefuseAtEntry, RefuseAtGate, AcquireFast, AcquireSlow,
              SeeGrant, GiveUpWaiting, StartSend, FindClosed, Send, GiveUpSend, Rollback, HandOver
<1>2. ASSUME NEW w \in Workers, WorkerStep(w) PROVE shut' = shut
  BY <1>2 DEF WorkerStep, Take, ExitWorker, SkipCanceled, RunFn, FnSucceeds, FnFails,
              ReportFailure, CancelStage, FailureClosed, Receive, FinishItem
<1>3. CASE CloseStep
  BY <1>3 DEF CloseStep, BeginClose, GateClose, FlagClose, SignalClose, CloseIn, InputClosed, Closed
<1>4. CASE ContextStep \/ LatchCause \/ Complete
  BY <1>4 DEF ContextStep, ExpireSubmit, ParentCancel, PropagateCancel, LatchCause, Complete
<1>5. CASE ControlStep
  BY <1>5 DEF ControlStep, SetWorkers, ActiveWorkers, ReadCeiling, SetMaxWIP, OtherControl, ownVars
<1>6. QED
  BY <1>1, <1>2, <1>3, <1>4, <1>5 DEF StageNext, stageVars, ownVars

\* How a Submit comes to its send.
LEMMA SendingStep ==
  ASSUME StageTypeOK, [StageNext]_stageVars, NEW i \in Items, pc'[i] = "sending"
  PROVE  pc[i] = "sending" \/ (~Closed /\ shut' = shut)
<1>1. ASSUME NEW j \in Items, SubmitStep(j)
      PROVE  pc[i] = "sending" \/ (~Closed /\ shut' = shut)
  <2>1. CASE StartSend(j)
    BY <2>1 DEF StartSend, Move, StageTypeOK
  <2>2. CASE ~StartSend(j)
    <3>1. PICK from, to : Move(j, from, to) /\ to # "sending"
      BY <1>1, <2>2 DEF SubmitStep, EnterSubmit, RefuseAtEntry, RefuseAtGate, AcquireFast,
             AcquireSlow, SeeGrant, GiveUpWaiting, FindClosed, Send, GiveUpSend, Rollback, HandOver
    <3>2. QED
      BY <3>1 DEF Move, StageTypeOK
  <2>3. QED
    BY <2>1, <2>2
<1>. SUFFICES (\A j \in Items : ~SubmitStep(j)) => pc' = pc
  BY <1>1
<1>2. ASSUME NEW w \in Workers, WorkerStep(w) PROVE pc' = pc
  BY <1>2 DEF WorkerStep, Take, ExitWorker, SkipCanceled, RunFn, FnSucceeds, FnFails,
              ReportFailure, CancelStage, FailureClosed, Receive, FinishItem, submitVars
<1>3. CASE CloseStep
  BY <1>3 DEF CloseStep, BeginClose, GateClose, FlagClose, SignalClose, CloseIn, submitVars
<1>4. CASE ContextStep \/ LatchCause \/ Complete
  BY <1>4 DEF ContextStep, ExpireSubmit, ParentCancel, PropagateCancel, LatchCause, Complete,
              submitVars
<1>5. CASE ControlStep
  BY <1>5 DEF ControlStep, SetWorkers, ActiveWorkers, ReadCeiling, SetMaxWIP, OtherControl,
              ownVars, submitVars
<1>6. QED
  BY <1>1, <1>2, <1>3, <1>4, <1>5 DEF StageNext, stageVars, ownVars, submitVars

\* No step brings a send and the close of the input together.
LEMMA NoSendStep ==
  ASSUME StageTypeOK, NoSendOnClosedInput, [StageNext]_stageVars
  PROVE  NoSendOnClosedInput'
<1>1. SUFFICES ASSUME InputClosed', NEW i \in Items, pc'[i] = "sending" PROVE FALSE
  BY DEF NoSendOnClosedInput
<1>2. pc[i] = "sending" \/ (~Closed /\ shut' = shut)
  BY <1>1, SendingStep
<1>3. ~(~Closed /\ shut' = shut)
  BY <1>1 DEF InputClosed, Closed
<1>4. InputClosed \/ CloseIn
  BY <1>1, ShutStep DEF InputClosed, CloseStep, BeginClose, GateClose, FlagClose, SignalClose
<1>5. QED
  BY <1>2, <1>3, <1>4 DEF NoSendOnClosedInput, CloseIn

\* Workers come and go as SetWorkers and the closed input want them to.
LEMMA StayingAreLive ==
  ASSUME StageTypeOK, Team
  PROVE  Staying \subseteq Live /\ Live \subseteq Workers
BY DEF Staying, Live, Team, StageTypeOK

\* The steps of a worker keep the team within its target.
LEMMA TeamWorker ==
  ASSUME StageTypeOK, Team, NEW w \in Workers, WorkerStep(w)
  PROVE  Team'
<1>1. /\ wpc \in [Workers -> {"unborn", "idle", "taken", "running", "report",
                              "cancel", "close", "emit", "release", "exited"}]
      /\ 1 \in Workers
  BY WorkersFinite DEF StageTypeOK
<1>2. CASE ~ExitWorker(w)
  <2>1. /\ UNCHANGED <<scaleVars, shut>>
        /\ (in # <<>> \/ in' = in)
        /\ wpc[w] \in Busy \cup {"idle"}
        /\ \E to \in Busy \cup {"idle"} : wpc' = [wpc EXCEPT ![w] = to]
    BY <1>1, <1>2 DEF WorkerStep, Take, SkipCanceled, RunFn, FnSucceeds, FnFails, ReportFailure,
                CancelStage, FailureClosed, Receive, FinishItem, Busy
  <2>2. PICK to \in Busy \cup {"idle"} : wpc' = [wpc EXCEPT ![w] = to]
    BY <2>1
  <2>3. wpc'[w] = to /\ \A v \in Workers : v # w => wpc'[v] = wpc[v]
    BY <1>1, <2>2
  <2>4. \A v \in Workers : /\ wpc'[v] = "unborn" <=> wpc[v] = "unborn"
                           /\ wpc'[v] = "exited" <=> wpc[v] = "exited"
    BY <2>1, <2>2, <2>3 DEF Busy
  <2>5. Staying' = Staying
    BY <2>1, <2>4 DEF Staying, scaleVars
  <2>6. QED
    BY <1>1, <2>1, <2>4, <2>5 DEF Team, scaleVars, InputClosed
<1>3. CASE ExitWorker(w)
  <2>1. /\ UNCHANGED <<scaleVars, shut, in>> /\ wpc[w] = "idle"
        /\ wpc' = [wpc EXCEPT ![w] = "exited"]
        /\ ((InputClosed /\ in = <<>>) \/ w \in retired)
    BY <1>3 DEF ExitWorker
  <2>2. wpc'[w] = "exited" /\ \A v \in Workers : v # w => wpc'[v] = wpc[v]
    BY <1>1, <2>1
  <2>3. \A v \in Workers : wpc'[v] = "unborn" <=> wpc[v] = "unborn"
    BY <2>1, <2>2
  <2>4. Staying' \in SUBSET Staying /\ Staying \in SUBSET Workers
    BY <2>1, <2>2 DEF Staying, scaleVars
  <2>5. Cardinality(Staying') <= Cardinality(Staying)
        /\ Cardinality(Staying') \in Nat /\ Cardinality(Staying) \in Nat
    BY <2>4, WorkersFinite, FS_Subset
  <2>6. targetWorkers' = targetWorkers /\ targetWorkers \in Nat
    BY <2>1 DEF scaleVars, StageTypeOK
  <2>7. Cardinality(Staying') <= targetWorkers'
    BY <2>5, <2>6 DEF Team
  <2>8. wpc'[1] = "exited" => InputClosed' /\ in' = <<>>
    BY <1>1, <2>1, <2>2 DEF Team, InputClosed
  <2>9. QED
    BY <1>1, <2>1, <2>2, <2>3, <2>4, <2>7, <2>8 DEF Team, scaleVars
<1>4. QED
  BY <1>2, <1>3

\* So does SetWorkers, which starts and retires handles.
LEMMA TeamScaled ==
  ASSUME StageTypeOK, Team, NEW n \in Nat \ {0}, SetWorkers(n)
  PROVE  Team'
<1>1. /\ wpc \in [Workers -> {"unborn", "idle", "taken", "running", "report",
                              "cancel", "close", "emit", "release", "exited"}]
      /\ 1 \in Workers /\ targetWorkers' = n /\ shut' = shut /\ in' = in
  BY WorkersFinite DEF StageTypeOK, SetWorkers
<1>2. /\ Staying \subseteq Live /\ Live \in SUBSET Workers
      /\ IsFiniteSet(Live) /\ Cardinality(Live) \in Nat
  BY StayingAreLive, WorkersFinite
<1>3. CASE ScaleUp(n)
  <2>1. PICK m, k \in 0..MaxSpawned :
          /\ \A w \in Workers : wpc[w] = "unborn" <=> w > m
          /\ k - m = n - Cardinality(Live) /\ k > m
          /\ workerHandles' = Live \cup ((m + 1)..k)
          /\ wpc' = [w \in Workers |-> IF w \in (m + 1)..k THEN "idle" ELSE wpc[w]]
          /\ retired' = retired
    BY <1>3, ScaleUpEffect
  <2>2. \A w \in Workers : /\ w \in (m + 1)..k => wpc[w] = "unborn" /\ wpc'[w] = "idle"
                           /\ w \notin (m + 1)..k => wpc'[w] = wpc[w]
    BY <2>1
  <2>3. \A w \in Workers : wpc'[w] = "unborn" <=> w > k
    BY <2>1, <2>2, WorkersFinite DEF Workers
  <2>4. Staying' \in SUBSET (Live \cup ((m + 1)..k))
    BY <2>1, <2>2, <1>2 DEF Staying
  <2>5. IsFiniteSet((m + 1)..k) /\ Cardinality((m + 1)..k) = k - m
    <3>1. m + 1 \in Int /\ k \in Int /\ m \in Int /\ ~(m + 1 > k)
      BY <2>1
    <3>2. IsFiniteSet((m + 1)..k)
          /\ Cardinality((m + 1)..k) = IF m + 1 > k THEN 0 ELSE k - (m + 1) + 1
      BY <3>1, FS_Interval
    <3>3. QED
      BY <3>1, <3>2
  <2>6. Live \cap ((m + 1)..k) \in SUBSET Live
    OBVIOUS
  <2>7. Cardinality(Live \cap ((m + 1)..k)) \in Nat
    BY <2>6, <1>2, FS_Subset, FS_CardinalityType
  <2>8. /\ IsFiniteSet(Live \cup ((m + 1)..k))
        /\ Cardinality(Live \cup ((m + 1)..k)) =
             Cardinality(Live) + Cardinality((m + 1)..k) - Cardinality(Live \cap ((m + 1)..k))
    BY <1>2, <2>5, FS_Union
  <2>9. IsFiniteSet(Staying') /\ Cardinality(Staying') <= Cardinality(Live \cup ((m + 1)..k))
    BY <2>4, <2>8, FS_Subset
  <2>10. Cardinality(Staying') \in Nat
    BY <2>9, FS_CardinalityType
  <2>11. Cardinality(Staying') <= n
    <3>1. Cardinality(Live \cup ((m + 1)..k)) <= n
      BY <2>1, <2>5, <2>7, <2>8, <1>2
    <3>2. QED
      BY <3>1, <2>9, <2>10, <2>8, FS_CardinalityType
  <2>12. /\ Staying' \subseteq workerHandles'
         /\ 1 \notin retired' /\ wpc'[1] # "unborn"
         /\ (wpc'[1] = "exited" => InputClosed' /\ in' = <<>>)
         /\ (wpc'[1] # "exited" => 1 \in workerHandles')
    BY <1>1, <1>2, <2>1, <2>2, <2>4 DEF Team, Live, InputClosed
  <2>13. QED
    BY <1>1, <2>1, <2>3, <2>11, <2>12 DEF Team
<1>4. CASE ScaleDown(n)
  <2>1. /\ workerHandles' = Live /\ wpc' = wpc
        /\ retired' = retired \cup {w \in Live : Age(w) > n}
    BY <1>4 DEF ScaleDown
  <2>2. Staying' \in SUBSET {w \in Live : Cardinality({v \in Live : v <= w}) <= n}
    <3>1. SUFFICES ASSUME NEW w \in Staying'
                   PROVE  w \in Live /\ Cardinality({v \in Live : v <= w}) <= n
      OBVIOUS
    <3>2. w \in Staying /\ ~(Age(w) > n)
      BY <2>1, <1>2 DEF Staying, Live, Team
    <3>3. Age(w) \in Nat
      BY <1>2, WorkersFinite DEF Age
    <3>4. QED
      BY <3>2, <3>3, <1>2 DEF Age
  <2>3. Cardinality({w \in Live : Cardinality({v \in Live : v <= w}) <= n}) <= n
    BY <1>2, OldestFew
  <2>4. {w \in Live : Cardinality({v \in Live : v <= w}) <= n} \in SUBSET Workers
    BY <1>2
  <2>5. Cardinality(Staying') <= n
    <3>1. IsFiniteSet({w \in Live : Cardinality({v \in Live : v <= w}) <= n})
          /\ Cardinality({w \in Live : Cardinality({v \in Live : v <= w}) <= n}) \in Nat
      BY <2>4, WorkersFinite
    <3>2. /\ IsFiniteSet(Staying')
          /\ Cardinality(Staying') <=
               Cardinality({w \in Live : Cardinality({v \in Live : v <= w}) <= n})
      BY <2>2, <3>1, FS_Subset
    <3>3. Cardinality(Staying') \in Nat
      BY <3>2, FS_CardinalityType
    <3>4. QED
      BY <2>3, <3>1, <3>2, <3>3
  <2>6. 1 \notin {w \in Live : Age(w) > n}
    <3>1. SUFFICES ASSUME 1 \in Live PROVE ~(Age(1) > n)
      OBVIOUS
    <3>2. {v \in Live : v <= 1} = {1}
      <4>1. \A v \in Live : v \in Nat /\ v >= 1
        BY <1>2, WorkersFinite DEF Workers
      <4>2. \A v \in Live : v <= 1 <=> v = 1
        BY <4>1
      <4>3. QED
        BY <3>1, <4>2
    <3>3. Age(1) = 1
      BY <3>2, FS_Singleton DEF Age
    <3>4. QED
      BY <3>3
  <2>7. Staying' \subseteq Live
    BY <2>2
  <2>8. QED
    BY <1>1, <2>1, <2>5, <2>6, <2>7 DEF Team, Live, InputClosed
<1>5. QED
  BY <1>3, <1>4 DEF SetWorkers

\* Every step keeps the team within its target.
LEMMA TeamStep ==
  ASSUME StageTypeOK, Team, NoSendOnClosedInput, [StageNext]_stageVars
  PROVE  Team'
<1>1. ASSUME UNCHANGED <<wpc, workerHandles, retired, targetWorkers>>,
             InputClosed /\ in = <<>> => InputClosed' /\ in' = <<>>
      PROVE  Team'
  BY <1>1 DEF Team, Staying
<1>2. ASSUME UNCHANGED <<wpc, workerHandles, retired, targetWorkers, in, shut>>
      PROVE  Team'
  BY <1>2, <1>1 DEF InputClosed
<1>3. ASSUME NEW i \in Items, SubmitStep(i) PROVE Team'
  <2>1. CASE Send(i)
    <3>1. ~InputClosed
      BY <2>1 DEF Send, Move, NoSendOnClosedInput
    <3>2. QED
      BY <2>1, <3>1, <1>1 DEF Send, workerVars, scaleVars
  <2>2. ASSUME NEW w \in Workers, HandOver(i, w) PROVE Team'
    <3>1. /\ UNCHANGED <<scaleVars, shut, in>> /\ wpc[w] = "idle"
          /\ wpc' = [wpc EXCEPT ![w] = "taken"]
      BY <2>2 DEF HandOver
    <3>2. \A v \in Workers : /\ wpc'[v] = "unborn" <=> wpc[v] = "unborn"
                             /\ wpc'[v] = "exited" <=> wpc[v] = "exited"
      BY <3>1 DEF StageTypeOK
    <3>3. Staying' = Staying
      BY <3>1, <3>2 DEF Staying, scaleVars
    <3>4. QED
      BY <3>1, <3>2, <3>3, WorkersFinite DEF Team, scaleVars, InputClosed
  <2>3. CASE ~Send(i) /\ \A w \in Workers : ~HandOver(i, w)
    BY <1>3, <2>3, <1>2 DEF SubmitStep, EnterSubmit, RefuseAtEntry, RefuseAtGate, AcquireFast,
           AcquireSlow, SeeGrant, GiveUpWaiting, StartSend, FindClosed, GiveUpSend, Rollback,
           workerVars, scaleVars
  <2>4. QED
    BY <2>1, <2>2, <2>3
<1>4. CASE CloseStep
  <2>1. UNCHANGED <<wpc, workerHandles, retired, targetWorkers, in>>
    BY <1>4 DEF CloseStep, BeginClose, GateClose, FlagClose, SignalClose, CloseIn, workerVars,
                scaleVars
  <2>2. QED
    BY <2>1, <1>1, ShutStep DEF InputClosed
<1>5. CASE ContextStep \/ LatchCause \/ Complete
  BY <1>5, <1>2 DEF ContextStep, ExpireSubmit, ParentCancel, PropagateCancel, LatchCause,
                    Complete, workerVars, scaleVars
<1>6. CASE ControlStep
  <2>1. ASSUME NEW n \in WorkerArgs, SetWorkers(n) PROVE Team'
    BY <2>1, TeamScaled, StageAssumption
  <2>2. CASE ActiveWorkers
    <3>1. /\ workerHandles' = Live
          /\ UNCHANGED <<wpc, retired, targetWorkers, in, shut>>
      BY <2>2 DEF ActiveWorkers, workerVars
    <3>2. Staying' = Staying /\ Staying \subseteq Live
      BY <3>1, StayingAreLive DEF Staying
    <3>3. QED
      BY <3>1, <3>2, WorkersFinite DEF Team, Live, InputClosed
  <2>3. CASE ReadCeiling \/ (\E n \in MaxWIPArgs : SetMaxWIP(n)) \/ OtherControl
    BY <2>3, <1>2 DEF ReadCeiling, SetMaxWIP, OtherControl, ownVars, workerVars, scaleVars
  <2>4. QED
    BY <1>6, <2>1, <2>2, <2>3 DEF ControlStep
<1>7. CASE UNCHANGED stageVars
  BY <1>7, <1>2 DEF stageVars, ownVars, workerVars, scaleVars
<1>8. QED
  BY <1>3, <1>4, <1>5, <1>6, <1>7, TeamWorker DEF StageNext

-------------------------------------------------------------------------------
(* What is owed, what is counted, and why the stage stopped.               *)

\* What is owed, item by item.
InHand(i) == \E w \in Workers : wpc[w] \in Busy \ {"release"} /\ job[w] = i

\* What is owed to the consumer, item by item.
LEMMA OwedByItem ==
  ASSUME StageTypeOK, Places
  PROVE  Deliveries <=>
           \A i \in Items :
             /\ delivered[i] # 0 => delivered[i] = 1 /\ pc[i] = "accepted"
             /\ (pc[i] = "accepted" /\ delivered[i] = 0) <=> (i \in InChannel \/ InHand(i))
<1>1. InChannel \subseteq Items
  BY DEF StageTypeOK, InChannel
<1>2. \A w \in Undelivered : w \in Workers /\ job[w] \in Items
  BY DEF StageTypeOK, Places, Undelivered
<1>3. QED
  BY <1>1, <1>2 DEF Deliveries, Owed, InHand, Undelivered

\* The same of the next state.
LEMMA OwedByItemNext ==
  ASSUME StageTypeOK', Places'
  PROVE  Deliveries' <=>
           \A i \in Items :
             /\ delivered'[i] # 0 => delivered'[i] = 1 /\ pc'[i] = "accepted"
             /\ (pc'[i] = "accepted" /\ delivered'[i] = 0) <=> (i \in InChannel' \/ InHand(i)')
<1>1. InChannel' \subseteq Items
  BY DEF StageTypeOK, InChannel
<1>2. \A w \in Undelivered' : w \in Workers /\ job'[w] \in Items
  BY DEF StageTypeOK, Places, Undelivered
<1>3. QED
  BY <1>1, <1>2 DEF Deliveries, Owed, InHand, Undelivered

\* Every step keeps what is owed with the channel and the workers.
LEMMA DeliveriesStep ==
  ASSUME LedgerInv, Team, Deliveries, StageTypeOK', Places', [StageNext]_stageVars
  PROVE  Deliveries'
<1>1. \A i \in Items :
        /\ delivered[i] # 0 => delivered[i] = 1 /\ pc[i] = "accepted"
        /\ (pc[i] = "accepted" /\ delivered[i] = 0) <=> (i \in InChannel \/ InHand(i))
  BY OwedByItem DEF LedgerInv
<1>2. SUFFICES ASSUME NEW i \in Items
      PROVE  /\ delivered'[i] # 0 => delivered'[i] = 1 /\ pc'[i] = "accepted"
             /\ (pc'[i] = "accepted" /\ delivered'[i] = 0) <=> (i \in InChannel' \/ InHand(i)')
  BY OwedByItemNext
<1>. DEFINE Goal == /\ delivered'[i] # 0 => delivered'[i] = 1 /\ pc'[i] = "accepted"
                    /\ (pc'[i] = "accepted" /\ delivered'[i] = 0)
                         <=> (i \in InChannel' \/ InHand(i)')
<1>3. /\ pc \in [Items -> {"new", "acquire", "waiting", "send", "sending",
                           "rollback", "accepted", "refused"}]
      /\ in \in Seq(Items) /\ job \in [Workers -> Items \cup {None}]
      /\ wpc \in [Workers -> Busy \cup {"unborn", "idle", "exited"}]
      /\ delivered \in [Items -> Nat] /\ Places
  BY DEF LedgerInv, StageTypeOK, Busy
<1>4. ASSUME UNCHANGED <<delivered, in, wpc, job>>,
             pc'[i] = "accepted" <=> pc[i] = "accepted"
      PROVE  Goal
  BY <1>1, <1>4 DEF InChannel, InHand
<1>5. ASSUME UNCHANGED <<delivered, pc, in, job>>,
             \A w \in Workers : wpc'[w] \in Busy \ {"release"} <=> wpc[w] \in Busy \ {"release"}
      PROVE  Goal
  BY <1>1, <1>5 DEF InChannel, InHand
<1>6. ASSUME NEW j \in Items, SubmitStep(j) PROVE Goal
  <2>1. CASE Send(j)
    <3>1. /\ UNCHANGED <<delivered, wpc, job>> /\ in' = Append(in, j)
          /\ pc[j] = "sending" /\ pc'[j] = "accepted" /\ \A k \in Items : k # j => pc'[k] = pc[k]
      BY <2>1, <1>3 DEF Send, Move, workerVars
    <3>2. InChannel' = InChannel \cup {j}
      BY <3>1, <1>3, ItemSent
    <3>3. QED
      BY <1>1, <3>1, <3>2 DEF InHand
  <2>2. ASSUME NEW w \in Workers, HandOver(j, w) PROVE Goal
    <3>1. /\ UNCHANGED <<delivered, in>> /\ InChannel' = InChannel
          /\ wpc[w] = "idle" /\ wpc' = [wpc EXCEPT ![w] = "taken"]
          /\ job' = [job EXCEPT ![w] = j]
          /\ pc[j] = "sending" /\ pc'[j] = "accepted" /\ \A k \in Items : k # j => pc'[k] = pc[k]
      BY <2>2, <1>3 DEF HandOver, Move, InChannel
    <3>2. /\ wpc'[w] = "taken" /\ job'[w] = j
          /\ \A v \in Workers : v # w => wpc'[v] = wpc[v] /\ job'[v] = job[v]
      BY <3>1, <1>3
    <3>3. wpc[w] \notin Busy /\ "taken" \in Busy \ {"release"}
      BY <3>1 DEF Busy
    <3>4. InHand(i)' <=> InHand(i) \/ i = j
      BY <3>2, <3>3 DEF InHand
    <3>5. QED
      BY <1>1, <3>1, <3>4
  <2>3. CASE ~Send(j) /\ \A w \in Workers : ~HandOver(j, w)
    <3>1. UNCHANGED <<delivered, in, wpc, job>>
      BY <1>6, <2>3 DEF SubmitStep, EnterSubmit, RefuseAtEntry, RefuseAtGate, AcquireFast,
           AcquireSlow, SeeGrant, GiveUpWaiting, StartSend, FindClosed, GiveUpSend, Rollback,
           workerVars
    <3>2. PICK from, to : Move(j, from, to) /\ from # "accepted" /\ to # "accepted"
      BY <1>6, <2>3 DEF SubmitStep, EnterSubmit, RefuseAtEntry, RefuseAtGate, AcquireFast,
           AcquireSlow, SeeGrant, GiveUpWaiting, StartSend, FindClosed, GiveUpSend, Rollback
    <3>3. pc'[i] = "accepted" <=> pc[i] = "accepted"
      BY <3>2, <1>3 DEF Move
    <3>4. QED
      BY <3>1, <3>3, <1>4
  <2>4. QED
    BY <2>1, <2>2, <2>3
<1>7. ASSUME NEW w \in Workers, WorkerStep(w) PROVE Goal
  <2>1. CASE ExitWorker(w) \/ SkipCanceled(w) \/ RunFn(w) \/ FnSucceeds(w) \/ FnFails(w)
             \/ ReportFailure(w) \/ CancelStage(w) \/ FailureClosed(w)
    <3>1. UNCHANGED <<delivered, pc, in, job>>
      BY <2>1 DEF ExitWorker, SkipCanceled, RunFn, FnSucceeds, FnFails, ReportFailure,
                  CancelStage, FailureClosed, submitVars
    <3>2. \A v \in Workers : wpc'[v] \in Busy \ {"release"} <=> wpc[v] \in Busy \ {"release"}
      BY <2>1, <1>3 DEF ExitWorker, SkipCanceled, RunFn, FnSucceeds, FnFails, ReportFailure,
                  CancelStage, FailureClosed, Busy
    <3>3. QED
      BY <3>1, <3>2, <1>5
  <2>2. CASE Take(w)
    <3>1. /\ UNCHANGED <<delivered, pc>> /\ in # <<>> /\ in' = Tail(in)
          /\ wpc[w] = "idle" /\ wpc' = [wpc EXCEPT ![w] = "taken"]
          /\ job' = [job EXCEPT ![w] = Head(in)]
      BY <2>2 DEF Take, submitVars
    <3>2. /\ wpc'[w] = "taken" /\ job'[w] = Head(in)
          /\ \A v \in Workers : v # w => wpc'[v] = wpc[v] /\ job'[v] = job[v]
      BY <3>1, <1>3
    <3>3. Head(in) \in InChannel /\ InChannel' = InChannel \ {Head(in)}
      BY <3>1, <1>3, ItemReceived DEF Places
    <3>4. wpc[w] \notin Busy /\ "taken" \in Busy \ {"release"}
      BY <3>1 DEF Busy
    <3>5. InHand(i)' <=> InHand(i) \/ i = Head(in)
      BY <3>2, <3>4 DEF InHand
    <3>6. QED
      BY <1>1, <3>1, <3>3, <3>5
  <2>3. CASE Receive(w)
    <3>1. /\ UNCHANGED <<pc, in, job>> /\ InChannel' = InChannel
          /\ delivered' = [delivered EXCEPT ![job[w]] = @ + 1]
          /\ wpc[w] = "emit" /\ wpc' = [wpc EXCEPT ![w] = "release"]
      BY <2>3 DEF Receive, submitVars, InChannel
    <3>2. /\ wpc[w] \in Busy \ {"release"} /\ job[w] \in Items
          /\ wpc'[w] \notin Busy \ {"release"}
          /\ \A v \in Workers : v # w => wpc'[v] = wpc[v]
      BY <3>1, <1>3 DEF Places, Busy
    <3>3. InHand(job[w]) /\ job[w] \in AtWorker /\ job[w] \notin InChannel
      BY <3>2, <1>3, StageAssumption DEF InHand, AtWorker, Places
    <3>4. InHand(i)' <=> InHand(i) /\ i # job[w]
      BY <3>1, <3>2, <1>3 DEF InHand, Places
    <3>5. /\ delivered'[job[w]] = delivered[job[w]] + 1
          /\ i # job[w] => delivered'[i] = delivered[i]
      BY <3>1, <3>2, <1>3
    <3>6. delivered[job[w]] = 0 /\ pc[job[w]] = "accepted"
      BY <1>1, <3>2, <3>3
    <3>7. CASE i = job[w]
      BY <3>1, <3>3, <3>4, <3>5, <3>6, <3>7
    <3>8. CASE i # job[w]
      BY <1>1, <3>1, <3>4, <3>5, <3>8
    <3>9. QED
      BY <3>7, <3>8
  <2>4. CASE FinishItem(w)
    <3>1. /\ UNCHANGED <<delivered, pc, in>> /\ InChannel' = InChannel
          /\ wpc[w] = "release" /\ wpc' = [wpc EXCEPT ![w] = "idle"]
          /\ job' = [job EXCEPT ![w] = None]
      BY <2>4 DEF FinishItem, submitVars, InChannel
    <3>2. /\ wpc[w] \notin Busy \ {"release"} /\ wpc'[w] \notin Busy \ {"release"}
          /\ \A v \in Workers : v # w => wpc'[v] = wpc[v] /\ job'[v] = job[v]
      BY <3>1, <1>3 DEF Busy
    <3>3. InHand(i)' <=> InHand(i)
      BY <3>2 DEF InHand
    <3>4. QED
      BY <1>1, <3>1, <3>3
  <2>5. QED
    BY <1>7, <2>1, <2>2, <2>3, <2>4 DEF WorkerStep
<1>8. CASE CloseStep
  BY <1>8, <1>4 DEF CloseStep, BeginClose, GateClose, FlagClose, SignalClose, CloseIn,
                    submitVars, workerVars
<1>9. CASE ContextStep \/ LatchCause \/ Complete
  BY <1>9, <1>4 DEF ContextStep, ExpireSubmit, ParentCancel, PropagateCancel, LatchCause,
                    Complete, submitVars, workerVars
<1>10. CASE ControlStep
  <2>1. ASSUME NEW n \in WorkerArgs, SetWorkers(n) PROVE Goal
    <3>1. UNCHANGED <<delivered, pc, in, job>>
      BY <2>1 DEF SetWorkers, submitVars
    <3>2. \A w \in Workers : wpc'[w] \in Busy \ {"release"} <=> wpc[w] \in Busy \ {"release"}
      <4>1. CASE ScaleUp(n)
        <5>1. n \in Nat
          BY StageAssumption
        <5>2. PICK m, k \in 0..MaxSpawned :
                /\ \A w \in Workers : wpc[w] = "unborn" <=> w > m
                /\ wpc' = [w \in Workers |-> IF w \in (m + 1)..k THEN "idle" ELSE wpc[w]]
          BY <4>1, <5>1, ScaleUpEffect DEF LedgerInv
        <5>3. \A w \in Workers : w \in (m + 1)..k => wpc[w] = "unborn"
          BY <5>2
        <5>4. QED
          BY <5>2, <5>3 DEF Busy
      <4>2. CASE ScaleDown(n)
        BY <4>2 DEF ScaleDown
      <4>3. QED
        BY <2>1, <4>1, <4>2 DEF SetWorkers
    <3>3. QED
      BY <3>1, <3>2, <1>5
  <2>2. CASE ~\E n \in WorkerArgs : SetWorkers(n)
    BY <1>10, <2>2, <1>4 DEF ControlStep, ActiveWorkers, ReadCeiling, SetMaxWIP, OtherControl,
                    ownVars, submitVars, workerVars
  <2>3. QED
    BY <2>1, <2>2
<1>11. CASE UNCHANGED stageVars
  BY <1>11, <1>4 DEF stageVars, ownVars, submitVars, workerVars
<1>12. QED
  BY <1>6, <1>7, <1>8, <1>9, <1>10, <1>11 DEF StageNext

\* Every step keeps the counters in balance.
LEMMA CountingStep ==
  ASSUME LedgerInv, Team, Counting, [StageNext]_stageVars
  PROVE  Counting'
<1>1. /\ counts \in [Counters -> Nat] /\ in \in Seq(Items) /\ Len(in) \in Nat
      /\ wpc \in [Workers -> Busy \cup {"unborn", "idle", "exited"}]
      /\ counts.submitted \in Nat /\ counts.completed \in Nat /\ counts.canceled \in Nat
  BY DEF LedgerInv, StageTypeOK, Busy, Counters
<1>2. /\ Handling \subseteq Workers /\ IsFiniteSet(Handling) /\ Cardinality(Handling) \in Nat
      /\ counts.submitted = counts.completed + counts.canceled + Len(in) + Cardinality(Handling)
  BY WorkersFinite DEF Handling, Counting
<1>3. ASSUME UNCHANGED <<counts, in>>,
             \A w \in Workers : wpc'[w] \in {"taken", "running"} <=> wpc[w] \in {"taken", "running"}
      PROVE  Counting'
  <2>1. Handling' = Handling
    BY <1>3 DEF Handling
  <2>2. QED
    BY <1>2, <1>3, <2>1 DEF Counting
<1>4. ASSUME NEW w \in Workers, w \notin Handling, Handling' = Handling \cup {w}
      PROVE  Cardinality(Handling') = Cardinality(Handling) + 1
  BY <1>2, <1>4, FS_AddElement
<1>5. ASSUME NEW w \in Workers, w \in Handling, Handling' = Handling \ {w}
      PROVE  Cardinality(Handling') = Cardinality(Handling) - 1
  BY <1>2, <1>5, FS_RemoveElement
<1>6. ASSUME NEW i \in Items, SubmitStep(i) PROVE Counting'
  <2>1. CASE Send(i)
    <3>1. in' = Append(in, i) /\ Handling' = Handling /\ Count("submitted")
      BY <2>1 DEF Send, workerVars, Handling
    <3>2. /\ counts'.submitted = counts.submitted + 1
          /\ counts'.completed = counts.completed /\ counts'.canceled = counts.canceled
      BY <1>1, <3>1, OneCounted DEF Counters
    <3>3. Len(in') = Len(in) + 1
      BY <1>1, <3>1
    <3>4. QED
      BY <1>1, <1>2, <3>1, <3>2, <3>3 DEF Counting
  <2>2. ASSUME NEW w \in Workers, HandOver(i, w) PROVE Counting'
    <3>1. /\ in' = in /\ Count("submitted") /\ wpc[w] = "idle"
          /\ wpc' = [wpc EXCEPT ![w] = "taken"]
      BY <2>2 DEF HandOver
    <3>2. w \notin Handling /\ Handling' = Handling \cup {w}
      BY <1>1, <3>1 DEF Handling
    <3>3. /\ counts'.submitted = counts.submitted + 1
          /\ counts'.completed = counts.completed /\ counts'.canceled = counts.canceled
      BY <1>1, <3>1, OneCounted DEF Counters
    <3>4. Cardinality(Handling') = Cardinality(Handling) + 1
      BY <1>4, <3>2
    <3>5. QED
      BY <1>1, <1>2, <3>1, <3>3, <3>4 DEF Counting
  <2>3. CASE ~Send(i) /\ \A w \in Workers : ~HandOver(i, w)
    BY <1>3, <1>6, <2>3 DEF SubmitStep, EnterSubmit, RefuseAtEntry, RefuseAtGate, AcquireFast,
           AcquireSlow, SeeGrant, GiveUpWaiting, StartSend, FindClosed, GiveUpSend, Rollback,
           workerVars
  <2>4. QED
    BY <2>1, <2>2, <2>3
<1>7. ASSUME NEW w \in Workers, WorkerStep(w) PROVE Counting'
  <2>1. CASE ExitWorker(w) \/ RunFn(w) \/ ReportFailure(w) \/ CancelStage(w)
             \/ FailureClosed(w) \/ Receive(w) \/ FinishItem(w)
    <3>1. UNCHANGED <<counts, in>>
      BY <2>1 DEF ExitWorker, RunFn, ReportFailure, CancelStage, FailureClosed, Receive, FinishItem
    <3>2. \A v \in Workers :
            wpc'[v] \in {"taken", "running"} <=> wpc[v] \in {"taken", "running"}
      BY <2>1, <1>1 DEF ExitWorker, RunFn, ReportFailure, CancelStage, FailureClosed, Receive,
                  FinishItem
    <3>3. QED
      BY <3>1, <3>2, <1>3
  <2>2. CASE Take(w)
    <3>1. /\ UNCHANGED counts /\ in # <<>> /\ in' = Tail(in) /\ wpc[w] = "idle"
          /\ wpc' = [wpc EXCEPT ![w] = "taken"]
      BY <2>2 DEF Take
    <3>2. w \notin Handling /\ Handling' = Handling \cup {w}
      BY <1>1, <3>1 DEF Handling
    <3>3. Len(in') = Len(in) - 1
      BY <1>1, <3>1
    <3>4. Cardinality(Handling') = Cardinality(Handling) + 1
      BY <1>4, <3>2
    <3>5. QED
      BY <1>1, <1>2, <3>1, <3>3, <3>4, SMTT(30) DEF Counting
  <2>3. CASE SkipCanceled(w) \/ FnSucceeds(w) \/ FnFails(w)
    <3>1. /\ in' = in /\ wpc[w] \in {"taken", "running"}
          /\ \E to \in {"emit", "report"} : wpc' = [wpc EXCEPT ![w] = to]
      BY <2>3 DEF SkipCanceled, FnSucceeds, FnFails
    <3>2. w \in Handling /\ Handling' = Handling \ {w}
      BY <1>1, <3>1 DEF Handling
    <3>3. /\ counts'.submitted = counts.submitted
          /\ counts'.completed \in Nat /\ counts'.canceled \in Nat
          /\ counts'.completed + counts'.canceled = counts.completed + counts.canceled + 1
      <4>1. CASE SkipCanceled(w)
        BY <1>1, <4>1, OneCounted DEF SkipCanceled, Counters
      <4>2. CASE FnSucceeds(w)
        BY <1>1, <4>2, OneCounted DEF FnSucceeds, Counters
      <4>3. CASE FnFails(w)
        <5>1. /\ counts' \in [Counters -> Nat]
              /\ counts'.completed = counts.completed + 1
              /\ counts'.submitted = counts.submitted /\ counts'.canceled = counts.canceled
          BY <1>1, <4>3, FailureCounted
        <5>2. counts.completed \in Nat /\ counts.canceled \in Nat
          BY <1>1
        <5>3. QED
          BY <5>1, <5>2
      <4>4. QED
        BY <2>3, <4>1, <4>2, <4>3
    <3>4. Cardinality(Handling') = Cardinality(Handling) - 1
      BY <1>5, <3>2
    <3>5. QED
      BY <1>1, <1>2, <3>1, <3>3, <3>4, SMTT(30) DEF Counting
  <2>4. QED
    BY <1>7, <2>1, <2>2, <2>3 DEF WorkerStep
<1>8. CASE CloseStep
  BY <1>8, <1>3 DEF CloseStep, BeginClose, GateClose, FlagClose, SignalClose, CloseIn, workerVars
<1>9. CASE ContextStep \/ LatchCause \/ Complete
  BY <1>9, <1>3 DEF ContextStep, ExpireSubmit, ParentCancel, PropagateCancel, LatchCause,
                    Complete, workerVars
<1>10. CASE ControlStep
  <2>1. ASSUME NEW n \in WorkerArgs, SetWorkers(n) PROVE Counting'
    <3>1. UNCHANGED <<counts, in>>
      BY <2>1 DEF SetWorkers
    <3>2. \A w \in Workers :
            wpc'[w] \in {"taken", "running"} <=> wpc[w] \in {"taken", "running"}
      <4>1. CASE ScaleUp(n)
        <5>1. n \in Nat
          BY StageAssumption
        <5>2. PICK m, k \in 0..MaxSpawned :
                /\ \A w \in Workers : wpc[w] = "unborn" <=> w > m
                /\ wpc' = [w \in Workers |-> IF w \in (m + 1)..k THEN "idle" ELSE wpc[w]]
          BY <4>1, <5>1, ScaleUpEffect DEF LedgerInv
        <5>3. \A w \in Workers : w \in (m + 1)..k => wpc[w] = "unborn"
          BY <5>2
        <5>4. QED
          BY <5>2, <5>3
      <4>2. CASE ScaleDown(n)
        BY <4>2 DEF ScaleDown
      <4>3. QED
        BY <2>1, <4>1, <4>2 DEF SetWorkers
    <3>3. QED
      BY <3>1, <3>2, <1>3
  <2>2. CASE ~\E n \in WorkerArgs : SetWorkers(n)
    BY <1>10, <2>2, <1>3 DEF ControlStep, ActiveWorkers, ReadCeiling, SetMaxWIP, OtherControl,
                    ownVars, workerVars
  <2>3. QED
    BY <2>1, <2>2
<1>11. CASE UNCHANGED stageVars
  BY <1>11, <1>3 DEF stageVars, ownVars, workerVars
<1>12. QED
  BY <1>6, <1>7, <1>8, <1>9, <1>10, <1>11 DEF StageNext

\* Once the cause is latched no worker moves and no worker is started.
LEMMA AfterLatch ==
  ASSUME StageTypeOK, Team, Ending, cause # "unset", [StageNext]_stageVars
  PROVE  /\ wpc' = wpc /\ cause' = cause
         /\ counts'.failed = counts.failed /\ counts'.canceled = counts.canceled
         /\ parentDone => parentDone'
<1>1. /\ counts \in [Counters -> Nat] /\ InputClosed
      /\ \A w \in Workers : wpc[w] \in {"unborn", "exited"}
  BY WorkersFinite DEF StageTypeOK, Counters, Ending, Team
<1>2. ASSUME UNCHANGED <<wpc, cause, counts>>, parentDone => parentDone'
      PROVE  /\ wpc' = wpc /\ cause' = cause
             /\ counts'.failed = counts.failed /\ counts'.canceled = counts.canceled
             /\ parentDone => parentDone'
  BY <1>2
<1>3. ASSUME NEW i \in Items, SubmitStep(i)
      PROVE  /\ wpc' = wpc /\ cause' = cause
             /\ counts'.failed = counts.failed /\ counts'.canceled = counts.canceled
             /\ parentDone => parentDone'
  <2>1. CASE Send(i)
    <3>1. Count("submitted") /\ wpc' = wpc /\ cause' = cause /\ parentDone' = parentDone
      BY <2>1 DEF Send, workerVars, endVars, ctxVars
    <3>2. QED
      BY <1>1, <3>1, OneCounted DEF Counters
  <2>2. CASE ~Send(i)
    BY <1>1, <1>2, <1>3, <2>2 DEF SubmitStep, EnterSubmit, RefuseAtEntry, RefuseAtGate,
           AcquireFast, AcquireSlow, SeeGrant, GiveUpWaiting, StartSend, FindClosed, GiveUpSend,
           Rollback, HandOver, workerVars, endVars, ctxVars
  <2>3. QED
    BY <2>1, <2>2
<1>4. ASSUME NEW w \in Workers, WorkerStep(w) PROVE FALSE
  BY <1>1, <1>4 DEF WorkerStep, Take, ExitWorker, SkipCanceled, RunFn, FnSucceeds, FnFails,
              ReportFailure, CancelStage, FailureClosed, Receive, FinishItem
<1>5. CASE CloseStep
  BY <1>5, <1>2 DEF CloseStep, BeginClose, GateClose, FlagClose, SignalClose, CloseIn, workerVars,
                    endVars, ctxVars
<1>6. CASE ContextStep \/ LatchCause \/ Complete
  BY <1>6, <1>2 DEF ContextStep, ExpireSubmit, ParentCancel, PropagateCancel, LatchCause,
                    Complete, workerVars, endVars, ctxVars
<1>7. CASE ControlStep
  <2>1. ASSUME NEW n \in WorkerArgs, SetWorkers(n) PROVE FALSE
    BY <1>1, <2>1 DEF SetWorkers, Stopping, InputClosed
  <2>2. QED
    BY <1>7, <2>1, <1>2 DEF ControlStep, ActiveWorkers, ReadCeiling, SetMaxWIP, OtherControl,
                    ownVars, workerVars, endVars, ctxVars
<1>8. CASE UNCHANGED stageVars
  BY <1>8, <1>2 DEF stageVars, ownVars, workerVars, endVars, ctxVars
<1>9. QED
  BY <1>3, <1>4, <1>5, <1>6, <1>7, <1>8 DEF StageNext

\* Only LatchCause and Complete write the cause and done.
LEMMA EndStep ==
  ASSUME [StageNext]_stageVars
  PROVE  LatchCause \/ Complete \/ UNCHANGED <<cause, done>>
<1>1. ASSUME NEW i \in Items, SubmitStep(i) PROVE UNCHANGED <<cause, done>>
  BY <1>1 DEF SubmitStep, EnterSubmit, RefuseAtEntry, RefuseAtGate, AcquireFast, AcquireSlow,
           SeeGrant, GiveUpWaiting, StartSend, FindClosed, Send, GiveUpSend, Rollback, HandOver,
           endVars
<1>2. ASSUME NEW w \in Workers, WorkerStep(w) PROVE UNCHANGED <<cause, done>>
  BY <1>2 DEF WorkerStep, Take, ExitWorker, SkipCanceled, RunFn, FnSucceeds, FnFails,
              ReportFailure, CancelStage, FailureClosed, Receive, FinishItem, endVars
<1>3. CASE CloseStep
  BY <1>3 DEF CloseStep, BeginClose, GateClose, FlagClose, SignalClose, CloseIn, endVars
<1>4. CASE ContextStep
  BY <1>4 DEF ContextStep, ExpireSubmit, ParentCancel, PropagateCancel, endVars
<1>5. CASE ControlStep
  BY <1>5 DEF ControlStep, SetWorkers, ActiveWorkers, ReadCeiling, SetMaxWIP, OtherControl,
              ownVars, endVars
<1>6. QED
  BY <1>1, <1>2, <1>3, <1>4, <1>5 DEF StageNext, stageVars, ownVars, endVars

\* Every step keeps what is known of a stage that ends.
LEMMA EndingStep ==
  ASSUME StageTypeOK, Team, Ending, [StageNext]_stageVars
  PROVE  Ending'
<1>1. CASE cause # "unset"
  BY <1>1, AfterLatch DEF Ending
<1>2. CASE cause = "unset"
  <2>1. CASE LatchCause
    BY <1>2, <2>1 DEF LatchCause, Ending, workerVars
  <2>2. CASE UNCHANGED <<cause, done>>
    BY <1>2, <2>2 DEF Ending
  <2>3. ~Complete
    BY <1>2 DEF Complete
  <2>4. QED
    BY <2>1, <2>2, <2>3, EndStep
<1>3. QED
  BY <1>1, <1>2

\* Every step keeps the cause honest.
LEMMA HonestStep ==
  ASSUME StageTypeOK, Team, Ending, Reasons, CauseIsHonest, [StageNext]_stageVars
  PROVE  CauseIsHonest'
<1>1. CASE cause # "unset"
  BY <1>1, AfterLatch DEF CauseIsHonest
<1>2. CASE cause = "unset"
  <2>1. CASE LatchCause
    <3>1. /\ counts.canceled \in Nat /\ counts.failed \in Nat /\ ~done
          /\ counts' = counts /\ parentDone' = parentDone
          /\ cause' = IF err # None THEN "failure" ELSE IF parentDone THEN "parent" ELSE "nil"
          /\ \A w \in Workers : wpc[w] # "report"
      BY <1>2, <2>1 DEF LatchCause, StageTypeOK, Ending, ctxVars
    <3>2. err = None /\ ~parentDone => counts.canceled = 0 /\ (FailFast => counts.failed = 0)
      BY <3>1 DEF Reasons
    <3>3. err # None => counts.failed > 0 /\ FailFast
      BY DEF Reasons
    <3>4. QED
      BY <3>1, <3>2, <3>3 DEF CauseIsHonest
  <2>2. CASE UNCHANGED <<cause, done>>
    BY <1>2, <2>2 DEF CauseIsHonest
  <2>3. ~Complete
    BY <1>2 DEF Complete
  <2>4. QED
    BY <2>1, <2>2, <2>3, EndStep
<1>3. QED
  BY <1>1, <1>2

\* Every step keeps the reasons of the cause.
LEMMA ReasonsStep ==
  ASSUME LedgerInv, Team, Reasons, [StageNext]_stageVars
  PROVE  Reasons'
<1>1. /\ counts \in [Counters -> Nat] /\ counts.canceled \in Nat /\ counts.failed \in Nat
      /\ FailFast \in BOOLEAN /\ StageTypeOK
      /\ wpc \in [Workers -> Busy \cup {"unborn", "idle", "exited"}]
      /\ job \in [Workers -> Items \cup {None}]
  BY StageAssumption DEF LedgerInv, StageTypeOK, Counters, Busy
<1>. DEFINE Failing == {"report", "cancel", "close"}
            Same == /\ counts'.canceled = counts.canceled /\ counts'.failed = counts.failed
                    /\ \A w \in Workers : wpc'[w] = wpc[w] \/ (wpc[w] \notin Failing /\ wpc'[w] \notin Failing)
<1>2. ASSUME Same, UNCHANGED <<stageDone, parentDone, err, done>>
      PROVE  Reasons'
  <2>1. \A w \in Workers : /\ wpc'[w] \in Failing => wpc[w] = wpc'[w]
                           /\ wpc[w] \in Failing => wpc[w] = wpc'[w]
    BY <1>2
  <2>2. \A w \in Workers : /\ wpc'[w] \in {"report", "cancel", "close"} => wpc[w] = wpc'[w]
                           /\ wpc[w] = "report" => wpc'[w] = "report"
                           /\ wpc'[w] = "cancel" => wpc[w] = "cancel"
    BY <2>1
  <2>. HIDE DEF Same, Failing
  <2>3. counts'.canceled = counts.canceled /\ counts'.failed = counts.failed
    BY <1>2 DEF Same
  <2>4. QED
    BY <1>2, <2>2, <2>3 DEF Reasons
<1>3. ASSUME UNCHANGED <<counts, wpc>>, UNCHANGED <<stageDone, parentDone, err, done>>
      PROVE  Reasons'
  BY <1>3 DEF Reasons
<1>4. ASSUME NEW i \in Items, SubmitStep(i) PROVE Reasons'
  <2>1. UNCHANGED <<stageDone, parentDone, err, done>>
    BY <1>4 DEF SubmitStep, EnterSubmit, RefuseAtEntry, RefuseAtGate, AcquireFast, AcquireSlow,
           SeeGrant, GiveUpWaiting, StartSend, FindClosed, Send, GiveUpSend, Rollback, HandOver,
           endVars, ctxVars
  <2>2. CASE Send(i)
    <3>1. Count("submitted") /\ wpc' = wpc
      BY <2>2 DEF Send, workerVars
    <3>2. Same
      BY <1>1, <3>1, OneCounted DEF Counters
    <3>3. QED
      BY <2>1, <3>2, <1>2
  <2>3. ASSUME NEW w \in Workers, HandOver(i, w) PROVE Reasons'
    <3>1. Count("submitted") /\ wpc[w] = "idle" /\ wpc' = [wpc EXCEPT ![w] = "taken"]
      BY <2>3 DEF HandOver
    <3>2. Same
      BY <1>1, <3>1, OneCounted DEF Counters
    <3>3. QED
      BY <2>1, <3>2, <1>2
  <2>4. CASE ~Send(i) /\ \A w \in Workers : ~HandOver(i, w)
    <3>1. UNCHANGED <<counts, wpc>>
      BY <1>4, <2>4 DEF SubmitStep, EnterSubmit, RefuseAtEntry, RefuseAtGate, AcquireFast,
           AcquireSlow, SeeGrant, GiveUpWaiting, StartSend, FindClosed, GiveUpSend, Rollback,
           workerVars
    <3>2. QED
      BY <2>1, <3>1, <1>3
  <2>5. QED
    BY <2>2, <2>3, <2>4
<1>5. ASSUME NEW w \in Workers, WorkerStep(w) PROVE Reasons'
  <2>1. CASE Take(w) \/ ExitWorker(w) \/ RunFn(w) \/ Receive(w) \/ FinishItem(w)
    <3>1. Same /\ UNCHANGED <<stageDone, parentDone, err, done>>
      BY <1>1, <2>1 DEF Take, ExitWorker, RunFn, Receive, FinishItem, ctxVars, endVars
    <3>2. QED
      BY <3>1, <1>2
  <2>2. CASE SkipCanceled(w)
    <3>1. /\ stageDone /\ UNCHANGED <<stageDone, parentDone, err, done>>
          /\ wpc[w] = "taken" /\ wpc' = [wpc EXCEPT ![w] = "emit"]
          /\ Count("canceled")
      BY <2>2 DEF SkipCanceled, ctxVars, endVars
    <3>2. counts'.failed = counts.failed
      BY <1>1, <3>1, OneCounted DEF Counters
    <3>3. \A v \in Workers : v # w => wpc'[v] = wpc[v]
      BY <1>1, <3>1
    <3>4. wpc'[w] = "emit"
      BY <1>1, <3>1
    <3>5. QED
      BY <1>1, <3>1, <3>2, <3>3, <3>4 DEF Reasons
  <2>3. CASE FnSucceeds(w)
    <3>1. /\ UNCHANGED <<stageDone, parentDone, err, done>>
          /\ wpc[w] = "running" /\ wpc' = [wpc EXCEPT ![w] = "emit"]
          /\ Count("completed")
      BY <2>3 DEF FnSucceeds, ctxVars, endVars
    <3>2. Same
      BY <1>1, <3>1, OneCounted DEF Counters
    <3>3. QED
      BY <3>1, <3>2, <1>2
  <2>4. CASE FnFails(w)
    <3>1. /\ UNCHANGED <<stageDone, parentDone, err, done>>
          /\ wpc[w] = "running"
          /\ wpc' = [wpc EXCEPT ![w] = IF FailFast THEN "report" ELSE "emit"]
          /\ counts'.canceled = counts.canceled /\ counts'.failed = counts.failed + 1
      BY <1>1, <2>4, FailureCounted DEF FnFails, ctxVars, endVars
    <3>2. counts'.failed > 0
      BY <1>1, <3>1
    <3>3. \A v \in Workers : v # w => wpc'[v] = wpc[v]
      BY <1>1, <3>1
    <3>4. wpc'[w] = IF FailFast THEN "report" ELSE "emit"
      BY <1>1, <3>1
    <3>5. QED
      BY <1>1, <3>1, <3>2, <3>3, <3>4 DEF Reasons
  <2>5. CASE ReportFailure(w)
    <3>. DEFINE first == err = None /\ ~stageDone
    <3>1. /\ UNCHANGED <<stageDone, parentDone, done, counts>>
          /\ wpc[w] = "report" /\ err' = (IF first THEN job[w] ELSE err)
          /\ wpc' = [wpc EXCEPT ![w] = IF first THEN "cancel" ELSE "emit"]
      BY <2>5 DEF ReportFailure, endVars
    <3>2. job[w] # None
      BY <3>1 DEF LedgerInv, Places, Busy
    <3>3. \A v \in Workers : v # w => wpc'[v] = wpc[v]
      BY <1>1, <3>1
    <3>4. wpc'[w] = IF first THEN "cancel" ELSE "emit"
      BY <1>1, <3>1
    <3>5. FailFast /\ counts.failed > 0 /\ (err' # None \/ stageDone')
      BY <3>1, <3>2 DEF Reasons
    <3>6. QED
      BY <1>1, <3>1, <3>2, <3>3, <3>4, <3>5 DEF Reasons
  <2>6. CASE CancelStage(w)
    <3>1. /\ UNCHANGED <<parentDone, done, counts, err>> /\ stageDone'
          /\ wpc[w] = "cancel" /\ wpc' = [wpc EXCEPT ![w] = "close"]
      BY <2>6 DEF CancelStage, endVars
    <3>2. \A v \in Workers : v # w => wpc'[v] = wpc[v]
      BY <1>1, <3>1
    <3>3. wpc'[w] = "close"
      BY <1>1, <3>1
    <3>4. QED
      BY <1>1, <3>1, <3>2, <3>3 DEF Reasons
  <2>7. CASE FailureClosed(w)
    <3>1. /\ UNCHANGED <<stageDone, parentDone, done, counts, err>>
          /\ wpc[w] = "close" /\ wpc' = [wpc EXCEPT ![w] = "emit"]
      BY <2>7 DEF FailureClosed, endVars, ctxVars
    <3>2. \A v \in Workers : v # w => wpc'[v] = wpc[v]
      BY <1>1, <3>1
    <3>3. wpc'[w] = "emit"
      BY <1>1, <3>1
    <3>4. QED
      BY <1>1, <3>1, <3>2, <3>3 DEF Reasons
  <2>8. QED
    BY <1>5, <2>1, <2>2, <2>3, <2>4, <2>5, <2>6, <2>7 DEF WorkerStep
<1>6. CASE CloseStep
  BY <1>6, <1>3 DEF CloseStep, BeginClose, GateClose, FlagClose, SignalClose, CloseIn, workerVars,
                    endVars, ctxVars
<1>7. CASE ContextStep \/ LatchCause \/ Complete
  <2>1. UNCHANGED <<counts, wpc, err>>
    BY <1>7 DEF ContextStep, ExpireSubmit, ParentCancel, PropagateCancel, LatchCause, Complete,
                workerVars, ctxVars
  <2>2. /\ parentDone => parentDone'
        /\ done => done'
        /\ stageDone => stageDone'
        /\ stageDone' => stageDone \/ parentDone' \/ done'
    BY <1>7 DEF ContextStep, ExpireSubmit, ParentCancel, PropagateCancel, LatchCause, Complete,
                endVars, ctxVars
  <2>3. QED
    BY <2>1, <2>2 DEF Reasons
<1>8. CASE ControlStep
  <2>1. ASSUME NEW n \in WorkerArgs, SetWorkers(n) PROVE Reasons'
    <3>1. UNCHANGED <<counts, stageDone, parentDone, err, done>>
      BY <2>1 DEF SetWorkers, ctxVars, endVars
    <3>2. CASE ScaleUp(n)
      <4>1. n \in Nat
        BY StageAssumption
      <4>2. PICK m, k \in 0..MaxSpawned :
              /\ \A w \in Workers : wpc[w] = "unborn" <=> w > m
              /\ wpc' = [w \in Workers |-> IF w \in (m + 1)..k THEN "idle" ELSE wpc[w]]
        BY <3>2, <4>1, <1>1, ScaleUpEffect
      <4>3. \A w \in Workers : w \in (m + 1)..k => wpc[w] = "unborn"
        BY <4>2
      <4>4. Same
        BY <3>1, <4>2, <4>3
      <4>5. QED
        BY <3>1, <4>4, <1>2
    <3>3. CASE ScaleDown(n)
      BY <3>1, <3>3, <1>3 DEF ScaleDown
    <3>4. QED
      BY <2>1, <3>2, <3>3 DEF SetWorkers
  <2>2. CASE ~\E n \in WorkerArgs : SetWorkers(n)
    BY <1>8, <2>2, <1>3 DEF ControlStep, ActiveWorkers, ReadCeiling, SetMaxWIP, OtherControl,
                    ownVars, workerVars, ctxVars, endVars
  <2>3. QED
    BY <2>1, <2>2
<1>9. CASE UNCHANGED stageVars
  BY <1>9, <1>3 DEF stageVars, ownVars, workerVars, ctxVars, endVars
<1>10. QED
  BY <1>4, <1>5, <1>6, <1>7, <1>8, <1>9 DEF StageNext

-------------------------------------------------------------------------------
(* The invariant holds.                                                    *)

\* The invariant holds at first.
LEMMA StageInvInit == StageInit => StageInv
<1>. SUFFICES ASSUME StageInit PROVE StageInv
  OBVIOUS
<1>. USE DEF StageInit
<1>1. AdmissionInv /\ TypeOK
  BY AdmissionInvInit DEF AdmissionInv
<1>2. InitWorkers \in Nat \ {0} /\ MaxSpawned \in Nat /\ InitWorkers <= MaxSpawned
  BY StageAssumption
<1>3. StageTypeOK
  <2>1. workerHandles \subseteq Workers
    BY <1>2 DEF Workers
  <2>2. <<>> \in Seq(Items)
    BY EmptySeq
  <2>3. counts \in [Counters -> Nat]
    BY DEF Counters
  <2>4. QED
    BY <1>1, <1>2, <2>1, <2>2, <2>3 DEF StageTypeOK, Counters
<1>4. Waiting = {} /\ InChannel = {} /\ AtWorker = {}
  BY DEF Waiting, InChannel, AtWorker, AdmissionInit
<1>5. SlotLedger /\ Places /\ NoSendOnClosedInput
  <2>1. permits = {} /\ in = <<>>
    BY DEF AdmissionInit
  <2>2. \A w \in Workers : job[w] = None /\ wpc[w] \notin Busy
    BY DEF Busy
  <2>3. QED
    BY <1>4, <2>1, <2>2 DEF SlotLedger, Places, NoSendOnClosedInput
<1>6. Team
  <2>1. 1..InitWorkers \subseteq Workers /\ 1 \in 1..InitWorkers
    BY <1>2 DEF Workers
  <2>2. \A w \in Workers : /\ wpc[w] = "unborn" <=> w > InitWorkers
                           /\ wpc[w] # "exited"
                           /\ w \in 1..InitWorkers <=> ~(w > InitWorkers)
    BY <1>2 DEF Workers
  <2>3. Staying = 1..InitWorkers
    BY <2>1, <2>2 DEF Staying
  <2>4. Cardinality(1..InitWorkers) = InitWorkers
    BY <1>2, FS_Interval
  <2>5. InitWorkers \in 0..MaxSpawned
    BY <1>2
  <2>6. QED
    BY <1>2, <2>1, <2>2, <2>3, <2>4, <2>5 DEF Team
<1>7. Deliveries
  BY <1>4 DEF Deliveries, Owed, Undelivered, Busy
<1>8. Ending /\ CauseIsHonest
  BY DEF Ending, CauseIsHonest
<1>9. Counting
  <2>1. Handling = {}
    BY DEF Handling
  <2>2. Cardinality(Handling) = 0
    BY <2>1, FS_EmptySet
  <2>3. QED
    BY <2>2 DEF Counting
<1>10. Reasons
  BY DEF Reasons
<1>11. QED
  BY <1>1, <1>3, <1>5, <1>6, <1>7, <1>8, <1>9, <1>10 DEF StageInv

\* Every step keeps it.
LEMMA StageInvStep ==
  ASSUME StageInv, [StageNext]_stageVars
  PROVE  StageInv'
<1>1. AdmissionInv' /\ TypeOK'
  BY AdmissionKept DEF StageInv, StageTypeOK, AdmissionInv
<1>2. StageTypeOK'
  BY <1>1, StageTypesKept DEF StageInv, Places
<1>3. SlotLedger' /\ Places'
  BY <1>2, LedgerStep DEF StageInv, LedgerInv
<1>4. NoSendOnClosedInput' /\ Team'
  BY NoSendStep, TeamStep DEF StageInv
<1>5. Deliveries'
  BY <1>2, <1>3, DeliveriesStep DEF StageInv, LedgerInv
<1>6. Counting' /\ Reasons'
  BY CountingStep, ReasonsStep DEF StageInv, LedgerInv
<1>7. Ending' /\ CauseIsHonest'
  BY EndingStep, HonestStep DEF StageInv
<1>8. QED
  BY <1>1, <1>2, <1>3, <1>4, <1>5, <1>6, <1>7 DEF StageInv

\* The invariant of the stage.
LEMMA StageInvAlways == StageSpec => []StageInv
BY StageInvInit, StageInvStep, PTL DEF StageSpec

\* Every slot of the controller is owned by exactly the Submits, the channel
\* entries and the workers that have yet to return it: no path of Submit or
\* processItem forgets a release or makes it twice (toc.go:651-657, 1436).
THEOREM StageOwnsItsSlots == StageSpec => []SlotLedger
<1>1. StageInv => SlotLedger
  BY DEF StageInv
<1>2. QED
  BY <1>1, StageInvAlways, PTL

\* The channel is never closed under a sender, whoever calls CloseInput and
\* however many Submits are on their way (trySend, CloseInput,
\* toc.go:790-823, 866-871).
THEOREM NoSendMeetsClose == StageSpec => []NoSendOnClosedInput
<1>1. StageInv => NoSendOnClosedInput
  BY DEF StageInv
<1>2. QED
  BY <1>1, StageInvAlways, PTL

\* No sequence of SetWorkers calls leaves more workers than the last one asked
\* for, or none (SetWorkers, toc.go:1266-1303).
THEOREM TeamStaysWithinTarget == StageSpec => []WorkersWithinTarget
<1>1. ASSUME StageInv PROVE WorkersWithinTarget
  <2>1. Team /\ 1 \in Workers
    BY <1>1, WorkersFinite DEF StageInv
  <2>2. ~InputClosed => 1 \in Staying
    BY <2>1 DEF Team, Staying
  <2>3. QED
    BY <2>1, <2>2 DEF Team, WorkersWithinTarget
<1>2. QED
  BY <1>1, StageInvAlways, PTL

\* Nothing is left in the channel, with a worker or undelivered when the cause
\* is latched.
LEMMA LatchedIsEmpty ==
  ASSUME StageInv, cause # "unset"
  PROVE  /\ InputClosed /\ in = <<>> /\ AtWorker = {} /\ Owed = {} /\ Handling = {}
         /\ \A w \in Workers : wpc[w] \in {"unborn", "exited"}
<1>1. \A w \in Workers : wpc[w] \in {"unborn", "exited"}
  BY DEF StageInv, Ending
<1>2. InputClosed /\ in = <<>>
  BY <1>1, WorkersFinite DEF StageInv, Team
<1>3. \A w \in Workers : wpc[w] \notin Busy
  BY <1>1 DEF Busy
<1>4. InChannel = {} /\ AtWorker = {} /\ Undelivered = {} /\ Handling = {}
  BY <1>1, <1>2, <1>3 DEF StageInv, Places, InChannel, AtWorker, Undelivered, Handling
<1>5. QED
  BY <1>1, <1>2, <1>4 DEF StageInv, Deliveries

\* Completion is complete: when the terminal cause is latched every result has
\* been delivered, every worker has left for good, and every submitted item is
\* counted as completed or cancelled (start, toc.go:494-511; Stats).
THEOREM CompletionIsComplete == StageSpec => []NothingLeftBehind
<1>1. ASSUME StageInv PROVE NothingLeftBehind
  <2>1. SUFFICES ASSUME cause # "unset" PROVE counts.submitted = counts.completed + counts.canceled
    BY <1>1, LatchedIsEmpty DEF NothingLeftBehind
  <2>2. Len(in) = 0 /\ Cardinality(Handling) = 0
    BY <1>1, <2>1, LatchedIsEmpty, FS_EmptySet
  <2>3. counts.completed \in Nat /\ counts.canceled \in Nat
    BY <1>1 DEF StageInv, StageTypeOK
  <2>4. QED
    BY <1>1, <2>2, <2>3 DEF StageInv, Counting
<1>2. QED
  BY <1>1, StageInvAlways, PTL

\* Cause never hides a failure and never invents one (Cause, toc.go:927-936).
THEOREM CauseTellsTheTruth == StageSpec => []CauseIsHonest
<1>1. StageInv => CauseIsHonest
  BY DEF StageInv
<1>2. QED
  BY <1>1, StageInvAlways, PTL

-------------------------------------------------------------------------------
(* The stage keeps its contract, and its controller implements the pool.   *)

\* How the contract sees a step of the stage.
LEMMA ItemStates ==
  ASSUME NEW j \in Items, \A i \in Items \ {j} : pc'[i] = pc[i] /\ delivered'[i] = delivered[i]
  PROVE  /\ ItemState(j)' = ItemState(j) =>
              [i \in Items |-> ItemState(i)]' = [i \in Items |-> ItemState(i)]
         /\ \A v : ItemState(j)' = v =>
              [i \in Items |-> ItemState(i)]' = [[i \in Items |-> ItemState(i)] EXCEPT ![j] = v]
<1>1. \A i \in Items \ {j} : ItemState(i)' = ItemState(i)
  BY DEF ItemState
<1>2. QED
  BY <1>1

\* The steps of a Submit are steps of the contract, or stutter.
LEMMA ContractSubmit ==
  ASSUME StageInv, NEW j \in Items, SubmitStep(j)
  PROVE  [Contract!ContractNext]_(Contract!contractVars)
<1>1. /\ pc \in [Items -> {"new", "acquire", "waiting", "send", "sending",
                           "rollback", "accepted", "refused"}]
      /\ delivered \in [Items -> Nat]
  BY DEF StageInv, StageTypeOK
<1>2. /\ UNCHANGED <<delivered, done, shut>> /\ InputClosed' = InputClosed
      /\ \A i \in Items \ {j} : pc'[i] = pc[i]
      /\ pc[j] \notin {"accepted", "refused"}
  BY <1>1 DEF SubmitStep, EnterSubmit, RefuseAtEntry, RefuseAtGate, AcquireFast, AcquireSlow,
           SeeGrant, GiveUpWaiting, StartSend, FindClosed, Send, GiveUpSend, Rollback, HandOver,
           Move, endVars, InputClosed
<1>3. delivered[j] = 0
  BY <1>2 DEF StageInv, Deliveries
<1>4. ItemState(j) = "open"
  BY <1>2, <1>3 DEF ItemState
<1>5. CASE pc'[j] = "accepted"
  <2>1. pc[j] = "sending"
    BY <1>1, <1>5 DEF SubmitStep, EnterSubmit, RefuseAtEntry, RefuseAtGate, AcquireFast,
           AcquireSlow, SeeGrant, GiveUpWaiting, StartSend, FindClosed, Send, GiveUpSend,
           Rollback, HandOver, Move
  <2>2. ~InputClosed
    BY <2>1 DEF StageInv, NoSendOnClosedInput
  <2>3. ItemState(j)' = "accepted"
    BY <1>2, <1>3, <1>5 DEF ItemState
  <2>4. Contract!Accept(j)
    BY <1>2, <1>4, <2>2, <2>3, ItemStates DEF Contract!Accept
  <2>5. QED
    BY <2>4 DEF Contract!ContractNext
<1>6. CASE pc'[j] = "refused"
  <2>1. ItemState(j)' = "refused"
    BY <1>2, <1>3, <1>6 DEF ItemState
  <2>2. Contract!Refuse(j)
    BY <1>2, <1>4, <2>1, ItemStates DEF Contract!Refuse
  <2>3. QED
    BY <2>2 DEF Contract!ContractNext
<1>7. CASE pc'[j] \notin {"accepted", "refused"}
  <2>1. ItemState(j)' = ItemState(j)
    BY <1>2, <1>3, <1>4, <1>7 DEF ItemState
  <2>2. QED
    BY <1>2, <2>1, ItemStates DEF Contract!contractVars
<1>8. QED
  BY <1>5, <1>6, <1>7

\* So are the steps of a worker.
LEMMA ContractWorker ==
  ASSUME StageInv, NEW w \in Workers, WorkerStep(w)
  PROVE  [Contract!ContractNext]_(Contract!contractVars)
<1>1. UNCHANGED <<pc, done, shut>> /\ InputClosed' = InputClosed
  BY DEF WorkerStep, Take, ExitWorker, SkipCanceled, RunFn, FnSucceeds, FnFails, ReportFailure,
         CancelStage, FailureClosed, Receive, FinishItem, endVars, submitVars, InputClosed
<1>2. CASE Receive(w)
  <2>1. /\ delivered' = [delivered EXCEPT ![job[w]] = @ + 1] /\ wpc[w] = "emit"
        /\ delivered \in [Items -> Nat]
    BY <1>2 DEF Receive, StageInv, StageTypeOK
  <2>2. w \in Undelivered /\ job[w] \in Items
    BY <2>1 DEF StageInv, StageTypeOK, Places, Undelivered, Busy
  <2>3. job[w] \in Owed
    BY <2>2 DEF StageInv, Deliveries
  <2>4. ~done
    BY <2>1 DEF StageInv, Ending
  <2>5. /\ delivered'[job[w]] = 1 /\ pc[job[w]] = "accepted" /\ delivered[job[w]] = 0
        /\ \A i \in Items \ {job[w]} : delivered'[i] = delivered[i]
    BY <2>1, <2>2, <2>3 DEF Owed
  <2>6. PICK i \in Items : i = job[w]
    BY <2>2
  <2>7. /\ delivered'[i] = 1 /\ pc[i] = "accepted" /\ delivered[i] = 0
        /\ \A k \in Items \ {i} : delivered'[k] = delivered[k]
    BY <2>5, <2>6
  <2>8. ItemState(i) = "accepted" /\ ItemState(i)' = "delivered"
    BY <2>7 DEF ItemState
  <2>9. [k \in Items |-> ItemState(k)]' = [[k \in Items |-> ItemState(k)] EXCEPT ![i] = "delivered"]
    BY <1>1, <2>7, <2>8, ItemStates
  <2>10. Contract!Deliver(i)
    BY <1>1, <2>4, <2>8, <2>9 DEF Contract!Deliver
  <2>11. QED
    BY <2>10 DEF Contract!ContractNext
<1>3. CASE ~Receive(w)
  <2>1. UNCHANGED delivered
    BY <1>3 DEF WorkerStep, Take, ExitWorker, SkipCanceled, RunFn, FnSucceeds, FnFails,
           ReportFailure, CancelStage, FailureClosed, FinishItem
  <2>2. QED
    BY <1>1, <2>1 DEF Contract!contractVars, ItemState
<1>4. QED
  BY <1>2, <1>3

\* Every step of the stage is one of the contract, or stutters.
LEMMA ContractStep ==
  ASSUME StageInv, [StageNext]_stageVars
  PROVE  [Contract!ContractNext]_(Contract!contractVars)
<1>1. ASSUME UNCHANGED <<pc, delivered>>
      PROVE  [i \in Items |-> ItemState(i)]' = [i \in Items |-> ItemState(i)]
  BY <1>1 DEF ItemState
<1>2. ASSUME UNCHANGED <<pc, delivered, done, shut>>
      PROVE  [Contract!ContractNext]_(Contract!contractVars)
  BY <1>1, <1>2 DEF Contract!contractVars, InputClosed
<1>3. CASE CloseStep
  <2>1. UNCHANGED <<pc, delivered, done>>
    BY <1>3 DEF CloseStep, BeginClose, GateClose, FlagClose, SignalClose, CloseIn, submitVars,
                endVars
  <2>2. CASE CloseIn
    BY <1>1, <2>1, <2>2 DEF CloseIn, InputClosed, Contract!Seal, Contract!ContractNext
  <2>3. CASE ~CloseIn
    BY <1>1, <1>3, <2>1, <2>3
       DEF CloseStep, BeginClose, GateClose, FlagClose, SignalClose, InputClosed,
           Contract!contractVars
  <2>4. QED
    BY <2>2, <2>3
<1>4. CASE Complete
  <2>1. /\ UNCHANGED <<pc, delivered, shut>> /\ InputClosed' = InputClosed
        /\ cause # "unset" /\ ~done /\ done' = TRUE
    BY <1>4 DEF Complete, submitVars, InputClosed
  <2>2. InputClosed /\ Owed = {}
    BY <2>1, LatchedIsEmpty
  <2>3. \A i \in Items : ItemState(i) # "accepted"
    BY <2>2 DEF ItemState, Owed, StageInv, Deliveries
  <2>4. Contract!Finish
    BY <1>1, <2>1, <2>2, <2>3 DEF Contract!Finish
  <2>5. QED
    BY <2>4 DEF Contract!ContractNext
<1>5. CASE ContextStep \/ LatchCause
  BY <1>5, <1>2 DEF ContextStep, ExpireSubmit, ParentCancel, PropagateCancel, LatchCause,
                    submitVars, endVars
<1>6. CASE ControlStep
  BY <1>6, <1>2 DEF ControlStep, SetWorkers, ActiveWorkers, ReadCeiling, SetMaxWIP, OtherControl,
                    ownVars, submitVars, endVars
<1>7. CASE UNCHANGED stageVars
  BY <1>7, <1>2 DEF stageVars, ownVars, submitVars, endVars
<1>8. QED
  BY <1>3, <1>4, <1>5, <1>6, <1>7, ContractSubmit, ContractWorker DEF StageNext

\* The stage implements its contract: one result for each accepted Submit and
\* none for a refused one, nothing accepted once the input is closed, and Out
\* closed only when nothing is owed (Submit, Out, start; toc.go:486-511,
\* 595-606, 898-901).
THEOREM StageImplementsContract == StageSpec => ImplementsContract
<1>1. StageInit => Contract!ContractInit
  BY DEF StageInit, Contract!ContractInit, ItemState, InputClosed
<1>2. QED
  BY <1>1, StageInvAlways, ContractStep, PTL
  DEF StageSpec, ImplementsContract, Contract!ContractSpec

\* The controller keeps to the pool inside a running stage too, where the
\* stage and not an arbitrary user takes and returns the slots.
THEOREM StageImplementsPool == StageSpec => ImplementsPool
<1>1. StageInit => Pool!PoolInit
  BY LimitAssumption DEF StageInit, AdmissionInit, Pool!PoolInit
<1>2. StageInv /\ [StageNext]_stageVars => [Pool!PoolNext]_(Pool!poolVars)
  BY AdmissionKept DEF StageInv, StageTypeOK
<1>3. QED
  BY <1>1, <1>2, StageInvAlways, PTL DEF StageSpec, ImplementsPool, Pool!PoolSpec
===============================================================================
