-------------------------- MODULE SupervisorProofs --------------------------
(***************************************************************************)
(* RopeSupervisor and the limits it shares, for every set of drums, any    *)
(* number of clients and all limits: at most one rope drives, the status   *)
(* is right at rest, and the stage enforces the tightest proposal.  And    *)
(* the budget, for any number of stages: its parts add up.                 *)
(***************************************************************************)
EXTENDS MCRopeSupervisor, Lemmas

(* The supervisor.  What the worker knows about the rope it holds depends  *)
(* on where it is in reconcile: from the moment it has stopped a rope to   *)
(* the moment it has started the next one it holds none.                   *)

RopeStates == {"unused", "running", "closing", "closed", "exited"}
HoldsNone == {"recheck", "resolve", "backoff", "reread", "start", "done"}
WorkerAt == HoldsNone \cup {"select", "read", "stopping", "finalStop"}

SupervisorTypeOK ==
  /\ pc \in WorkerAt
  /\ active \in Ropes \cup {NoRope}
  /\ rope \in [Ropes -> [st : RopeStates, drum : Drums \cup {NoDrum}, canceled : BOOLEAN]]

Drives(r) == rope[r].st = "running" /\ ~rope[r].canceled

\* Every rope that is not told to stop is the one the worker holds, and it holds
\* none, or one that it has canceled, while it replaces it.
OnlyActiveDrives ==
  /\ \A r \in Ropes : Drives(r) => r = active
  /\ pc \in HoldsNone => active = NoRope
  /\ pc \in {"stopping", "finalStop"} => active # NoRope /\ rope[active].canceled

\* The published status, where reconcile may return or has not looked yet.
StatusKept ==
  pc \in {"select", "read", "done"} =>
    status = (IF active = NoRope THEN NoDrum ELSE rope[active].drum)

SupervisorInv ==
  /\ SupervisorTypeOK /\ OnlyActiveDrives /\ StatusKept
  /\ pc = "start" \/ pc = "backoff" \/ pc = "reread" => d \in Drums

\* The absence of a rope is no rope.
LEMMA NoRopeIsNone == NoRope \notin Ropes
BY SupervisorAssumption DEF NoRope, Ropes

\* The invariant of the supervisor holds at first.
LEMMA SupervisorInvInit == SupervisorInit => SupervisorInv
BY NoRopeIsNone
DEF SupervisorInit, SupervisorInv, SupervisorTypeOK, OnlyActiveDrives, StatusKept,
    Drives, RopeStates, HoldsNone, WorkerAt

\* A rope that leaves its loop or closes its handle changes its place only, and
\* never starts to drive.
LEMMA RopesKeepSupervisor ==
  ASSUME SupervisorInv, NEW r \in Ropes, RopeStep(r)
  PROVE  SupervisorInv'
<1>1. UNCHANGED <<pc, d, active, status>>
  BY DEF RopeStep, Adjust, LeaveLoop, CloseCount, CloseWeight, Watch, ropeFrame, workerVars
<1>2. \/ rope' = rope
      \/ \E s \in {"closing", "closed", "exited"} : rope' = [rope EXCEPT ![r].st = s]
  BY DEF RopeStep, Adjust, LeaveLoop, CloseCount, CloseWeight, Watch
<1>3. CASE rope' = rope
  BY <1>1, <1>3 DEF SupervisorInv, SupervisorTypeOK, OnlyActiveDrives, StatusKept, Drives
<1>4. CASE \E s \in {"closing", "closed", "exited"} : rope' = [rope EXCEPT ![r].st = s]
  <2>1. PICK s \in {"closing", "closed", "exited"} : rope' = [rope EXCEPT ![r].st = s]
    BY <1>4
  <2>2. SupervisorTypeOK'
    BY <1>1, <2>1 DEF SupervisorInv, SupervisorTypeOK, RopeStates
  <2>3. \A x \in Ropes : /\ rope'[x].drum = rope[x].drum
                         /\ rope'[x].canceled = rope[x].canceled
                         /\ rope'[x].st = "running" => rope[x].st = "running"
    BY <2>1 DEF SupervisorInv, SupervisorTypeOK
  <2>4. OnlyActiveDrives'
    BY <1>1, <2>3 DEF SupervisorInv, SupervisorTypeOK, OnlyActiveDrives, Drives
  <2>5. StatusKept'
    BY <1>1, <2>3 DEF SupervisorInv, SupervisorTypeOK, StatusKept
  <2>6. QED
    BY <1>1, <2>2, <2>4, <2>5 DEF SupervisorInv
<1>5. QED
  BY <1>2, <1>3, <1>4

\* Where the worker tells a rope to stop.
LEMMA CancelKeepsSupervisor ==
  ASSUME SupervisorInv, active # NoRope, Cancel(active),
         pc' \in {"stopping", "finalStop"}, UNCHANGED <<active, status>>
  PROVE  SupervisorInv'
<1>1. active \in Ropes /\ rope' = [rope EXCEPT ![active].canceled = TRUE]
  BY DEF SupervisorInv, SupervisorTypeOK, Cancel
<1>2. SupervisorTypeOK'
  BY <1>1 DEF SupervisorInv, SupervisorTypeOK, WorkerAt
<1>3. /\ rope'[active].canceled
      /\ \A x \in Ropes : /\ rope'[x].st = rope[x].st
                          /\ rope[x].canceled => rope'[x].canceled
  BY <1>1 DEF SupervisorInv, SupervisorTypeOK
<1>4. OnlyActiveDrives'
  BY <1>1, <1>3 DEF SupervisorInv, OnlyActiveDrives, Drives, HoldsNone
<1>5. QED
  BY <1>2, <1>4 DEF SupervisorInv, StatusKept

\* The worker's steps that leave the ropes alone.
LEMMA ReconcileKeepsSupervisor ==
  ASSUME SupervisorInv, UNCHANGED rope,
         Refresh \/ ReadDesired \/ StopSeen \/ StopWaited \/ Recheck
           \/ Resolve \/ BackoffOver \/ Reread
  PROVE  SupervisorInv'
<1>. USE DEF SupervisorInv, SupervisorTypeOK, OnlyActiveDrives, StatusKept, Drives,
             HoldsNone, WorkerAt
<1>1. CASE Refresh
  BY <1>1 DEF Refresh, Exited
<1>2. CASE ReadDesired
  BY <1>2 DEF ReadDesired, Cancel
<1>3. CASE StopSeen
  BY <1>3 DEF StopSeen, Cancel
<1>4. CASE StopWaited
  BY <1>4 DEF StopWaited
<1>5. CASE Recheck
  BY <1>5 DEF Recheck, GiveWay
<1>6. CASE Resolve
  BY <1>6 DEF Resolve
<1>7. CASE BackoffOver
  BY <1>7 DEF BackoffOver
<1>8. CASE Reread
  BY <1>8 DEF Reread, GiveWay
<1>9. QED
  BY <1>1, <1>2, <1>3, <1>4, <1>5, <1>6, <1>7, <1>8

\* Start: an error is published, or the new rope is the one the worker holds.
LEMMA StartKeepsSupervisor ==
  ASSUME SupervisorInv, StartRope
  PROVE  SupervisorInv'
<1>. USE DEF SupervisorInv, SupervisorTypeOK, OnlyActiveDrives, StatusKept, Drives,
             HoldsNone, WorkerAt
<1>1. pc = "start" /\ pc' = "select" /\ d' = d /\ active = NoRope /\ d \in Drums
  BY DEF StartRope
<1>2. CASE status' = NoDrum /\ UNCHANGED <<active, rope>>
  BY <1>1, <1>2
<1>3. ASSUME NEW r \in Ropes,
             rope' = [rope EXCEPT ![r].st = "running", ![r].drum = d],
             active' = r, status' = d
      PROVE  SupervisorInv'
  <2>. DEFINE mid == [rope EXCEPT ![r].st = "running"]
              Rope == [st : RopeStates, drum : Drums \cup {NoDrum}, canceled : BOOLEAN]
  <2>1. mid \in [Ropes -> Rope] /\ \A x \in Ropes : x # r => mid[x] = rope[x]
    BY DEF RopeStates
  <2>2. rope' = [mid EXCEPT ![r].drum = d]
    BY <1>3
  <2>. HIDE DEF mid
  <2>3. /\ rope' \in [Ropes -> Rope] /\ rope'[r].drum = d
        /\ \A x \in Ropes : x # r => rope'[x] = rope[x]
    BY <1>1, <2>1, <2>2
  <2>4. SupervisorTypeOK' /\ OnlyActiveDrives'
    <3>1. SupervisorTypeOK'
      BY <1>1, <1>3, <2>3
    <3>2. \A x \in Ropes : Drives(x)' => x = r
      BY <1>1, <2>3, NoRopeIsNone
    <3>3. QED
      BY <1>1, <1>3, <3>1, <3>2
  <2>5. StatusKept'
    BY <1>3, <2>3, NoRopeIsNone
  <2>6. QED
    BY <1>1, <2>4, <2>5
<1>4. QED
  BY <1>2, <1>3 DEF StartRope

\* The steps of reconcile keep it.
LEMMA WorkerKeepsSupervisor ==
  ASSUME SupervisorInv, WorkerStep
  PROVE  SupervisorInv'
<1>1. CASE StartRope
  BY <1>1, StartKeepsSupervisor
<1>2. CASE UNCHANGED rope
  BY <1>1, <1>2, ReconcileKeepsSupervisor DEF WorkerStep
<1>3. CASE ReadDesired /\ rope' # rope
  <2>1. /\ active # NoRope /\ Cancel(active) /\ pc' = "stopping"
        /\ UNCHANGED <<active, status>>
    BY <1>3 DEF ReadDesired
  <2>2. QED
    BY <2>1, CancelKeepsSupervisor
<1>4. CASE StopSeen /\ rope' # rope
  <2>1. /\ active # NoRope /\ Cancel(active) /\ pc' = "finalStop"
        /\ UNCHANGED <<active, status>>
    BY <1>4 DEF StopSeen
  <2>2. QED
    BY <2>1, CancelKeepsSupervisor
<1>5. ASSUME rope' # rope
      PROVE  StartRope \/ ReadDesired \/ StopSeen
  BY <1>5 DEF WorkerStep, Refresh, StopWaited, Recheck, Resolve, BackoffOver, Reread, GiveWay
<1>6. QED
  BY <1>1, <1>2, <1>3, <1>4, <1>5

\* Every step keeps it.
LEMMA SupervisorInvStep ==
  ASSUME SupervisorInv, [SupervisorNext]_ropeSystemVars
  PROVE  SupervisorInv'
<1>1. CASE UNCHANGED <<pc, d, active, status, rope>>
  BY <1>1 DEF SupervisorInv, SupervisorTypeOK, OnlyActiveDrives, StatusKept, Drives
<1>2. ASSUME NEW c \in Clients, Publish(c) \/ Wake(c)
      PROVE  UNCHANGED <<pc, d, active, status, rope>>
  BY <1>2 DEF Publish, Wake, workerVars
<1>3. Stop => UNCHANGED <<pc, d, active, status, rope>>
  BY DEF Stop, workerVars
<1>4. ControllerStep \/ UNCHANGED ropeSystemVars => UNCHANGED <<pc, d, active, status, rope>>
  BY DEF ControllerStep, ropeSystemVars, supervisorVars
<1>5. QED
  BY <1>1, <1>2, <1>3, <1>4, RopesKeepSupervisor, WorkerKeepsSupervisor DEF SupervisorNext

\* The invariant of the supervisor is one.
LEMMA SupervisorInvAlways == SupervisorSpec => []SupervisorInv
<1>1. SupervisorInv /\ [SupervisorNext]_ropeSystemVars => SupervisorInv'
  BY SupervisorInvStep
<1>2. QED
  BY <1>1, SupervisorInvInit, PTL DEF SupervisorSpec

(* However wishes, crashes and waits that time out interleave, at most one *)
(* rope is not told to stop, and none once the worker is gone              *)
(* (rope_supervisor.go:241, 322).                                          *)
THEOREM SupervisorDrivesOneRope == SupervisorSpec => []OneDrivingRope
<1>1. SupervisorInv => OneDrivingRope
  <2> SUFFICES ASSUME SupervisorInv PROVE OneDrivingRope
    OBVIOUS
  <2>. DEFINE driving == {r \in Ropes : rope[r].st = "running" /\ ~rope[r].canceled}
  <2>1. driving \subseteq {active} /\ (active = NoRope => driving = {})
    BY NoRopeIsNone DEF SupervisorInv, OnlyActiveDrives, Drives
  <2>2. Cardinality(driving) <= 1
    <3>1. IsFiniteSet({active}) /\ Cardinality({active}) = 1
      BY FS_Singleton
    <3>2. QED
      BY <2>1, <3>1, FS_Subset
  <2>3. pc = "done" => driving = {}
    BY <2>1 DEF SupervisorInv, OnlyActiveDrives, HoldsNone
  <2>4. QED
    BY <2>2, <2>3 DEF OneDrivingRope
<1>2. QED
  BY <1>1, SupervisorInvAlways, PTL

(* At rest the status names the drum of the rope that the worker holds,    *)
(* whatever failed or timed out on the way there (rope_supervisor.go:241). *)
THEOREM StatusIsTrueAtRest == SupervisorSpec => []StatusAtRest
<1>1. SupervisorInv => StatusAtRest
  BY DEF SupervisorInv, StatusKept, StatusAtRest
<1>2. QED
  BY <1>1, SupervisorInvAlways, PTL
-----------------------------------------------------------------------------
(* The limits.  Ropes, the memory limiter and handles propose under three  *)
(* source names; the limiter's proposal stays in once it has a reading.    *)

SourceNames == {"rope", "memory-limiter", "custom"}
ProposalMap(p) == \E S \in SUBSET SourceNames : p \in [S -> Int]

LimitsTypeOK ==
  /\ DOMAIN proposals = Dims /\ proposals = [dim \in Dims |-> proposals[dim]]
  /\ \A dim \in Dims : ProposalMap(proposals[dim])
  /\ DOMAIN stageLimit = Dims /\ stageLimit = [dim \in Dims |-> stageLimit[dim]]
  /\ lastProposed \in Int /\ reading \in Int

\* The limiter proposes at most what its last reading allows, and withdraws never.
ReadingProposed ==
  reading # MaxInt =>
    /\ "memory-limiter" \in DOMAIN proposals["weight"]
    /\ proposals["weight"]["memory-limiter"] = lastProposed
    /\ lastProposed <= reading /\ lastProposed < MaxInt

LimitsInv == LimitsTypeOK /\ TightestApplied /\ ReadingProposed

\* What the constants of the limits are.
LEMMA LimitConstants ==
  /\ MaxInt \in Nat /\ Ceiling \in Nat
  /\ \A dim \in Dims : Baseline[dim] \in Nat /\ Floor[dim] \in {0, 1}
  /\ Floor["count"] = 1 /\ Floor["weight"] = 0
  /\ Baseline["count"] = Baseline.count /\ Baseline["weight"] = Baseline.weight
BY BaselineAssumption DEF Dims, Floor

\* The proposals of a kind are finitely many numbers.
LEMMA CandidatesAreFinite ==
  ASSUME NEW dim \in Dims, NEW p, ProposalMap(p)
  PROVE  /\ IsFiniteSet(Candidates(dim, p))
         /\ \A v \in Candidates(dim, p) : v \in Int
<1>1. PICK S \in SUBSET SourceNames : p \in [S -> Int]
  BY DEF ProposalMap
<1>2. IsFiniteSet(SourceNames)
  <2>1. IsFiniteSet({"rope"})
    BY FS_Singleton
  <2>2. IsFiniteSet({"rope"} \cup {"memory-limiter"})
    BY <2>1, FS_AddElement
  <2>3. IsFiniteSet(({"rope"} \cup {"memory-limiter"}) \cup {"custom"})
    BY <2>2, FS_AddElement
  <2>4. SourceNames = ({"rope"} \cup {"memory-limiter"}) \cup {"custom"}
    BY DEF SourceNames
  <2>5. QED
    BY <2>3, <2>4
<1>3. IsFiniteSet(S)
  BY <1>2, FS_Subset
<1>4. IsFiniteSet(Range(p))
  <2>1. p \in Surjection(S, Range(p))
    BY <1>1 DEF Range, Surjection
  <2>2. QED
    BY <1>3, <2>1, FS_Surjection
<1>. DEFINE low == {v \in Range(p) : v < MaxInt}
            own == IF Baseline[dim] > 0 THEN {Baseline[dim]} ELSE {}
<1>5. IsFiniteSet(low) /\ IsFiniteSet(own)
  <2>1. IsFiniteSet(low)
    BY <1>4, FS_Subset
  <2>2. IsFiniteSet(own)
    BY FS_EmptySet, FS_Singleton
  <2>3. QED
    BY <2>1, <2>2
<1>6. IsFiniteSet(low \cup own)
  <2>. HIDE DEF low, own
  <2>. QED
    BY <1>5, FS_Union
<1>7. IsFiniteSet(Candidates(dim, p))
  BY <1>6 DEF Candidates
<1>8. \A v \in Candidates(dim, p) : v \in Int
  BY <1>1, LimitConstants DEF Candidates, Range
<1>9. QED
  BY <1>7, <1>8

\* A proposal that is made leaves the proposals a map.
LEMMA WithIsMap ==
  ASSUME NEW p, ProposalMap(p), NEW s \in SourceNames, NEW v \in Int
  PROVE  /\ ProposalMap(With(p, s, v))
         /\ DOMAIN With(p, s, v) = DOMAIN p \cup {s}
         /\ With(p, s, v)[s] = v
         /\ \A x \in DOMAIN p : x # s => With(p, s, v)[x] = p[x]
<1>1. PICK S \in SUBSET SourceNames : p \in [S -> Int]
  BY DEF ProposalMap
<1>2. With(p, s, v) \in [S \cup {s} -> Int] /\ S \cup {s} \in SUBSET SourceNames
  BY <1>1 DEF With
<1>3. ProposalMap(With(p, s, v))
  BY <1>2 DEF ProposalMap
<1>4. QED
  BY <1>1, <1>3 DEF With

\* So does one that is withdrawn.
LEMMA WithoutIsMap ==
  ASSUME NEW p, ProposalMap(p), NEW s
  PROVE  /\ ProposalMap(Without(p, s))
         /\ DOMAIN Without(p, s) = DOMAIN p \ {s}
         /\ \A x \in DOMAIN p \ {s} : Without(p, s)[x] = p[x]
BY DEF ProposalMap, Without, Restrict

\* A proposal is applied with the minimum it changes.
LEMMA ProposeApplies ==
  ASSUME LimitsTypeOK, TightestApplied, NEW dim \in Dims, NEW s \in SourceNames,
         NEW v \in Int, Propose(dim, s, v), lastProposed' \in Int, reading' \in Int
  PROVE  /\ LimitsTypeOK' /\ TightestApplied'
         /\ proposals' = [proposals EXCEPT ![dim] = With(proposals[dim], s, v)]
<1>. DEFINE p == With(proposals[dim], s, v)
            l == Set(dim, Effective(dim, p))
<1>1. proposals' = [proposals EXCEPT ![dim] = p] /\ stageLimit' = [stageLimit EXCEPT ![dim] = l]
  BY DEF Propose
<1>2. ProposalMap(p)
  BY WithIsMap DEF LimitsTypeOK
<1>. HIDE DEF p
<1>3. Candidates(dim, p) # {} => l = Set(dim, Max({Floor[dim], Min(Candidates(dim, p))}))
  BY DEF Effective
<1>. HIDE DEF l
<1>4. /\ proposals'[dim] = p /\ stageLimit'[dim] = l
      /\ \A o \in Dims \ {dim} : /\ proposals'[o] = proposals[o]
                                 /\ stageLimit'[o] = stageLimit[o]
  BY <1>1 DEF LimitsTypeOK
<1>5. LimitsTypeOK'
  BY <1>1, <1>2, <1>4 DEF LimitsTypeOK
<1>6. TightestApplied'
  <2> SUFFICES ASSUME NEW o \in Dims, Candidates(o, proposals'[o]) # {}
               PROVE  stageLimit'[o] = Set(o, Max({Floor[o], Min(Candidates(o, proposals'[o]))}))
    BY DEF TightestApplied, Candidates, Set
  <2>1. CASE o = dim
    BY <1>3, <1>4, <2>1
  <2>2. CASE o # dim
    BY <1>4, <2>2 DEF TightestApplied
  <2>3. QED
    BY <2>1, <2>2
<1>7. QED
  BY <1>1, <1>5, <1>6 DEF p

\* So is a withdrawal, unless nothing positive is left: then the limit in force
\* was zero and stays zero.
LEMMA WithdrawApplies ==
  ASSUME LimitsTypeOK, TightestApplied, NEW dim \in Dims, NEW s,
         Withdraw(dim, s), UNCHANGED <<lastProposed, reading>>
  PROVE  /\ LimitsTypeOK' /\ TightestApplied'
         /\ proposals' = [proposals EXCEPT ![dim] = Without(proposals[dim], s)]
<1>. DEFINE p == Without(proposals[dim], s)
            eff == Effective(dim, p)
            l == IF eff > 0 THEN Set(dim, eff) ELSE stageLimit[dim]
            live == Candidates(dim, p)
            old == Candidates(dim, proposals[dim])
<1>1. /\ proposals' = [proposals EXCEPT ![dim] = p]
      /\ stageLimit' = [stageLimit EXCEPT ![dim] = l]
  BY DEF Withdraw, LimitsTypeOK
<1>2. ProposalMap(p) /\ ProposalMap(proposals[dim])
  BY WithoutIsMap DEF LimitsTypeOK
<1>3. live \subseteq old
  <2>1. /\ DOMAIN p = DOMAIN proposals[dim] \ {s}
        /\ \A x \in DOMAIN p : p[x] = proposals[dim][x]
    BY <1>2, WithoutIsMap
  <2>. HIDE DEF p
  <2>2. Range(p) \subseteq Range(proposals[dim])
    BY <2>1 DEF Range
  <2>3. QED
    BY <2>2 DEF Candidates
<1>4. ASSUME live # {}
      PROVE  l = Set(dim, Max({Floor[dim], Min(live)}))
  <2>1. eff = Max({Floor[dim], Min(live)})
    BY <1>4 DEF Effective
  <2>2. /\ Min(live) \in live /\ Min(old) \in old /\ Min(old) <= Min(live)
        /\ Min(live) \in Int /\ Min(old) \in Int
    <3>1. /\ IsFiniteSet(live) /\ IsFiniteSet(old) /\ old # {}
          /\ \A v \in live : v \in Int
          /\ \A v \in old : v \in Int
      BY <1>2, <1>3, <1>4, CandidatesAreFinite
    <3>. HIDE DEF live, old
    <3>2. Min(live) \in live
      BY <1>4, <3>1, MinIsLeast
    <3>3. Min(old) \in old /\ \A v \in old : Min(old) <= v
      BY <3>1, MinIsLeast
    <3>4. QED
      BY <1>3, <3>1, <3>2, <3>3
  <2>. DEFINE m == Min(live)
              n == Min(old)
  <2>3. CASE eff > 0
    BY <2>1, <2>3
  <2>4. CASE ~(eff > 0)
    <3>1. Floor[dim] \in Int
      BY LimitConstants
    <3>2. /\ Max({Floor[dim], m}) = (IF Floor[dim] <= m THEN m ELSE Floor[dim])
          /\ Max({Floor[dim], n}) = (IF Floor[dim] <= n THEN n ELSE Floor[dim])
      <4>. HIDE DEF live, old
      <4>. QED
        BY <2>2, <3>1, MaxOfTwo
    <3>3. dim = "weight" /\ Floor[dim] = 0
      <4>1. dim \in {"count", "weight"}
        BY DEF Dims
      <4>2. CASE dim = "count"
        <5>1. Floor[dim] = 1
          BY <4>2, LimitConstants
        <5>. HIDE DEF m, eff
        <5>2. m \in Int
          BY <2>2 DEF m
        <5>3. eff >= 1
          BY <2>1, <3>2, <5>1, <5>2 DEF m
        <5>4. QED
          BY <2>4, <5>3, <2>1, <3>2, <5>1, <5>2 DEF m
      <4>3. QED
        BY <4>1, <4>2, LimitConstants
    <3>4. m <= 0 /\ n <= 0 /\ Max({Floor[dim], m}) = 0 /\ Max({Floor[dim], n}) = 0
      <4>. HIDE DEF live, old, eff
      <4>. QED
        BY <2>1, <2>2, <2>4, <3>2, <3>3
    <3>5. stageLimit[dim] = Set(dim, Max({Floor[dim], n}))
      BY <2>2 DEF TightestApplied
    <3>6. QED
      BY <2>4, <3>4, <3>5
  <2>5. QED
    BY <2>3, <2>4
<1>. HIDE DEF p, l, live, eff
<1>5. /\ proposals'[dim] = p /\ stageLimit'[dim] = l
      /\ \A o \in Dims \ {dim} : /\ proposals'[o] = proposals[o]
                                 /\ stageLimit'[o] = stageLimit[o]
  BY <1>1 DEF LimitsTypeOK
<1>6. LimitsTypeOK'
  BY <1>1, <1>2, <1>5 DEF LimitsTypeOK
<1>7. TightestApplied'
  <2> SUFFICES ASSUME NEW o \in Dims, Candidates(o, proposals'[o]) # {}
               PROVE  stageLimit'[o] = Set(o, Max({Floor[o], Min(Candidates(o, proposals'[o]))}))
    BY DEF TightestApplied, Candidates, Set
  <2>1. CASE o = dim
    BY <1>4, <1>5, <2>1 DEF live
  <2>2. CASE o # dim
    BY <1>5, <2>2 DEF TightestApplied
  <2>3. QED
    BY <2>1, <2>2
<1>8. QED
  BY <1>1, <1>6, <1>7 DEF p

\* The invariant of the limits holds at first.
LEMMA LimitsInvInit == LimitsInit => LimitsInv
<1> SUFFICES ASSUME LimitsInit PROVE LimitsInv
  OBVIOUS
<1>. DEFINE none == [s \in {} |-> 0]
<1>1. /\ proposals = [dim \in Dims |-> none]
      /\ stageLimit = [count |-> Baseline.count,
                       weight |-> IF Baseline.weight > 0 THEN Baseline.weight ELSE Unlimited]
      /\ lastProposed = MaxInt /\ reading = MaxInt
  BY DEF LimitsInit
<1>2. ProposalMap(none)
  <2>1. {} \in SUBSET SourceNames /\ none \in [{} -> Int]
    OBVIOUS
  <2>2. QED
    BY <2>1 DEF ProposalMap
<1>3. \A dim \in Dims : Candidates(dim, none)
                          = IF Baseline[dim] > 0 THEN {Baseline[dim]} ELSE {}
  BY DEF Candidates, Range
<1>. HIDE DEF none
<1>4. LimitsTypeOK
  BY <1>1, <1>2, LimitConstants DEF LimitsTypeOK, Dims
<1>5. TightestApplied
  <2> SUFFICES ASSUME NEW dim \in Dims, Candidates(dim, none) # {}
               PROVE  stageLimit[dim] = Set(dim, Max({Floor[dim], Min(Candidates(dim, none))}))
    BY <1>1 DEF TightestApplied
  <2>. DEFINE b == Baseline[dim]
  <2>1. b > 0 /\ Candidates(dim, none) = {b} /\ b \in Nat /\ Floor[dim] \in {0, 1}
    BY <1>3, LimitConstants
  <2>. HIDE DEF b
  <2>2. Min({b}) = b
    BY <2>1 DEF Min
  <2>3. Max({Floor[dim], b}) = b
    BY <2>1, MaxOfTwo
  <2>4. stageLimit[dim] = Set(dim, b)
    <3>1. CASE dim = "count"
      <4>1. stageLimit[dim] = b /\ b \in 1..Ceiling
        BY <1>1, <3>1, LimitConstants, BaselineAssumption DEF b
      <4>2. b \in Int /\ Ceiling \in Int /\ 1 <= b /\ b <= Ceiling
        BY <2>1, <4>1, LimitConstants
      <4>3. Min({b, Ceiling}) = b
        BY <4>2, MaxOfTwo
      <4>4. Max({1, b}) = b
        BY <4>2, MaxOfTwo
      <4>5. QED
        BY <3>1, <4>1, <4>3, <4>4 DEF Set
    <3>2. CASE dim = "weight"
      <4>1. Baseline.weight > 0
        BY <2>1, <3>2, LimitConstants DEF b
      <4>2. stageLimit[dim] = b
        BY <1>1, <3>2, <4>1, LimitConstants DEF b
      <4>3. QED
        BY <3>2, <4>2 DEF Set
    <3>3. QED
      BY <3>1, <3>2 DEF Dims
  <2>5. QED
    BY <2>1, <2>2, <2>3, <2>4
<1>6. QED
  BY <1>1, <1>4, <1>5 DEF LimitsInv, ReadingProposed

\* The damped target never exceeds the target (relaxRate, memory_limiter.go).
LEMMA DampedIsBelow ==
  ASSUME lastProposed \in Int, NEW t \in Int
  PROVE  Damped(t) \in Int /\ Damped(t) <= t
<1>1. CASE lastProposed = MaxInt \/ t <= lastProposed
  BY <1>1 DEF Damped
<1>2. CASE ~(lastProposed = MaxInt \/ t <= lastProposed)
  <2>. DEFINE gap == t - lastProposed
  <2>1. gap \in Nat /\ gap >= 1
    BY <1>2
  <2>2. \A n \in Nat : n >= 1 => (n + 1) \div 2 \in Int /\ (n + 1) \div 2 <= n
    OBVIOUS
  <2>3. Half(gap) \in Int /\ Half(gap) <= gap
    BY <2>1, <2>2 DEF Half
  <2>4. Damped(t) = lastProposed + Half(gap)
    BY <1>2 DEF Damped
  <2>5. lastProposed + gap = t
    OBVIOUS
  <2>. HIDE DEF gap
  <2>6. QED
    BY <2>1, <2>3, <2>4, <2>5
<1>3. QED
  BY <1>1, <1>2

\* Proposals and withdrawals of others leave the limiter's proposal alone.
LEMMA OthersKeepReading ==
  ASSUME LimitsInv, UNCHANGED <<lastProposed, reading>>, NEW dim \in Dims,
         NEW s \in {"rope", "custom"},
         (\E v \in Int : Propose(dim, s, v)) \/ Withdraw(dim, s)
  PROVE  LimitsInv'
<1>1. LimitsTypeOK /\ TightestApplied /\ ReadingProposed
  BY DEF LimitsInv
<1>2. lastProposed' \in Int /\ reading' \in Int
  BY <1>1 DEF LimitsTypeOK
<1>. DEFINE p == proposals[dim]
            q == proposals'[dim]
<1>3. /\ LimitsTypeOK' /\ TightestApplied' /\ ProposalMap(p)
      /\ \A o \in Dims \ {dim} : proposals'[o] = proposals[o]
      /\ \A x \in DOMAIN p \ {s} : x \in DOMAIN q /\ q[x] = p[x]
  <2>0. s \in SourceNames /\ ProposalMap(p) /\ DOMAIN proposals = Dims
    BY <1>1 DEF SourceNames, LimitsTypeOK
  <2>1. ASSUME NEW v \in Int, Propose(dim, s, v)
        PROVE  /\ LimitsTypeOK' /\ TightestApplied'
               /\ proposals' = [proposals EXCEPT ![dim] = With(p, s, v)]
    BY <1>1, <1>2, <2>0, <2>1, ProposeApplies
  <2>2. ASSUME Withdraw(dim, s)
        PROVE  /\ LimitsTypeOK' /\ TightestApplied'
               /\ proposals' = [proposals EXCEPT ![dim] = Without(p, s)]
    BY <1>1, <2>2, WithdrawApplies
  <2>3. CASE Withdraw(dim, s)
    <3>1. q = Without(p, s) /\ \A o \in Dims \ {dim} : proposals'[o] = proposals[o]
      BY <1>1, <2>2, <2>3 DEF LimitsTypeOK
    <3>. HIDE DEF p, q
    <3>2. /\ DOMAIN q = DOMAIN p \ {s}
          /\ \A x \in DOMAIN p \ {s} : q[x] = p[x]
      BY <2>0, <3>1, WithoutIsMap
    <3>3. LimitsTypeOK' /\ TightestApplied'
      BY <2>2, <2>3
    <3>4. QED
      BY <2>0, <3>1, <3>2, <3>3
  <2>4. CASE \E v \in Int : Propose(dim, s, v)
    <3>1. PICK v \in Int : Propose(dim, s, v)
      BY <2>4
    <3>2. q = With(p, s, v) /\ \A o \in Dims \ {dim} : proposals'[o] = proposals[o]
      BY <1>1, <2>1, <3>1 DEF LimitsTypeOK
    <3>3. LimitsTypeOK' /\ TightestApplied'
      BY <2>1, <3>1
    <3>. HIDE DEF p, q
    <3>4. /\ DOMAIN q = DOMAIN p \cup {s}
          /\ \A x \in DOMAIN p : x # s => q[x] = p[x]
      BY <2>0, <3>2, WithIsMap
    <3>5. QED
      BY <2>0, <3>2, <3>3, <3>4
  <2>5. QED
    BY <2>3, <2>4
<1>4. ReadingProposed'
  <2>1. CASE dim = "weight"
    <3>1. s # "memory-limiter"
      OBVIOUS
    <3>2. "memory-limiter" \in DOMAIN p =>
            "memory-limiter" \in DOMAIN q /\ q["memory-limiter"] = p["memory-limiter"]
      BY <1>3, <3>1
    <3>3. QED
      BY <1>1, <2>1, <3>2 DEF ReadingProposed
  <2>2. CASE dim # "weight"
    <3>1. proposals'["weight"] = proposals["weight"]
      BY <1>3, <2>2 DEF Dims
    <3>2. QED
      BY <1>1, <3>1 DEF ReadingProposed
  <2>3. QED
    BY <2>1, <2>2
<1>5. QED
  BY <1>3, <1>4 DEF LimitsInv

\* The callback of the memory limiter keeps it.
LEMMA MemoryCallbackKeepsLimits ==
  ASSUME LimitsInv, NEW t \in HeadBudgets, MemoryCallback(t)
  PROVE  LimitsInv'
<1>1. LimitsTypeOK /\ TightestApplied
  BY DEF LimitsInv
<1>2. t \in Int /\ t < MaxInt
  BY LimitArgsAssumption
<1>. DEFINE v == Damped(t)
<1>3. v \in Int /\ v <= t
  BY <1>1, <1>2, DampedIsBelow DEF LimitsTypeOK
<1>4. lastProposed' = v /\ reading' = t /\ Propose("weight", "memory-limiter", v)
  BY DEF MemoryCallback
<1>. HIDE DEF v
<1>5. "weight" \in Dims /\ "memory-limiter" \in SourceNames
  BY DEF Dims, SourceNames
<1>6. /\ LimitsTypeOK' /\ TightestApplied'
      /\ proposals' = [proposals EXCEPT !["weight"]
                         = With(proposals["weight"], "memory-limiter", v)]
  BY <1>1, <1>2, <1>3, <1>4, <1>5, ProposeApplies
<1>7. proposals'["weight"] = With(proposals["weight"], "memory-limiter", v)
  BY <1>1, <1>5, <1>6 DEF LimitsTypeOK
<1>8. /\ "memory-limiter" \in DOMAIN proposals'["weight"]
      /\ proposals'["weight"]["memory-limiter"] = v
  <2>. DEFINE p == proposals["weight"]
  <2>1. ProposalMap(p)
    BY <1>1, <1>5 DEF LimitsTypeOK
  <2>2. proposals'["weight"] = With(p, "memory-limiter", v)
    BY <1>7
  <2>. HIDE DEF p
  <2>3. /\ DOMAIN With(p, "memory-limiter", v) = DOMAIN p \cup {"memory-limiter"}
        /\ With(p, "memory-limiter", v)["memory-limiter"] = v
    BY <1>3, <1>5, <2>1, WithIsMap
  <2>4. QED
    BY <2>2, <2>3
<1>9. v < MaxInt
  BY <1>2, <1>3, LimitConstants
<1>10. QED
  BY <1>3, <1>4, <1>6, <1>8, <1>9 DEF LimitsInv, ReadingProposed

\* Every step keeps it.
LEMMA LimitsInvStep ==
  ASSUME LimitsInv, [SupervisorNext]_ropeSystemVars
  PROVE  LimitsInv'
<1>1. "count" \in Dims /\ "weight" \in Dims /\ RopeDim \in Dims
  BY DEF Dims, RopeDim
<1>2. CASE UNCHANGED limitVars
  BY <1>2
  DEF limitVars, LimitsInv, LimitsTypeOK, TightestApplied, ReadingProposed, Candidates, Set, ProposalMap
<1>3. ASSUME NEW r \in Ropes, RopeStep(r)
      PROVE  LimitsInv'
  <2>1. UNCHANGED <<lastProposed, reading>>
    BY <1>3 DEF RopeStep, Adjust, LeaveLoop, CloseCount, CloseWeight, Watch, ropeFrame
  <2>2. CASE Adjust(r)
    <3>1. \E v \in Int : Propose(RopeDim, "rope", v)
      BY <2>2, SupervisorAssumption, LimitConstants DEF Adjust
    <3>2. QED
      BY <1>1, <2>1, <3>1, OthersKeepReading
  <2>3. CASE CloseCount(r) \/ CloseWeight(r)
    <3>1. \E dim \in Dims : Withdraw(dim, "rope")
      BY <1>1, <2>3 DEF CloseCount, CloseWeight
    <3>2. QED
      BY <2>1, <3>1, OthersKeepReading
  <2>4. CASE LeaveLoop(r) \/ Watch(r)
    BY <1>2, <2>1, <2>4 DEF LeaveLoop, Watch, limitVars
  <2>5. QED
    BY <1>3, <2>2, <2>3, <2>4 DEF RopeStep
<1>4. CASE ControllerStep
  <2>1. ASSUME NEW v \in CustomLimits, CustomPropose(v)
        PROVE  LimitsInv'
    <3>1. v \in Int
      BY LimitArgsAssumption
    <3>2. QED
      BY <1>1, <2>1, <3>1, OthersKeepReading DEF CustomPropose
  <2>2. CASE CustomWithdraw
    BY <1>1, <2>2, OthersKeepReading DEF CustomWithdraw
  <2>3. QED
    BY <1>4, <2>1, <2>2, MemoryCallbackKeepsLimits DEF ControllerStep, LimitsStep
<1>5. WorkerStep \/ Stop => UNCHANGED limitVars
  BY DEF WorkerStep, Refresh, ReadDesired, StopSeen, StopWaited, Recheck, Resolve,
         BackoffOver, Reread, GiveWay, StartRope, workerFrame, Stop
<1>6. ASSUME NEW c \in Clients, Publish(c) \/ Wake(c)
      PROVE  UNCHANGED limitVars
  BY <1>6 DEF Publish, Wake
<1>7. QED
  BY <1>2, <1>3, <1>4, <1>5, <1>6 DEF SupervisorNext, ropeSystemVars

\* The invariant of the limits is one.
LEMMA LimitsInvAlways == SupervisorSpec => []LimitsInv
<1>1. SupervisorInit => LimitsInv
  BY LimitsInvInit DEF SupervisorInit
<1>2. LimitsInv /\ [SupervisorNext]_ropeSystemVars => LimitsInv'
  BY LimitsInvStep
<1>3. QED
  BY <1>1, <1>2, PTL DEF SupervisorSpec

(* Whatever proposes, withdraws or closes a handle, and in whatever order, *)
(* the stage enforces the minimum of the live proposals and the baseline   *)
(* (limit_manager.go:51).                                                  *)
THEOREM LimitsAreTight == SupervisorSpec => []TightestApplied
<1>1. LimitsInv => TightestApplied
  BY DEF LimitsInv
<1>2. QED
  BY <1>1, LimitsInvAlways, PTL

(* Whoever else proposes or withdraws, the stage admits no more weight     *)
(* than the last headroom reading allows (memory_limiter.go:155).          *)
THEOREM MemoryPressureHolds == SupervisorSpec => []PressureHolds
<1>1. LimitsInv => PressureHolds
  <2> SUFFICES ASSUME LimitsInv, reading # MaxInt
               PROVE  stageLimit["weight"] \in 0..Max({0, reading})
    BY DEF PressureHolds
  <2>. DEFINE p == proposals["weight"]
              live == Candidates("weight", p)
              m == Min(live)
  <2>1. "weight" \in Dims /\ ProposalMap(p) /\ reading \in Int /\ lastProposed \in Int
    BY DEF LimitsInv, LimitsTypeOK, Dims
  <2>2. lastProposed \in live
    BY DEF LimitsInv, ReadingProposed, Candidates, Range
  <2>3. stageLimit["weight"] = Set("weight", Max({Floor["weight"], m}))
    BY <2>1, <2>2 DEF LimitsInv, TightestApplied
  <2>4. IsFiniteSet(live) /\ \A v \in live : v \in Int
    BY <2>1, CandidatesAreFinite
  <2>. HIDE DEF live
  <2>5. m \in live /\ m <= lastProposed
    BY <2>2, <2>4, MinIsLeast
  <2>6. m \in Int /\ m <= reading
    <3>1. m \in Int
      BY <2>4, <2>5
    <3>2. lastProposed <= reading
      BY DEF LimitsInv, ReadingProposed
    <3>. HIDE DEF m
    <3>3. QED
      BY <2>1, <2>5, <3>1, <3>2
  <2>. HIDE DEF m
  <2>7. /\ Max({0, m}) = (IF 0 <= m THEN m ELSE 0)
        /\ Max({0, reading}) = (IF 0 <= reading THEN reading ELSE 0)
    BY <2>1, <2>6, MaxOfTwo
  <2>8. stageLimit["weight"] = Max({0, m})
    BY <2>3, LimitConstants DEF Set
  <2>9. QED
    BY <2>1, <2>6, <2>7, <2>8
<1>2. QED
  BY <1>1, LimitsInvAlways, PTL
-----------------------------------------------------------------------------
(* Ropes share one source name: a rope that leaves withdraws the proposal  *)
(* of its successor, and a rope left behind may propose over it.  All the  *)
(* same none survives the ropes: there is a proposal named rope only while *)
(* some rope has not yet closed that dimension of its handle.              *)

StillOpen(dim) == {"running", "closing"} \cup (IF dim = "weight" THEN {"closed"} ELSE {})
RopeProposalsOwned ==
  \A dim \in Dims : "rope" \in DOMAIN proposals[dim] =>
    \E r \in Ropes : rope[r].st \in StillOpen(dim)

\* The steps of a rope propose nothing for another.
LEMMA RopeStepsKeepOwners ==
  ASSUME SupervisorInv, LimitsInv, RopeProposalsOwned, NEW r \in Ropes, RopeStep(r)
  PROVE  RopeProposalsOwned'
<1>1. /\ DOMAIN proposals = Dims /\ DOMAIN rope = Ropes
      /\ \A dim \in Dims : ProposalMap(proposals[dim])
      /\ \A x \in Ropes : DOMAIN rope[x] = {"st", "drum", "canceled"}
  BY DEF SupervisorInv, SupervisorTypeOK, LimitsInv, LimitsTypeOK
<1>2. CASE Adjust(r)
  BY <1>2, <1>1 DEF Adjust, RopeProposalsOwned, StillOpen, Propose
<1>3. CASE Watch(r)
  BY <1>3 DEF Watch, RopeProposalsOwned
<1>4. ASSUME NEW s, rope' = [rope EXCEPT ![r].st = s],
             NEW dim \in Dims, s \in StillOpen(dim) \/ rope[r].st \notin StillOpen(dim),
             \E x \in Ropes : rope[x].st \in StillOpen(dim)
      PROVE  \E x \in Ropes : rope'[x].st \in StillOpen(dim)
  <2>1. rope'[r].st = s /\ \A x \in Ropes : x # r => rope'[x] = rope[x]
    BY <1>1, <1>4
  <2>2. QED
    BY <1>4, <2>1
<1>5. CASE LeaveLoop(r)
  <2>1. rope' = [rope EXCEPT ![r].st = "closing"] /\ proposals' = proposals
    BY <1>5 DEF LeaveLoop
  <2>2. \A dim \in Dims : "closing" \in StillOpen(dim)
    BY DEF StillOpen
  <2>3. QED
    BY <1>4, <2>1, <2>2 DEF RopeProposalsOwned
<1>6. ASSUME NEW dim \in Dims, Withdraw(dim, "rope")
      PROVE  /\ "rope" \notin DOMAIN proposals'[dim]
             /\ \A o \in Dims \ {dim} : proposals'[o] = proposals[o]
  <2>1. proposals' = [proposals EXCEPT ![dim] = Without(proposals[dim], "rope")]
    BY <1>6 DEF Withdraw
  <2>2. DOMAIN Without(proposals[dim], "rope") = DOMAIN proposals[dim] \ {"rope"}
    BY <1>1, WithoutIsMap
  <2>3. QED
    BY <1>1, <2>1, <2>2
<1>7. CASE CloseCount(r)
  <2>1. /\ rope[r].st = "closing" /\ Withdraw("count", "rope")
        /\ rope' = [rope EXCEPT ![r].st = "closed"]
    BY <1>7 DEF CloseCount
  <2>2. "closed" \in StillOpen("weight") /\ "count" \in Dims /\ "weight" \in Dims
    BY DEF StillOpen, Dims
  <2>3. /\ "rope" \notin DOMAIN proposals'["count"]
        /\ proposals'["weight"] = proposals["weight"]
    BY <1>6, <2>1, <2>2
  <2>4. "rope" \in DOMAIN proposals'["weight"]
          => \E x \in Ropes : rope'[x].st \in StillOpen("weight")
    BY <1>4, <2>1, <2>2, <2>3 DEF RopeProposalsOwned
  <2>5. QED
    BY <2>3, <2>4 DEF RopeProposalsOwned, Dims, StillOpen
<1>8. CASE CloseWeight(r)
  <2>1. /\ rope[r].st = "closed" /\ Withdraw("weight", "rope")
        /\ rope' = [rope EXCEPT ![r].st = "exited"]
    BY <1>8 DEF CloseWeight
  <2>2. "closed" \notin StillOpen("count") /\ "count" \in Dims /\ "weight" \in Dims
    BY DEF StillOpen, Dims
  <2>3. /\ "rope" \notin DOMAIN proposals'["weight"]
        /\ proposals'["count"] = proposals["count"]
    BY <1>6, <2>1, <2>2
  <2>4. "rope" \in DOMAIN proposals'["count"]
          => \E x \in Ropes : rope'[x].st \in StillOpen("count")
    BY <1>4, <2>1, <2>2, <2>3 DEF RopeProposalsOwned
  <2>5. QED
    BY <2>3, <2>4 DEF RopeProposalsOwned, Dims, StillOpen
<1>9. QED
  BY <1>2, <1>3, <1>5, <1>7, <1>8 DEF RopeStep

\* Every step keeps the proposals with ropes that live.
LEMMA OwnersStep ==
  ASSUME SupervisorInv, LimitsInv, RopeProposalsOwned, [SupervisorNext]_ropeSystemVars
  PROVE  RopeProposalsOwned'
<1>1. DOMAIN rope = Ropes /\ DOMAIN proposals = Dims
  BY DEF SupervisorInv, SupervisorTypeOK, LimitsInv, LimitsTypeOK
<1>2. ASSUME \A dim \in Dims : "rope" \in DOMAIN proposals'[dim] => "rope" \in DOMAIN proposals[dim],
             \A r \in Ropes, dim \in Dims :
               rope[r].st \in StillOpen(dim) => rope'[r].st \in StillOpen(dim)
      PROVE  RopeProposalsOwned'
  BY <1>2 DEF RopeProposalsOwned, StillOpen
<1>3. CASE UNCHANGED <<proposals, rope>>
  BY <1>2, <1>3
<1>4. ASSUME NEW c \in Clients, Publish(c) \/ Wake(c)
      PROVE  UNCHANGED <<proposals, rope>>
  BY <1>4 DEF Publish, Wake, limitVars
<1>5. Stop \/ UNCHANGED ropeSystemVars => UNCHANGED <<proposals, rope>>
  BY DEF Stop, ropeSystemVars, supervisorVars, limitVars
<1>6. CASE ControllerStep
  <2>1. rope' = rope
    BY <1>6 DEF ControllerStep, supervisorVars
  <2>2. \E s \in {"memory-limiter", "custom"} :
          (\E v : Propose("weight", s, v)) \/ Withdraw("weight", s)
    BY <1>6 DEF ControllerStep, LimitsStep, MemoryCallback, CustomPropose, CustomWithdraw
  <2>3. \A dim \in Dims : "rope" \in DOMAIN proposals'[dim] => "rope" \in DOMAIN proposals[dim]
    <3>1. PICK s \in {"memory-limiter", "custom"} :
            (\E v : Propose("weight", s, v)) \/ Withdraw("weight", s)
      BY <2>2
    <3>2. \E p : /\ proposals' = [proposals EXCEPT !["weight"] = p]
                 /\ "rope" \in DOMAIN p => "rope" \in DOMAIN proposals["weight"]
      <4>1. ASSUME NEW v, Propose("weight", s, v)
            PROVE  /\ proposals' = [proposals EXCEPT !["weight"]
                                       = With(proposals["weight"], s, v)]
                   /\ DOMAIN With(proposals["weight"], s, v)
                        = DOMAIN proposals["weight"] \cup {s}
        BY <4>1 DEF Propose, With
      <4>2. ASSUME Withdraw("weight", s)
            PROVE  /\ proposals' = [proposals EXCEPT !["weight"]
                                       = Without(proposals["weight"], s)]
                   /\ DOMAIN Without(proposals["weight"], s)
                        \subseteq DOMAIN proposals["weight"]
        BY <4>2 DEF Withdraw, Without, Restrict
      <4>3. QED
        BY <3>1, <4>1, <4>2
    <3>3. QED
      BY <1>1, <3>2
  <2>4. QED
    BY <1>2, <2>1, <2>3
<1>7. CASE WorkerStep
  <2>1. proposals' = proposals
    BY <1>7 DEF WorkerStep, Refresh, ReadDesired, StopSeen, StopWaited, Recheck, Resolve,
                BackoffOver, Reread, GiveWay, StartRope, workerFrame, limitVars
  <2>2. \A r \in Ropes : rope'[r].st = rope[r].st \/ rope'[r].st = "running"
    <3>1. CASE StartRope
      BY <1>1, <3>1 DEF StartRope, SupervisorInv, SupervisorTypeOK
    <3>2. CASE ~StartRope
      <4>1. rope' = rope \/ Cancel(active)
        BY <1>7, <3>2 DEF WorkerStep, Refresh, ReadDesired, StopSeen, StopWaited, Recheck,
                          Resolve, BackoffOver, Reread, GiveWay
      <4>2. QED
        BY <1>1, <4>1 DEF Cancel, SupervisorInv, SupervisorTypeOK
    <3>3. QED
      BY <3>1, <3>2
  <2>3. QED
    BY <1>2, <2>1, <2>2 DEF StillOpen
<1>8. QED
  BY <1>3, <1>4, <1>5, <1>6, <1>7, RopeStepsKeepOwners DEF SupervisorNext

(* A limit that a rope has proposed does not outlive the ropes: once every *)
(* rope has exited, also one that was left behind when the wait for it     *)
(* timed out, none is left in either dimension (limit_manager.go, Close).  *)
THEOREM NoProposalOutlivesRopes ==
  SupervisorSpec =>
    []((\A r \in Ropes : rope[r].st \in {"unused", "exited"})
         => \A dim \in Dims : "rope" \notin DOMAIN proposals[dim])
<1>. DEFINE Inv == SupervisorInv /\ LimitsInv /\ RopeProposalsOwned
<1>1. SupervisorInit => Inv
  <2>1. SupervisorInit => RopeProposalsOwned
    BY DEF SupervisorInit, LimitsInit, RopeProposalsOwned
  <2>2. QED
    BY <2>1, SupervisorInvInit, LimitsInvInit DEF SupervisorInit
<1>2. Inv /\ [SupervisorNext]_ropeSystemVars => Inv'
  BY SupervisorInvStep, LimitsInvStep, OwnersStep
<1>3. Inv => ((\A r \in Ropes : rope[r].st \in {"unused", "exited"})
                => \A dim \in Dims : "rope" \notin DOMAIN proposals[dim])
  BY DEF RopeProposalsOwned, StillOpen
<1>4. QED
  BY <1>1, <1>2, <1>3, PTL DEF SupervisorSpec
------------------------------------------------------------------------------
(* The budget.  A division rounds down, and by less than the divisor.      *)
LEMMA DivisionFloors ==
  ASSUME NEW x \in Int, NEW y \in Nat \ {0}
  PROVE  /\ x \div y \in Int
         /\ y * (x \div y) <= x /\ x < y * (x \div y) + y
OBVIOUS

\* The total is never negative.
LEMMA TotalBudgetIsNat ==
  ASSUME NEW headroom \in Int, NEW fraction \in Int \X (Nat \ {0})
  PROVE  TotalBudget(headroom, fraction) \in Nat
<1>1. (headroom * fraction[1]) \div fraction[2] \in Int
  BY DivisionFloors
<1>2. QED
  BY <1>1 DEF TotalBudget

\* A constraint's part of a / c and n - 1 equal parts of the rest.
LEMMA PartsFit ==
  ASSUME NEW budget \in Nat, NEW a \in Int, NEW c \in Nat \ {0}, NEW n \in Nat, n >= 2
  PROVE  LET part == (budget * a) \div c
             rest == (budget * (c - a)) \div (c * (n - 1))
         IN  /\ part \in Int /\ rest \in Int
             /\ part + (n - 1) * rest <= budget
             /\ part + (n - 1) * rest > budget - n
<1>. DEFINE part == (budget * a) \div c
            m == n - 1
            rest == (budget * (c - a)) \div (c * m)
<1>1. m \in Nat \ {0} /\ budget * a \in Int /\ budget * (c - a) \in Int
  OBVIOUS
<1>2. c * m \in Nat \ {0}
  BY <1>1
<1>. HIDE DEF m
<1>3. part \in Int /\ c * part <= budget * a /\ budget * a < c * part + c
  BY <1>1, DivisionFloors
<1>4. rest \in Int /\ (c * m) * rest <= budget * (c - a) /\ budget * (c - a) < (c * m) * rest + c * m
  BY <1>1, <1>2, DivisionFloors
<1>. HIDE DEF part, rest
<1>5. budget * a + budget * (c - a) = c * budget
  OBVIOUS
<1>6. (c * m) * rest = c * (m * rest) /\ m * rest \in Int
  BY <1>1, <1>4
<1>. DEFINE given == part + m * rest
<1>7. given \in Int /\ c * given = c * part + c * (m * rest)
  BY <1>3, <1>6
<1>8. c * given <= c * budget
  BY <1>3, <1>4, <1>5, <1>6, <1>7
<1>9. c * budget < c * given + (c * m + c)
  BY <1>3, <1>4, <1>5, <1>6, <1>7, <1>1
<1>10. c * given + (c * m + c) = c * (given + n)
  BY <1>7, <1>1 DEF m
<1>. HIDE DEF given
<1>11. given <= budget
  BY <1>7, <1>8
<1>12. budget < given + n
  BY <1>7, <1>9, <1>10
<1>13. QED
  BY <1>3, <1>4, <1>7, <1>11, <1>12 DEF given, part, rest, m

\* The sum of n numbers, all of them the same or all but one.
LEMMA SumOfSame ==
  ASSUME NEW n \in Nat \ {0}, NEW f, NEW b \in Int, \A i \in 1..n : f[i] = b
  PROVE  SumOf(f, 1..n) = n * b
<1>1. PICK S : S = 1..n
  OBVIOUS
<1>2. IsFiniteSet(S) /\ Cardinality(S) = n
  BY <1>1, FS_Interval
<1>3. SumOf(f, S) = Cardinality(S) * b
  BY <1>1, <1>2, SumConstant
<1>4. QED
  BY <1>1, <1>2, <1>3

LEMMA SumOfAllButOne ==
  ASSUME NEW n \in Nat \ {0}, NEW f, NEW k \in 1..n, NEW a \in Int, NEW b \in Int,
         f[k] = a, \A i \in (1..n) \ {k} : f[i] = b
  PROVE  SumOf(f, 1..n) = a + (n - 1) * b
<1>1. PICK S, R : S = 1..n /\ R = S \ {k}
  OBVIOUS
<1>2. IsFiniteSet(S) /\ Cardinality(S) = n
  BY <1>1, FS_Interval
<1>3. IsFiniteSet(R) /\ Cardinality(R) = n - 1
  BY <1>1, <1>2, FS_RemoveElement, ZenonT(40)
<1>4. SumOf(f, R) = Cardinality(R) * b
  <2>1. \A x \in R : f[x] = b
    BY <1>1
  <2>2. QED
    BY <1>3, <2>1, SumConstant
<1>5. SumOf(f, S) = f[k] + SumOf(f, R)
  BY <1>1, <1>2, SumTakeOut
<1>6. QED
  BY <1>1, <1>3, <1>4, <1>5

\* So the shares of a drum and of the others fit.
LEMMA SumFits ==
  ASSUME NEW n \in Nat, n >= 2, NEW k \in 1..n, NEW budget \in Nat, NEW f,
         NEW part \in Int, NEW rest \in Int, part + (n - 1) * rest \in (budget - n + 1)..budget,
         f[k] = part, \A i \in (1..n) \ {k} : f[i] = rest
  PROVE  SumOf(f, 1..n) <= budget /\ SumOf(f, 1..n) > budget - n
<1>1. n \in Nat \ {0}
  OBVIOUS
<1>2. SumOf(f, 1..n) = part + (n - 1) * rest
  BY <1>1, SumOfAllButOne, SMT
<1>3. QED
  BY <1>2

LEMMA SharesFit ==
  ASSUME NEW n \in Nat, n >= 2, NEW k \in 1..n, NEW budget \in Nat, NEW a \in Int, NEW c \in Nat \ {0}, NEW f,
         f[k] = (budget * a) \div c,
         \A i \in (1..n) \ {k} : f[i] = (budget * (c - a)) \div (c * (n - 1))
  PROVE  SumOf(f, 1..n) <= budget /\ SumOf(f, 1..n) > budget - n
<1>1. /\ (budget * a) \div c \in Int
      /\ (budget * (c - a)) \div (c * (n - 1)) \in Int
      /\ (budget * a) \div c + (n - 1) * ((budget * (c - a)) \div (c * (n - 1))) <= budget
      /\ (budget * a) \div c + (n - 1) * ((budget * (c - a)) \div (c * (n - 1))) > budget - n
  BY PartsFit
<1>2. PICK part \in Int, rest \in Int :
        /\ part = (budget * a) \div c
        /\ rest = (budget * (c - a)) \div (c * (n - 1))
        /\ part + (n - 1) * rest \in Int
        /\ part + (n - 1) * rest <= budget
        /\ part + (n - 1) * rest > budget - n
  BY <1>1
<1>3. part + (n - 1) * rest \in (budget - n + 1)..budget
  BY <1>2
<1>4. f[k] = part /\ \A i \in (1..n) \ {k} : f[i] = rest
  BY <1>2, Zenon
<1>5. QED
  BY <1>3, <1>4, SumFits, Zenon

(* However many stages there are, whatever the headroom, the fraction and  *)
(* the constraint's share: what one callback allows the stages is together *)
(* no more than the budget, and falls short of it by less than one unit    *)
(* per stage, if the drum is one of the stages or there is none            *)
(* (budget_allocator.go:70-124).                                           *)
THEOREM AllocationsAlwaysFit ==
  ASSUME NEW Stages, NEW names \in Seq(Stages), names # <<>>, IsInjective(names),
         NEW drum \in {NoDrumName} \cup ToSet(names),
         NEW fraction \in Int \X (Nat \ {0}), NEW share \in Int \X (Nat \ {0}), NEW headroom \in Int
  PROVE  AllocationsFit(names, drum, fraction, share, headroom)
<1>. DEFINE n == Len(names)
            budget == TotalBudget(headroom, fraction)
            shares == ComputeShares(names, drum, share)
            each == Allocations(names, drum, fraction, share, headroom)
<1>1. n \in Nat \ {0} /\ DOMAIN names = 1..n /\ IsFiniteSet(1..n) /\ Cardinality(1..n) = n
  <2>1. n \in Nat \ {0} /\ DOMAIN names = 1..n
    OBVIOUS
  <2>. HIDE DEF n
  <2>2. IsFiniteSet(1..n) /\ Cardinality(1..n) = n
    BY <2>1, FS_Interval
  <2>3. QED
    BY <2>1, <2>2
<1>. HIDE DEF n
<1>2. budget \in Nat
  BY TotalBudgetIsNat
<1>3. each = [i \in 1..n |-> (budget * shares[i][1]) \div shares[i][2]]
  BY <1>1, Zenon DEF Allocations
<1>4. AllocationsFit(names, drum, fraction, share, headroom) <=>
        SumOf(each, 1..n) <= budget /\ SumOf(each, 1..n) > budget - n
  BY <1>1, Zenon DEF AllocationsFit, SumOf, n
<1>5. CASE drum = NoDrumName \/ n = 1
  <2>1. \A i \in 1..n : shares[i] = <<1, n>>
    BY <1>1, <1>5 DEF ComputeShares, n
  <2>. HIDE DEF budget, shares, each
  <2>2. PICK q : q = (budget * 1) \div n
    OBVIOUS
  <2>3. q \in Int /\ n * q <= budget /\ budget < n * q + n
    BY <1>1, <1>2, <2>2, DivisionFloors
  <2>4. \A i \in 1..n : each[i] = q
    BY <1>3, <2>1, <2>2
  <2>5. SumOf(each, 1..n) = n * q
    BY <1>1, <2>3, <2>4, SumOfSame
  <2>6. QED
    BY <1>1, <1>2, <1>4, <2>3, <2>5
<1>6. CASE drum # NoDrumName /\ n # 1
  <2>1. PICK k \in 1..n : names[k] = drum
    BY <1>1, <1>6 DEF ToSet
  <2>2. \A i \in 1..n : names[i] = drum <=> i = k
    BY <1>1, <2>1 DEF IsInjective
  <2>3. \A i \in 1..n : shares[i] = IF i = k THEN share ELSE <<share[2] - share[1], share[2] * (n - 1)>>
    BY <1>1, <1>6, <2>2 DEF ComputeShares, n
  <2>. HIDE DEF budget, shares, each
  <2>4. share[1] \in Int /\ share[2] \in Nat \ {0} /\ n \in Nat /\ n >= 2
    BY <1>1, <1>6
  <2>5. /\ each[k] = (budget * share[1]) \div share[2]
        /\ \A i \in (1..n) \ {k} : each[i] = (budget * (share[2] - share[1])) \div (share[2] * (n - 1))
    BY <1>3, <2>1, <2>3
  <2>6. SumOf(each, 1..n) <= budget /\ SumOf(each, 1..n) > budget - n
    BY <1>2, <2>1, <2>4, <2>5, SharesFit
  <2>7. QED
    BY <1>4, <2>6
<1>7. QED
  BY <1>5, <1>6
(* So the parts of a budget add up in every case that the run enumerates.  *)
THEOREM BudgetHolds == BudgetIsNotExceeded
<1>1. SUFFICES ASSUME NEW n \in 1..4, NEW h \in 0..13, NEW share \in 0..4,
                      NEW fraction \in {<<1, 1>>, <<2, 3>>},
                      NEW drum \in {NoDrumName} \cup {Names[i] : i \in 1..n}
               PROVE  AllocationsFit(SubSeq(Names, 1, n), drum, fraction, <<share, 4>>, h)
  BY Zenon DEF BudgetIsNotExceeded
<1>. DEFINE names == SubSeq(Names, 1, n)
            Stages == {"s1", "s2", "s3", "s4"}
<1>2. /\ Names \in Seq(Stages) /\ Len(Names) = 4
      /\ \A i \in 1..4 : Names[i] \in Stages
      /\ \A i, j \in 1..4 : i # j => Names[i] # Names[j]
  BY DEF Names
<1>. HIDE DEF Names
<1>. HIDE DEF Stages
<1>3. /\ names \in Seq(Stages) /\ Len(names) = n /\ DOMAIN names = 1..n
      /\ \A i \in 1..n : names[i] = Names[i]
  <2>1. \A i \in 1..n : Names[i] \in Stages
    BY <1>2
  <2>2. 1 \in Int /\ n \in Int /\ n <= Len(Names)
    BY <1>2
  <2>3. QED
    BY <1>2, <2>1, <2>2, SubSeqProperties
<1>. HIDE DEF names
<1>4. names # <<>> /\ IsInjective(names)
  BY <1>2, <1>3 DEF IsInjective
<1>5. drum \in {NoDrumName} \cup ToSet(names)
  BY <1>3 DEF ToSet
<1>6. fraction \in Int \X (Nat \ {0}) /\ <<share, 4>> \in Int \X (Nat \ {0}) /\ h \in Int
  OBVIOUS
<1>7. AllocationsFit(names, drum, fraction, <<share, 4>>, h)
  BY <1>3, <1>4, <1>5, <1>6, AllocationsAlwaysFit
<1>8. QED
  BY <1>7 DEF names
=============================================================================
