-------------------------------- MODULE Network --------------------------------
(***************************************************************************)
(* The operators of the library put together, under one context:           *)
(*                                                                         *)
(*   FromChan --s1--> \           / --t1--> Batcher         --b1--> \      *)
(*                    Merge --m--> Tee                               Join  *)
(*   Pipe     --s2--> /           \ --t2--> WeightedBatcher --b2--> /  |   *)
(*                                                                     v   *)
(*                                                                consumer *)
(*                                                                         *)
(* Errors come from the second source only: FromChan wraps values.  What   *)
(* the Pipe reads is the output of any other operator or stage.            *)
(***************************************************************************)
EXTENDS Channels, FiniteSets, SequencesExt

CONSTANTS
  Inputs,       \* pairs: values sent to FromChan, results sent to the Pipe
  BatchSize, Threshold, WeightFn, FnMayPanic,
  MayCancel

Values == DOMAIN WeightFn
Results == [ok : BOOLEAN, of : Values]

ASSUME NetworkAssumption ==
  /\ BatchSize \in Nat \ {0} /\ Threshold \in Nat \ {0}   \* else the constructors panic
  /\ WeightFn \in [Values -> Nat]
  /\ \A x \in Inputs : x[1] \in Seq(Values) /\ x[2] \in Seq(Results)
  /\ FnMayPanic \in BOOLEAN /\ MayCancel \in BOOLEAN

VARIABLES from1, from2, pipe, merge, tee, batcher, weighted, weights, join

netVars == <<ch, canceled, from1, from2, pipe, merge, tee, batcher, weighted, weights, join>>

P == INSTANCE Pipe WITH Out <- "s2", src <- from2, st <- pipe
M == INSTANCE Merge WITH Srcs <- <<"s1", "s2">>, Out <- "m", st <- merge
T == INSTANCE Tee WITH Src <- "m", Branches <- <<"t1", "t2">>, st <- tee
FullByCount(buf) == Len(buf) = BatchSize
B == INSTANCE Batcher WITH Src <- "t1", Out <- "b1", Full <- FullByCount, st <- batcher
W == INSTANCE WeightedBatcher WITH Src <- "t2", Out <- "b2", st <- weighted, wt <- weights
J == INSTANCE Join WITH Src <- [A |-> "b1", B |-> "b2"], Out <- "out", st <- join

NetInit ==
  /\ ch = [c \in {"s1", "s2", "m", "t1", "t2", "b1", "b2", "out"} |-> Fresh]
  /\ canceled = FALSE
  /\ \E x \in Inputs : from1 = x[1] /\ P!Init(x[2])
  /\ M!Init /\ T!Init /\ B!Init /\ W!WInit /\ J!Init

operators == <<merge, tee, batcher, weighted, weights, join>>

\* FromChan: no context, so it ends only if its output is drained.
FromChan ==
  /\ \/ /\ Free("s1") /\ from1 # <<>>
        /\ ch' = Put(ch, "s1", Ok(Head(from1)))
        /\ UNCHANGED from1
     \/ /\ Taken("s1")
        /\ ch' = Clear(ch, "s1")
        /\ from1' = Tail(from1)
     \/ /\ Free("s1") /\ from1 = <<>>
        /\ ch' = Close(ch, {"s1"})
        /\ UNCHANGED from1
  /\ UNCHANGED <<canceled, from2, pipe, operators>>

Consume ==
  /\ Ready("out")
  /\ ch' = Take(ch, "out")
  /\ UNCHANGED <<canceled, from1, from2, pipe, operators>>

Cancel ==
  /\ MayCancel
  /\ canceled' = TRUE
  /\ UNCHANGED <<ch, from1, from2, pipe, operators>>

notMerge == <<from1, from2, pipe, tee, batcher, weighted, weights, join>>
FeederStep == P!FeederStep /\ UNCHANGED <<from1, operators>>
PipeStageStep == P!StageStep /\ UNCHANGED <<from1, operators>>
Forward(i) == M!ForwardStep(i) /\ UNCHANGED notMerge
MergeClose == M!CloseOut /\ UNCHANGED notMerge
TeeStep == T!Next /\ UNCHANGED <<from1, from2, pipe, merge, batcher, weighted, weights, join>>
BatcherStep == B!Next /\ UNCHANGED <<from1, from2, pipe, merge, tee, weighted, weights, join>>
WeightedStep == W!WNext /\ UNCHANGED <<from1, from2, pipe, merge, tee, batcher, join>>
JoinStep == J!Next /\ UNCHANGED <<from1, from2, pipe, merge, tee, batcher, weighted, weights>>

NetNext ==
  \/ FromChan \/ Consume \/ Cancel
  \/ FeederStep \/ PipeStageStep
  \/ (\E i \in M!Sources : Forward(i)) \/ MergeClose
  \/ TeeStep \/ BatcherStep \/ WeightedStep \/ JoinStep

NetSpec == NetInit /\ [][NetNext]_netVars

\* Every goroutine runs.  The consumer reads Out or cancels: once the context
\* is done it may have stopped reading.
FairNetSpec ==
  /\ NetSpec
  /\ WF_netVars(FromChan)
  /\ WF_netVars(FeederStep) /\ WF_netVars(PipeStageStep)
  /\ WF_netVars(~canceled /\ Consume)
  /\ \A i \in M!Sources : WF_netVars(Forward(i))
  /\ WF_netVars(MergeClose)
  /\ WF_netVars(TeeStep) /\ WF_netVars(BatcherStep)
  /\ WF_netVars(WeightedStep) /\ WF_netVars(JoinStep)
--------------------------------------------------------------------------------
AllExited == P!Exited /\ M!Exited /\ T!Exited /\ B!Exited /\ W!B!Exited /\ J!Exited

\* Pipe: what was read was submitted, forwarded or dropped, and dropped only by
\* a stage that was done; the output closes when every accepted value has its
\* result on it and every forwarded error has passed (Stats, toc.go:552-553).
PipeAccount ==
  /\ P!Exited => /\ pipe.received = pipe.submitted + pipe.forwarded + pipe.dropped
                 /\ Len(Log("s2")) = pipe.submitted + pipe.forwarded
  /\ pipe.dropped > 0 => P!StageDone

\* Merge loses nothing silently and keeps the order of each source: the
\* output is put together from the sources, the n-th item it has of a source
\* being the n-th that was received from it (MergeStats and the ordering
\* note, merge.go).
CountTo(from, i, j) == Cardinality({k \in 1..j : from[k] = i})
Interleaves(from) ==
  \A j \in DOMAIN from :
    LET n == CountTo(from, from[j], j)
        source == Log(<<"s1", "s2">>[from[j]])
    IN  n <= Len(source) /\ Log("m")[j] = source[n]
MergeAccount ==
  /\ M!Exited => \A i \in M!Sources : merge.received[i] = merge.forwarded[i] + merge.dropped[i]
  /\ \E from \in [1..Len(Log("m")) -> M!Sources] :
       /\ Interleaves(from)
       /\ M!Exited => \A i \in M!Sources : CountTo(from, i, Len(Log("m"))) = merge.forwarded[i]

\* Tee: the three outcomes add up, at most one item reaches only some
\* branches, and the branches see the same sequence, the first at most one
\* item ahead (TeeStats, tee.go).
TeeAccount ==
  /\ T!Exited => /\ tee.received = tee.fully + tee.partially + tee.undelivered
                 /\ tee.branch[1] = tee.fully + tee.partially
                 /\ tee.branch[2] = tee.fully
  /\ tee.partially <= 1
  /\ IsPrefix(Log("t1"), Log("m"))
  /\ IsPrefix(Log("t2"), Log("t1")) /\ Len(Log("t1")) <= Len(Log("t2")) + 1

\* The items that a sequence of batches and errors stands for, in order.
Unbatch(log) == FlattenSeq([k \in DOMAIN log |-> IF log[k].ok THEN log[k].of ELSE <<log[k].of>>])
Items(log) == [k \in DOMAIN log |-> log[k].of]

\* A batcher sends on its source in order, without a gap, a repetition or
\* an empty batch, and accounts for every item it received (BatcherStats,
\* batcher.go; WeightedBatcherStats, weighted_batcher.go).
Batches(log, src) ==
  /\ IsPrefix(Unbatch(log), Items(src))
  /\ \A k \in DOMAIN log : log[k].ok => log[k].of # <<>>
BatchOrder == Batches(Log("b1"), Log("t1")) /\ Batches(Log("b2"), Log("t2"))
Accounts(s) == s.received = s.emitted + s.forwarded + s.dropped
BatcherAccount ==
  /\ B!Exited => Accounts(batcher)
  /\ W!B!Exited => Accounts(weighted) /\ weights.received = weights.emitted + weights.dropped

\* Join delivers at most one result, and its counters add up on both sides
\* (JoinStats, join.go:44-57).
JoinAccount ==
  /\ J!Exited => \A x \in {"A", "B"} :
                   join.received[x] = join.combined + join.discarded[x] + join.extra[x]
  /\ Len(Log("out")) <= 1
  /\ J!Exited => join.combined + join.errors = Len(Log("out"))

(* Every operator accounts for what it took, whatever the moment of the    *)
(* cancel: the counters add up, the order is kept, and nothing is repeated *)
(* or forgotten on the way (MergeStats, TeeStats, BatcherStats, JoinStats).*)
OperatorsAccount == PipeAccount /\ MergeAccount /\ TeeAccount /\ BatchOrder /\ BatcherAccount /\ JoinAccount

(* Wait reports a context error exactly if something was lost, and never   *)
(* without a cancel (Wait of Tee, Merge, Batcher, WeightedBatcher).        *)
LossIsReported ==
  /\ M!Exited => (merge.ctxErr <=> \E i \in M!Sources : merge.dropped[i] > 0)
  /\ T!Exited => (tee.ctxErr <=> T!Lost > 0)
  /\ B!Exited => (batcher.ctxErr <=> batcher.dropped > 0)
  /\ W!B!Exited => (weighted.ctxErr <=> weighted.dropped > 0)
  /\ ~canceled => ~(merge.ctxErr \/ tee.ctxErr \/ batcher.ctxErr \/ weighted.ctxErr \/ join.ctxErr)

(* Without a cancel nothing is lost: the Pipe passes on everything unless  *)
(* its fn has failed, what the batchers send on stands for all the items   *)
(* of both sources, and one result comes out of the Join ("all upstream    *)
(* errors are forwarded", toc.go:545; final flush, batcher.go; the error   *)
(* matrix, join.go).                                                       *)
UncanceledIsComplete ==
  AllExited /\ ~canceled =>
    /\ pipe.failed \/ Len(Log("s2")) = pipe.received
    /\ Len(Log("m")) = Len(Log("s1")) + Len(Log("s2"))
    /\ Unbatch(Log("b1")) = Items(Log("m")) /\ Unbatch(Log("b2")) = Items(Log("m"))
    /\ Log("m") # <<>> => Len(Log("out")) = 1

(* Every operator drains its source whatever happens downstream, so the    *)
(* whole network ends, the FromChan goroutine included, if the consumer    *)
(* reads or cancels (the source ownership rule).                           *)
NetworkEnds == <>(AllExited /\ from1 = <<>> /\ from2 = <<>>)
================================================================================
