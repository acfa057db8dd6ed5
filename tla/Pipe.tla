---------------------------------- MODULE Pipe ----------------------------------
(***************************************************************************)
(* Pipe (toc.go): a stage whose input belongs to a feeder, which reads     *)
(* results from a source, submits the values and sends the errors straight *)
(* to the output.  The stage behind it, one worker without a buffer that   *)
(* fails fast, keeps what StageContract says: one result for every item it *)
(* has accepted.                                                           *)
(***************************************************************************)
EXTENDS Channels

CONSTANT Out

VARIABLES
  src,    \* results that the source has still to send
  st      \* the feeder, the worker and the counters

Init(results) ==
  /\ src = results
  /\ st = [pc |-> "recv", cur |-> <<>>, worker |-> "idle", job |-> <<>>, failed |-> FALSE,
           received |-> 0, submitted |-> 0, forwarded |-> 0, dropped |-> 0]

\* stageCtx is done: by its parent, or because fn has failed.
StageDone == canceled \/ st.failed

Back(s) == [s EXCEPT !.pc = "recv", !.cur = <<>>]

\* A Submit that starts when the stage is done refuses without fail.
Receive ==
  /\ st.pc = "recv" /\ src # <<>>
  /\ src' = Tail(src)
  /\ LET r == Head(src)
         s == [st EXCEPT !.received = @ + 1, !.cur = r]
     IN  st' = IF ~r.ok THEN [s EXCEPT !.pc = "blocked"]
               ELSE IF StageDone THEN [Back(s) EXCEPT !.dropped = @ + 1]
               ELSE [s EXCEPT !.pc = "submit"]
  /\ UNCHANGED <<ch, canceled>>

\* A Submit under way may still succeed when the parent is cancelled, but not
\* after the failing worker has closed the input, which it does before it sends.
Accept ==
  /\ st.pc = "submit" /\ ~st.failed /\ st.worker = "idle"
  /\ st' = [Back(st) EXCEPT !.worker = "fn", !.job = st.cur, !.submitted = @ + 1]
  /\ UNCHANGED <<src, ch, canceled>>

Refuse ==
  /\ st.pc = "submit" /\ StageDone
  /\ st' = [Back(st) EXCEPT !.dropped = @ + 1]
  /\ UNCHANGED <<src, ch, canceled>>

\* Feeder and worker send on the same output; one of them is first in its queue.
OfferError ==
  /\ st.pc = "blocked" /\ Free(Out)
  /\ st' = [st EXCEPT !.pc = "send"]
  /\ ch' = Put(ch, Out, st.cur)
  /\ UNCHANGED <<src, canceled>>

ErrorSent ==
  /\ st.pc = "send" /\ Taken(Out)
  /\ st' = [Back(st) EXCEPT !.forwarded = @ + 1]
  /\ ch' = Clear(ch, Out)
  /\ UNCHANGED <<src, canceled>>

DropError ==
  /\ StageDone
  /\ \/ st.pc = "blocked" /\ UNCHANGED ch
     \/ st.pc = "send" /\ ~Taken(Out) /\ ch' = Clear(ch, Out)
  /\ st' = [Back(st) EXCEPT !.dropped = @ + 1]
  /\ UNCHANGED <<src, canceled>>

\* The source is closed: the deferred CloseInput, then wg.Done.
FeederLeaves ==
  /\ st.pc = "recv" /\ src = <<>>
  /\ st' = [st EXCEPT !.pc = "gone"]
  /\ UNCHANGED <<src, ch, canceled>>

\* The first failure of a stage that is not done ends it; an item that finds
\* it done gets an error without fn.
FnReturns ==
  /\ st.worker = "fn"
  /\ \E r \in {st.job, Err(st.job.of)} :
       st' = [st EXCEPT !.worker = "blocked", !.job = r, !.failed = @ \/ (~r.ok /\ ~StageDone)]
  /\ UNCHANGED <<src, ch, canceled>>

\* A result is sent whatever happens.
OfferResult ==
  /\ st.worker = "blocked" /\ Free(Out)
  /\ st' = [st EXCEPT !.worker = "send"]
  /\ ch' = Put(ch, Out, st.job)
  /\ UNCHANGED <<src, canceled>>

ResultSent ==
  /\ st.worker = "send" /\ Taken(Out)
  /\ st' = [st EXCEPT !.worker = "idle", !.job = <<>>]
  /\ ch' = Clear(ch, Out)
  /\ UNCHANGED <<src, canceled>>

\* Nobody is left who could send.
CloseOut ==
  /\ st.pc = "gone" /\ st.worker = "idle" /\ ~Shut(Out)
  /\ ch' = Close(ch, {Out})
  /\ UNCHANGED <<src, st, canceled>>

FeederStep == Receive \/ Accept \/ Refuse \/ OfferError \/ ErrorSent \/ DropError \/ FeederLeaves
StageStep == FnReturns \/ OfferResult \/ ResultSent \/ CloseOut

Exited == Shut(Out)
=================================================================================
