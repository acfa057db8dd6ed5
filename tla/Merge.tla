--------------------------------- MODULE Merge ---------------------------------
(***************************************************************************)
(* Merge (merge.go): one forwarding goroutine per source, all sending on   *)
(* the same output, and a goroutine that closes it when they are gone.     *)
(***************************************************************************)
EXTENDS Channels

CONSTANTS Srcs, Out    \* the sequence of sources and the output

VARIABLE st

Sources == 1..Len(Srcs)

Init ==
  st = [pc |-> [i \in Sources |-> "recv"], cur |-> [i \in Sources |-> <<>>],
        ctxErr |-> FALSE, closed |-> FALSE, received |-> [i \in Sources |-> 0],
        forwarded |-> [i \in Sources |-> 0], dropped |-> [i \in Sources |-> 0]]

\* noteCancel, one dropped item, then drainDiscard.
Discard(s, i) ==
  [s EXCEPT !.pc[i] = "drain", !.cur[i] = <<>>, !.ctxErr = TRUE, !.dropped[i] = @ + 1]

Receive(i) ==
  LET s == [st EXCEPT !.received[i] = @ + 1]
  IN  /\ st.pc[i] = "recv" /\ Ready(Srcs[i])
      /\ st' = IF canceled THEN Discard(s, i)
               ELSE [s EXCEPT !.pc[i] = "blocked", !.cur[i] = Value(Srcs[i])]
      /\ ch' = Take(ch, Srcs[i])
      /\ UNCHANGED canceled

\* One of the senders blocked on the output is the first in its queue.
Offer(i) ==
  /\ st.pc[i] = "blocked" /\ Free(Out)
  /\ st' = [st EXCEPT !.pc[i] = "send"]
  /\ ch' = Put(ch, Out, st.cur[i])
  /\ UNCHANGED canceled

Sent(i) ==
  /\ st.pc[i] = "send" /\ Taken(Out)
  /\ st' = [st EXCEPT !.pc[i] = "recv", !.cur[i] = <<>>, !.forwarded[i] = @ + 1]
  /\ ch' = Clear(ch, Out)
  /\ UNCHANGED canceled

Interrupted(i) ==
  /\ canceled
  /\ \/ st.pc[i] = "blocked" /\ UNCHANGED ch
     \/ st.pc[i] = "send" /\ ~Taken(Out) /\ ch' = Clear(ch, Out)
  /\ st' = Discard(st, i)
  /\ UNCHANGED canceled

Drain(i) ==
  /\ st.pc[i] = "drain" /\ Ready(Srcs[i])
  /\ st' = [st EXCEPT !.received[i] = @ + 1, !.dropped[i] = @ + 1]
  /\ ch' = Take(ch, Srcs[i])
  /\ UNCHANGED canceled

\* Mutant of Leave: a forwarder that was cancelled leaves its source undrained.
LeaveAtOnce(i) ==
  /\ st.pc[i] = "drain" \/ (st.pc[i] = "recv" /\ Shut(Srcs[i]))
  /\ st' = [st EXCEPT !.pc[i] = "gone"]
  /\ UNCHANGED <<ch, canceled>>

Leave(i) ==
  /\ st.pc[i] \in {"recv", "drain"} /\ Shut(Srcs[i])
  /\ st' = [st EXCEPT !.pc[i] = "gone"]
  /\ UNCHANGED <<ch, canceled>>

CloseOut ==
  /\ ~st.closed
  /\ \A i \in Sources : st.pc[i] = "gone"
  /\ st' = [st EXCEPT !.closed = TRUE]
  /\ ch' = Close(ch, {Out})
  /\ UNCHANGED canceled

ForwardStep(i) ==
  Receive(i) \/ Offer(i) \/ Sent(i) \/ Interrupted(i) \/ Drain(i) \/ Leave(i)

Exited == st.closed
===============================================================================
