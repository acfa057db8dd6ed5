-------------------------------- MODULE Batcher --------------------------------
(***************************************************************************)
(* Batcher.run (batcher.go): collects values until the batch is full, lets *)
(* an error flush the batch and pass, flushes what is left at the end, and *)
(* drains its source once cancelled.  "Full" is the only difference from   *)
(* the WeightedBatcher's control.                                          *)
(***************************************************************************)
EXTENDS Channels

CONSTANTS Src, Out, Full(_)

VARIABLE st

Init ==
  st = [pc |-> "recv", buf |-> <<>>, cur |-> <<>>, ctxErr |-> FALSE, received |-> 0,
        emitted |-> 0, forwarded |-> 0, dropped |-> 0, batchCount |-> 0]

\* The partial batch and "more" items besides it are lost.
Discard(s, more, to) ==
  [s EXCEPT !.pc = to, !.buf = <<>>, !.cur = <<>>, !.dropped = @ + more + Len(s.buf)]

Emitted(s) ==
  [s EXCEPT !.emitted = @ + Len(s.buf), !.batchCount = @ + 1, !.buf = <<>>]

Receive ==
  LET r == Value(Src)
      s == [st EXCEPT !.received = @ + 1]
      buf == Append(st.buf, r.of)
      taken == Take(ch, Src)
  IN  /\ st.pc = "recv" /\ Ready(Src)
      /\ \/ /\ canceled
            /\ st' = Discard(s, 1, "drain") /\ ch' = taken
         \/ /\ ~canceled /\ r.ok /\ ~Full(buf)
            /\ st' = [s EXCEPT !.buf = buf] /\ ch' = taken
         \/ /\ ~canceled /\ r.ok /\ Full(buf)
            /\ st' = [s EXCEPT !.buf = buf, !.pc = "batch"]
            /\ ch' = Put(taken, Out, Ok(buf))
         \/ /\ ~canceled /\ ~r.ok /\ st.buf # <<>>
            /\ st' = [s EXCEPT !.cur = r, !.pc = "flush"]
            /\ ch' = Put(taken, Out, Ok(st.buf))
         \/ /\ ~canceled /\ ~r.ok /\ st.buf = <<>>
            /\ st' = [s EXCEPT !.cur = r, !.pc = "error"]
            /\ ch' = Put(taken, Out, r)
      /\ UNCHANGED canceled

Sent ==
  /\ Taken(Out)
  /\ \/ st.pc = "batch" /\ st' = [Emitted(st) EXCEPT !.pc = "recv"] /\ ch' = Clear(ch, Out)
     \/ st.pc = "flush" /\ st' = [Emitted(st) EXCEPT !.pc = "error"]
                        /\ ch' = Put(Clear(ch, Out), Out, st.cur)
     \/ st.pc = "error" /\ st' = [st EXCEPT !.forwarded = @ + 1, !.cur = <<>>, !.pc = "recv"]
                        /\ ch' = Clear(ch, Out)
     \/ st.pc = "last" /\ st' = [Emitted(st) EXCEPT !.pc = "exited"]
                       /\ ch' = Close(Clear(ch, Out), {Out})
  /\ UNCHANGED canceled

\* Mutant of Interrupted: an interrupted final flush is not reported.
InterruptedSilently ==
  /\ canceled /\ ~Taken(Out)
  /\ \/ st.pc = "batch" /\ st' = Discard(st, 0, "drain") /\ ch' = Clear(ch, Out)
     \/ st.pc \in {"flush", "error"} /\ st' = Discard(st, 1, "drain") /\ ch' = Clear(ch, Out)
     \/ st.pc = "last" /\ st' = Discard(st, 0, "exited")
                       /\ ch' = Close(Clear(ch, Out), {Out})
  /\ UNCHANGED canceled

Interrupted ==
  /\ canceled /\ ~Taken(Out)
  /\ \/ st.pc = "batch" /\ st' = Discard(st, 0, "drain") /\ ch' = Clear(ch, Out)
     \/ st.pc \in {"flush", "error"} /\ st' = Discard(st, 1, "drain") /\ ch' = Clear(ch, Out)
     \/ st.pc = "last" /\ st' = [Discard(st, 0, "exited") EXCEPT !.ctxErr = TRUE]
                       /\ ch' = Close(Clear(ch, Out), {Out})
  /\ UNCHANGED canceled

Drain ==
  /\ st.pc = "drain" /\ Ready(Src)
  /\ st' = [st EXCEPT !.received = @ + 1, !.dropped = @ + 1]
  /\ ch' = Take(ch, Src)
  /\ UNCHANGED canceled

\* Mutant of SourceEnds: the partial batch is not flushed.
SourceEndsUnflushed ==
  /\ Shut(Src) /\ st.pc \in {"recv", "drain"}
  /\ st' = [st EXCEPT !.ctxErr = (st.pc = "drain"), !.pc = "exited"]
  /\ ch' = Close(ch, {Out})
  /\ UNCHANGED canceled

SourceEnds ==
  /\ Shut(Src)
  /\ \/ st.pc = "drain" /\ st' = [st EXCEPT !.ctxErr = TRUE, !.pc = "exited"]
                        /\ ch' = Close(ch, {Out})
     \/ st.pc = "recv" /\ st.buf = <<>> /\ st' = [st EXCEPT !.pc = "exited"]
                       /\ ch' = Close(ch, {Out})
     \/ st.pc = "recv" /\ st.buf # <<>> /\ st' = [st EXCEPT !.pc = "last"]
                       /\ ch' = Put(ch, Out, Ok(st.buf))
  /\ UNCHANGED canceled

Next == Receive \/ Sent \/ Interrupted \/ Drain \/ SourceEnds

Exited == st.pc = "exited"
===============================================================================
