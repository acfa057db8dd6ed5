---------------------------------- MODULE Join ----------------------------------
(***************************************************************************)
(* The goroutine of NewJoin (join.go): takes one result from each of two   *)
(* sources, emits their combination or an error, and drains both.          *)
(***************************************************************************)
EXTENDS Channels

CONSTANTS Src, Out,      \* Src: the channel of each side
          FnMayPanic
Sides == {"A", "B"}

VARIABLE st

Zero == [x \in Sides |-> 0]

Init ==
  st = [pc |-> "collect", side |-> [x \in Sides |-> "open"],
        first |-> [x \in Sides |-> Ok(<<>>)], ctxErr |-> FALSE,
        received |-> Zero, discarded |-> Zero, extra |-> Zero,
        combined |-> 0, errors |-> 0]

HasItem(x) == st.side[x] \in {"gotFirst", "closed"}
Resolved(x) == st.side[x] \in {"closedEmpty", "closed"}
Have == {x \in Sides : HasItem(x)}

\* Phase 1 ends when neither side can change the outcome.
Decided == \A x \in Sides : HasItem(x) \/ st.side[x] = "closedEmpty"

\* Every first item held counts as discarded.
DiscardFirsts(s) == [s EXCEPT !.discarded = [x \in Sides |-> @[x] + IF HasItem(x) THEN 1 ELSE 0]]

Collect(x) ==
  LET s == [st EXCEPT !.received[x] = @ + 1]
  IN  /\ st.pc = "collect" /\ ~Decided /\ Ready(Src[x])
      /\ st' = IF st.side[x] = "open"
               THEN [s EXCEPT !.side[x] = "gotFirst", !.first[x] = Value(Src[x])]
               ELSE [s EXCEPT !.extra[x] = @ + 1]
      /\ ch' = Take(ch, Src[x])
      /\ UNCHANGED canceled

SourceEnds(x) ==
  /\ st.pc = "collect" /\ ~Decided /\ Shut(Src[x]) /\ ~Resolved(x)
  /\ st' = [st EXCEPT !.side[x] = IF @ = "open" THEN "closedEmpty" ELSE "closed"]
  /\ UNCHANGED <<ch, canceled>>

CancelCollect ==
  /\ st.pc = "collect" /\ ~Decided /\ canceled
  /\ st' = [DiscardFirsts(st) EXCEPT !.ctxErr = TRUE, !.pc = "discard"]
  /\ UNCHANGED <<ch, canceled>>

\* Phase 2 before the send.
Combine ==
  /\ st.pc = "collect" /\ Decided
  /\ \/ /\ Have = {}
        /\ st' = [st EXCEPT !.pc = "extras"]
     \/ /\ Have = Sides /\ \A x \in Sides : st.first[x].ok
        /\ st' = [st EXCEPT !.combined = 1, !.pc = "emit"]
     \/ /\ Have # {}
        /\ (Have = Sides /\ \A x \in Sides : st.first[x].ok) => FnMayPanic
        /\ st' = [DiscardFirsts(st) EXCEPT !.errors = 1, !.pc = "emit"]
  /\ UNCHANGED <<ch, canceled>>

\* Mutant of Undelivered: the counts of the lost result stay.
UndeliveredCounted == [st EXCEPT !.ctxErr = TRUE, !.pc = "extras"]

\* A result that is not delivered takes back what was counted for it.
Undelivered ==
  IF st.combined = 1
  THEN [DiscardFirsts(st) EXCEPT !.combined = 0, !.ctxErr = TRUE, !.pc = "extras"]
  ELSE [st EXCEPT !.errors = 0, !.ctxErr = TRUE, !.pc = "extras"]

Emit ==
  /\ st.pc = "emit"
  /\ IF canceled
     THEN st' = Undelivered /\ UNCHANGED ch
     ELSE /\ st' = [st EXCEPT !.pc = "send"]
          /\ ch' = Put(ch, Out, [ok |-> st.combined = 1, of |-> st.first])
  /\ UNCHANGED canceled

Sent ==
  /\ st.pc = "send" /\ Taken(Out)
  /\ st' = [st EXCEPT !.pc = "extras"]
  /\ ch' = Clear(ch, Out)
  /\ UNCHANGED canceled

Interrupted ==
  /\ st.pc = "send" /\ canceled /\ ~Taken(Out)
  /\ st' = Undelivered
  /\ ch' = Clear(ch, Out)
  /\ UNCHANGED canceled

\* drain, with the counter its caller passes.
Drain(x) ==
  /\ Ready(Src[x])
  /\ \/ st.pc = "discard" /\ st' = [st EXCEPT !.received[x] = @ + 1, !.discarded[x] = @ + 1]
     \/ st.pc = "extras" /\ st' = [st EXCEPT !.received[x] = @ + 1, !.extra[x] = @ + 1]
  /\ ch' = Take(ch, Src[x])
  /\ UNCHANGED canceled

Finish ==
  /\ st.pc \in {"discard", "extras"} /\ \A x \in Sides : Shut(Src[x])
  /\ st' = [st EXCEPT !.pc = "exited"]
  /\ ch' = Close(ch, {Out})
  /\ UNCHANGED canceled

Next ==
  \/ \E x \in Sides : Collect(x) \/ SourceEnds(x) \/ Drain(x)
  \/ CancelCollect \/ Combine \/ Emit \/ Sent \/ Interrupted \/ Finish

Exited == st.pc = "exited"
================================================================================
