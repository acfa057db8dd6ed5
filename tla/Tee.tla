---------------------------------- MODULE Tee ----------------------------------
(***************************************************************************)
(* Tee.run (tee.go): one goroutine that copies each item to the branches   *)
(* in index order and, once cancelled, drains its source.                  *)
(*                                                                         *)
(* A receive and the cancellation checkpoint that follows it are one       *)
(* action, here and in the other operators: the receive does not read the  *)
(* context, so a cancel between the two may as well come first.            *)
(***************************************************************************)
EXTENDS Channels

CONSTANTS Src, Branches    \* the source and the sequence of branch channels

VARIABLE st

N == Len(Branches)

Init ==
  st = [pc |-> "recv", next |-> 0, ctxErr |-> FALSE, received |-> 0, fully |-> 0,
        partially |-> 0, undelivered |-> 0, branch |-> [k \in 1..N |-> 0]]

Receive ==
  /\ st.pc = "recv" /\ Ready(Src)
  /\ IF canceled
     THEN /\ st' = [st EXCEPT !.received = @ + 1, !.undelivered = @ + 1, !.pc = "drain"]
          /\ ch' = Take(ch, Src)
     ELSE /\ st' = [st EXCEPT !.received = @ + 1, !.next = 1, !.pc = "send"]
          /\ ch' = Put(Take(ch, Src), Branches[1], Value(Src))
  /\ UNCHANGED canceled

\* The value of a send is that of the branch it is offered to.
Sent ==
  LET k == st.next
      served == [st EXCEPT !.branch[k] = @ + 1]
  IN  /\ st.pc = "send" /\ Taken(Branches[k])
      /\ IF k = N
         THEN /\ st' = [served EXCEPT !.fully = @ + 1, !.pc = "recv"]
              /\ ch' = Clear(ch, Branches[k])
         ELSE /\ st' = [served EXCEPT !.next = @ + 1]
              /\ ch' = Put(Clear(ch, Branches[k]), Branches[k + 1], Value(Branches[k]))
      /\ UNCHANGED canceled

Interrupted ==
  /\ st.pc = "send" /\ canceled /\ ~Taken(Branches[st.next])
  /\ st' = IF st.next > 1
           THEN [st EXCEPT !.partially = @ + 1, !.pc = "drain"]
           ELSE [st EXCEPT !.undelivered = @ + 1, !.pc = "drain"]
  /\ ch' = Clear(ch, Branches[st.next])
  /\ UNCHANGED canceled

Drain ==
  /\ st.pc = "drain" /\ Ready(Src)
  /\ st' = [st EXCEPT !.received = @ + 1, !.undelivered = @ + 1]
  /\ ch' = Take(ch, Src)
  /\ UNCHANGED canceled

Finish ==
  /\ st.pc \in {"recv", "drain"} /\ Shut(Src)
  /\ st' = [st EXCEPT !.ctxErr = (st.pc = "drain"), !.pc = "exited"]
  /\ ch' = Close(ch, {Branches[k] : k \in 1..N})
  /\ UNCHANGED canceled

Next == Receive \/ Sent \/ Interrupted \/ Drain \/ Finish

Exited == st.pc = "exited"
Lost == st.partially + st.undelivered
===============================================================================
