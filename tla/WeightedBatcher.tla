---------------------------- MODULE WeightedBatcher ----------------------------
(***************************************************************************)
(* WeightedBatcher.run (weighted_batcher.go): a Batcher whose batch is     *)
(* full when its weight or its length reaches the threshold, and that      *)
(* accounts for weights as well as for items.                              *)
(***************************************************************************)
EXTENDS Channels, FiniteSetsExt

CONSTANTS Src, Out, Threshold, WeightFn   \* WeightFn: the weight of each value

VARIABLES st, wt

WeightOf(buf) ==
  LET weight == [k \in DOMAIN buf |-> WeightFn[buf[k]]]
  IN  MapThenSumSet(LAMBDA k : weight[k], DOMAIN buf)
WFull(buf) == WeightOf(buf) >= Threshold \/ Len(buf) >= Threshold

B == INSTANCE Batcher WITH Full <- WFull

WInit == B!Init /\ wt = [received |-> 0, emitted |-> 0, dropped |-> 0]

\* The weight of the partial batch leaves with it, as emitted or as dropped.
WReceive ==
  /\ B!Receive
  /\ wt' = IF canceled THEN [wt EXCEPT !.dropped = @ + WeightOf(st.buf)]
           ELSE IF Value(Src).ok THEN [wt EXCEPT !.received = @ + WeightFn[Value(Src).of]]
           ELSE wt

WSent ==
  /\ B!Sent
  /\ wt' = [wt EXCEPT !.emitted = @ + WeightOf(st.buf)]

WInterrupted ==
  /\ B!Interrupted
  /\ wt' = [wt EXCEPT !.dropped = @ + WeightOf(st.buf)]

WNext ==
  \/ WReceive \/ WSent \/ WInterrupted
  \/ (B!Drain \/ B!SourceEnds) /\ UNCHANGED wt
===============================================================================
