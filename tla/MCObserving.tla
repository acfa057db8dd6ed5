----------------------------- MODULE MCObserving -----------------------------
(* Instances of Observing for TLC.                                         *)
EXTENDS Observing

Healthy == [stage |-> "x", state |-> "Healthy", utilization |-> 50, errorRate |-> 0, queueGrowth |-> 0,
            completions |-> 1, failures |-> 0, arrivals |-> 1, ratios |-> <<>>]
Identified(source, name) ==
  [state |-> "Identified", source |-> source, constraint |-> name, candidate |-> NoName, fresh |-> 3,
   unsupported |-> CountMax, starved |-> 0, stages |-> <<[Healthy EXCEPT !.state = "Saturated"]>>]
MCDiagnoses == {Identified("Inferred", "x"), Identified("ManualOverride", "y")}

\* A batch as an observer makes them, one whose window is too short for its busy
\* time, and one for which there is no subject.
Batch(name, observation) ==
  [pipeline |-> name, timestamp |-> 1, duration |-> 1, observations |-> <<observation>>]
MCBatches ==
  {Batch("p", [Blank EXCEPT !.mask = Optional, !.completions = 1, !.busy = 1, !.capacity = 1]),
   Batch("p", [Blank EXCEPT !.busy = 2, !.capacity = 1]), Batch("p.q", Blank)}

MCObserved == <<"x">>
MCSources == <<{"x"}, {"z"}>>
MCNameOrder == <<"x", "z">>

\* Another client sends what is no message, what belongs to another pipeline,
\* and a diagnosis with two timestamps.
MCForeign ==
  {[subject |-> <<"observe", "p">>, data |-> Garbage, header |-> <<>>],
   [subject |-> <<"observe", "p">>,
    data |-> BatchToProto(Batch("q", Blank)), header |-> <<>>],
   [subject |-> <<"diagnose", "p">>, data |-> DiagnosisToProto(Identified("Inferred", "x")),
    header |-> <<1, 2>>]}
==============================================================================
