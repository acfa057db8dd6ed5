--------------------------- MODULE MCRopeSupervisor ---------------------------
(***************************************************************************)
(* Instance of RopeSupervisor for TLC.  Its drums are those of a resolver  *)
(* built from a pipeline (PipelineGraph).  The pipeline's operations and   *)
(* the budget's arithmetic are functions, checked over all small inputs;   *)
(* those properties speak of the state in which everything is set up.      *)
(***************************************************************************)
EXTENDS RopeSupervisor, PipelineGraph, Budget

MCNoBaseline == [count |-> 2, weight |-> 0]
MCBudgets == {-1, 2}
Inferred == ""

\* A pipeline built by calls: the names are registered, then the edges added.
Names == <<"s1", "s2", "s3", "s4">>
BuiltBy(names, calls) ==
  LET Named[i \in 0..Len(names)] == IF i = 0 THEN NewPipeline ELSE AddStage(Named[i - 1], names[i])
      Linked[i \in 0..Len(calls)] ==
        IF i = 0 THEN Named[Len(names)]
        ELSE LET p == Linked[i - 1]
                 e == calls[i]
             IN  IF e[1] = "s1" THEN AddEdgeWithRatio(p, e[1], e[2], 2) ELSE AddEdge(p, e[1], e[2])
  IN  Linked[Len(calls)]

\* intake -> A -> B -> sink, and audit on the side: B and A can be the drum of a
\* rope, sink has a second way in.
MCPipeline ==
  Freeze(BuiltBy(<<"intake", "A", "B", "audit", "sink">>,
                 <<<<"intake", "A">>, <<"A", "B">>, <<"B", "sink">>, <<"audit", "sink">>>>))
MCResolver == NewRopeResolver(MCPipeline, [dr \in {"A", "B"} |-> IF dr = "A" THEN Inferred ELSE "A"], Inferred)
ASSUME DrumsAreResolved == Drums = DOMAIN MCResolver

\* Every pipeline of one to four stages with every set of edges between them,
\* built by calls in two orders, some of them with a ratio.
Pairs(n) == [i \in 1..(n * n) |-> <<Names[1 + ((i - 1) \div n)], Names[1 + ((i - 1) % n)]>>]
EdgeCalls(n) == Only(Pairs(n), {e \in ToSet(Pairs(n)) : e[1] # e[2]})
SmallPipelines ==
  UNION {UNION {{BuiltBy(SubSeq(Names, 1, n), s), BuiltBy(SubSeq(Names, 1, n), Reverse(s))}
                  : s \in {Only(EdgeCalls(n), T) : T \in SUBSET ToSet(EdgeCalls(n))}}
           : n \in 1..4}

\* A drum has a rope exactly if nothing enters or leaves on the way to it.
ResolverIsRight(q) ==
  \A dr \in ToSet(q.order) :
    LET r     == NewRopeResolver(q, [x \in {dr} |-> Inferred], Inferred)
        entry == {h \in ToSet(Heads(q)) : HasPath(q, h, dr)}
        owned == {h \in entry : ResolveSegment(q, h, dr) # <<>>}
    IN  IF Cardinality(entry) = 1 /\ owned = entry
        THEN r[dr].segment = ResolveSegment(q, r[dr].controlStage, dr) /\ r[dr].controlStage \in entry
        ELSE r = <<>>

\* Freeze accepts exactly the acyclic pipelines; the queries of the one it has
\* accepted return what its edges say; and a rope is offered exactly the
\* segments that nothing enters or leaves on the way to the drum, whether the
\* control stage is named or inferred (pipeline.go:114-355,
\* rope_supervisor.go:51-125).
GraphAnswers ==
  SupervisorInit =>
  \A p \in SmallPipelines :
    /\ FreezeIsRight(p)
    /\ Freeze(p).frozen =>
         LET q == Freeze(p) IN QueriesAreRight(q) /\ SegmentsAreRight(q) /\ ResolverIsRight(q)

\* However the budget is split, the stages together get no more than there is.
BudgetIsNotExceeded ==
  SupervisorInit => \A n \in 1..4, h \in 0..13, share \in 0..4, fraction \in {<<1, 1>>, <<2, 3>>} :
    \A drum \in {NoDrumName} \cup {Names[i] : i \in 1..n} :
      AllocationsFit(SubSeq(Names, 1, n), drum, fraction, <<share, 4>>, h)
===============================================================================
