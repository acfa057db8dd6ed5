----------------------------- MODULE PipelineGraph -----------------------------
(***************************************************************************)
(* The topology of a pipeline (pipeline.go), the segment a rope controls   *)
(* (rope_controller.go) and the targets of a RopeResolver                  *)
(* (rope_supervisor.go).  A pipeline is built by calls, frozen, and only   *)
(* read from then on, so all of it is functions of the pipeline's value.   *)
(* A call that panics leaves the pipeline as it was.                       *)
(***************************************************************************)
EXTENDS Naturals, Sequences, FiniteSets, SequencesExt

NewPipeline == [frozen |-> FALSE, order |-> <<>>, edges |-> <<>>]

Known(p, v) == v \in ToSet(p.order)
HasEdge(p, from, to) == \E i \in DOMAIN p.edges : p.edges[i].from = from /\ p.edges[i].to = to

AddStage(p, v) ==
  IF p.frozen \/ Known(p, v) THEN p ELSE [p EXCEPT !.order = Append(@, v)]

AddEdgeWithRatio(p, from, to, ratio) ==
  IF \/ p.frozen \/ ratio <= 0
     \/ ~Known(p, from) \/ ~Known(p, to)
     \/ from = to \/ HasEdge(p, from, to)
  THEN p
  ELSE [p EXCEPT !.edges = Append(@, [from |-> from, to |-> to, ratio |-> ratio])]

AddEdge(p, from, to) == AddEdgeWithRatio(p, from, to, 1)

\* The elements of s that are in S, in their order.
Only(s, S) == FlattenSeq([i \in DOMAIN s |-> IF s[i] \in S THEN <<s[i]>> ELSE <<>>])

\* The adjacency lists Freeze builds, in the order the edges were added.
Forward(p, v) ==
  LET out == Only(p.edges, {e \in ToSet(p.edges) : e.from = v}) IN [i \in DOMAIN out |-> out[i].to]
DirectPredecessors(p, v) ==
  LET in == Only(p.edges, {e \in ToSet(p.edges) : e.to = v}) IN [i \in DOMAIN in |-> in[i].from]

InDegree(p, v) == Len(DirectPredecessors(p, v))
Heads(p) == Only(p.order, {v \in ToSet(p.order) : InDegree(p, v) = 0})

\* Kahn's algorithm: the queue after the stages of its first n places have
\* been taken away.
KahnQueue(p) ==
  LET N == Len(p.order)
      Taken[n \in 0..N] ==
        IF n = 0 THEN [queue |-> Heads(p), left |-> [v \in ToSet(p.order) |-> InDegree(p, v)]]
        ELSE LET k == Taken[n - 1] IN
             IF n > Len(k.queue) THEN k
             ELSE LET next == Forward(p, k.queue[n])
                      left == [v \in DOMAIN k.left |-> k.left[v] - (IF Contains(next, v) THEN 1 ELSE 0)]
                  IN  [queue |-> k.queue \o Only(next, {v \in DOMAIN left : left[v] = 0}), left |-> left]
  IN  Taken[N].queue

Freeze(p) ==
  IF p.frozen \/ p.order = <<>> \/ Len(KahnQueue(p)) # Len(p.order) THEN p
  ELSE [p EXCEPT !.frozen = TRUE]

\* The queue of a breadth-first walk over next: the start, then what it reaches.
Walk(p, next, start) ==
  LET Queue[n \in 0..Len(p.order)] ==
        IF n = 0 THEN <<start>>
        ELSE LET q == Queue[n - 1]
             IN  IF n > Len(q) THEN q
                 ELSE q \o Only(next[q[n]], DOMAIN next \ ToSet(q))
  IN  Queue[Len(p.order)]

Upstream(p, v) == Walk(p, [u \in ToSet(p.order) |-> DirectPredecessors(p, u)], v)

HeadsTo(p, target) == Only(Heads(p), ToSet(Upstream(p, target)))
AncestorsOf(p, target) == Tail(Upstream(p, target))
HasPath(p, from, to) == Contains(Walk(p, [u \in ToSet(p.order) |-> Forward(p, u)], from), to)

EdgeRatio(p, from, to) ==
  p.edges[CHOOSE i \in DOMAIN p.edges : p.edges[i].from = from /\ p.edges[i].to = to].ratio
Incoming(p, v) ==
  [i \in DOMAIN DirectPredecessors(p, v) |-> [from |-> DirectPredecessors(p, v)[i], ratio |-> EdgeRatio(p, DirectPredecessors(p, v)[i], v)]]

-------------------------------------------------------------------------------
(* The segment of a rope: the stages from its control stage up to the drum,    *)
(* which it leaves out.  <<>> stands for an error.                             *)

DeriveSegment(p, start, drum) ==
  LET Path[n \in 0..Len(p.order)] ==
        IF n = 0 THEN <<start>>
        ELSE LET path == Path[n - 1]
                 succs == Forward(p, Last(path))
             IN  IF Last(path) = drum \/ Len(succs) # 1 THEN path ELSE Append(path, succs[1])
      path == Path[Len(p.order)]
  IN  IF Last(path) = drum THEN Front(path) ELSE <<>>

\* Mutant of ValidSegment: the drum may have other inputs.
ValidUpToTheDrum(p, drum, segment) ==
  \A i \in 2..Len(segment) : InDegree(p, segment[i]) = 1

ValidSegment(p, drum, segment) ==
  /\ \A i \in 2..Len(segment) : InDegree(p, segment[i]) = 1
  /\ InDegree(p, drum) = 1

ResolveSegment(p, controlStage, drum) ==
  IF ~Known(p, controlStage) \/ ~Known(p, drum) THEN <<>>
  ELSE LET segment == DeriveSegment(p, controlStage, drum)
       IN  IF ValidSegment(p, drum, segment) THEN segment ELSE <<>>

\* The control stage of a drum: the one given, or the only head that feeds it.
ControlStageFor(p, drum, given, inferred) ==
  IF given # inferred THEN {given}
  ELSE LET heads == HeadsTo(p, drum) IN IF Len(heads) = 1 THEN {heads[1]} ELSE {}

\* NewRopeResolver: every drum of the configuration has a segment, or there is
\* no resolver, here one without drums.  configs maps a drum to its control
\* stage, or to inferred.
NewRopeResolver(p, configs, inferred) ==
  LET targets(d) == {t \in {[controlStage |-> c, segment |-> ResolveSegment(p, c, d)]
                              : c \in ControlStageFor(p, d, configs[d], inferred)}
                       : t.segment # <<>>}
  IN  IF \E d \in DOMAIN configs : ~Known(p, d) \/ targets(d) = {} THEN <<>>
      ELSE [d \in DOMAIN configs |-> CHOOSE t \in targets(d) : TRUE]

-------------------------------------------------------------------------------
(* What the queries should return, for a pipeline that calls have built.       *)

DigraphOf(p) ==
  [node |-> ToSet(p.order), edge |-> {<<p.edges[i].from, p.edges[i].to>> : i \in DOMAIN p.edges}]

\* The nodes that a walk from u comes to: those in every set that contains u and
\* that no edge leaves.
ReachIn(G) ==
  LET closed == {S \in SUBSET G.node : \A e \in G.edge : e[1] \in S => e[2] \in S}
  IN  [u \in G.node |-> {v \in G.node : \A S \in closed : u \in S => v \in S}]

\* Freeze accepts a pipeline exactly when it has a stage and no cycle.
FreezeIsRight(p) ==
  LET reach == ReachIn(DigraphOf(p))
  IN  Freeze(p).frozen <=> p.order # <<>> /\ \A e \in DigraphOf(p).edge : e[1] \notin reach[e[2]]

\* On a frozen pipeline the walks agree with reachability: a path where there is
\* one, every ancestor once and the closer one first, the heads that feed a
\* stage in the order of registration.
QueriesAreRight(p) ==
  LET G == DigraphOf(p)
      reach == ReachIn(G)
      feeds(v) == {u \in G.node \ {v} : v \in reach[u]}
      Within[k \in 0..Cardinality(G.node)] ==  \* pairs at most k edges apart
        IF k = 0 THEN {<<v, v>> : v \in G.node}
        ELSE Within[k - 1] \cup {e \in G.node \X G.node :
               \E u \in G.node : <<e[1], u>> \in G.edge /\ <<u, e[2]>> \in Within[k - 1]}
      near(u, v) == CHOOSE k \in DOMAIN Within :
                      <<u, v>> \in Within[k] /\ (k > 0 => <<u, v>> \notin Within[k - 1])
  IN  \A v \in G.node :
        /\ \A u \in G.node : HasPath(p, u, v) <=> v \in reach[u]
        /\ LET anc == AncestorsOf(p, v) IN
             /\ ToSet(anc) = feeds(v) /\ Len(anc) = Cardinality(feeds(v))
             /\ \A i, j \in DOMAIN anc : i < j => near(anc[i], v) <= near(anc[j], v)
        /\ HeadsTo(p, v) = Only(p.order, {u \in feeds(v) \cup {v} : \A e \in G.edge : e[2] # u})
        /\ ToSet(Incoming(p, v)) = {[from |-> p.edges[i].from, ratio |-> p.edges[i].ratio]
                                      : i \in {j \in DOMAIN p.edges : p.edges[j].to = v}}

\* The segment of a rope is the way into its drum and nothing else's: what its
\* control stage releases goes through all of it to the drum, and what comes
\* into it after the control stage was released there ("items from outside the
\* segment would corrupt", rope_controller.go:286).  It is found whenever there
\* is one.
Exclusive(p, s, drum) ==
  LET G == DigraphOf(p)
      path == Append(s, drum)
  IN  /\ \A i \in 1..Len(s) : {e \in G.edge : e[1] = s[i]} = {<<s[i], path[i + 1]>>}
      /\ \A i \in 2..Len(path) : {e \in G.edge : e[2] = path[i]} = {<<path[i - 1], path[i]>>}

SegmentsAreRight(p) ==
  \A c, d \in ToSet(p.order) :
    LET s == ResolveSegment(p, c, d)
        chains == {t \in SeqOf(ToSet(p.order) \ {d}, Len(p.order) - 1) :
                     t # <<>> /\ t[1] = c /\ Exclusive(p, t, d)}
    IN  IF s = <<>> THEN chains = {} ELSE chains = {s}
================================================================================
