----------------------------- MODULE GraphProofs -----------------------------
(***************************************************************************)
(* The pipeline graph, for every pipeline that calls can build: Freeze     *)
(* accepts it exactly when it has a stage and no cycle, the queries return *)
(* what its edges say, and a rope is given a segment exactly when nothing  *)
(* else enters or leaves on the way to its drum.                           *)
(*                                                                         *)
(* The functions of PipelineGraph go place by place through a queue that   *)
(* grows.  Each is given its equation first (there is such a function,     *)
(* IterationExists), then an invariant of its places, and the invariant at *)
(* the last place is the result.  A smallest place that refutes the        *)
(* invariant stands in for induction.                                      *)
(***************************************************************************)
EXTENDS MCRopeSupervisor, Lemmas

-------------------------------------------------------------------------------
(* What is selected from a sequence.                                           *)

\* What is selected from a sequence, as the sequence grows.
LEMMA OnlyEmpty ==
  ASSUME NEW S
  PROVE  Only(<<>>, S) = <<>>
<1>1. [i \in DOMAIN <<>> |-> IF <<>>[i] \in S THEN <<<<>>[i]>> ELSE <<>>] = <<>>
  OBVIOUS
<1>2. QED
  BY <1>1, FlattenEmpty, Zenon DEF Only

LEMMA OnlyAppend ==
  ASSUME NEW T, NEW s \in Seq(T), NEW x \in T, NEW S
  PROVE  Only(Append(s, x), S) = IF x \in S THEN Append(Only(s, S), x) ELSE Only(s, S)
<1>. DEFINE t == Append(s, x)
            piece(y) == IF y \in S THEN <<y>> ELSE <<>>
            u == [i \in DOMAIN s |-> IF s[i] \in S THEN <<s[i]>> ELSE <<>>]
            v == [i \in DOMAIN t |-> IF t[i] \in S THEN <<t[i]>> ELSE <<>>]
<1>1. /\ t \in Seq(T) /\ DOMAIN t = 1..(Len(s) + 1) /\ DOMAIN s = 1..Len(s) /\ Len(s) \in Nat
      /\ t[Len(s) + 1] = x /\ \A i \in 1..Len(s) : t[i] = s[i]
  OBVIOUS
<1>2. u \in Seq(Seq(T)) /\ Len(u) = Len(s)
  <2>1. \A i \in DOMAIN s : (IF s[i] \in S THEN <<s[i]>> ELSE <<>>) \in Seq(T)
    OBVIOUS
  <2>2. QED
    BY <1>1, <2>1
<1>3. piece(x) \in Seq(T)
  OBVIOUS
<1>4. v = Append(u, piece(x))
  <2>. DEFINE w == Append(u, piece(x))
  <2>1. /\ w \in Seq(Seq(T)) /\ DOMAIN w = 1..(Len(s) + 1)
        /\ w[Len(s) + 1] = piece(x) /\ \A i \in 1..Len(s) : w[i] = u[i]
    <3>. HIDE DEF u, piece
    <3>1. QED
      BY <1>2, <1>3, <1>1
  <2>2. ASSUME NEW i \in 1..(Len(s) + 1)
        PROVE  v[i] = w[i]
    <3>1. CASE i = Len(s) + 1
      <4>1. v[i] = piece(x)
        BY <1>1, <3>1
      <4>2. QED
        BY <2>1, <3>1, <4>1
    <3>2. CASE i # Len(s) + 1
      <4>1. i \in 1..Len(s)
        BY <1>1, <3>2
      <4>2. v[i] = u[i]
        BY <1>1, <4>1
      <4>3. QED
        BY <2>1, <4>1, <4>2
    <3>3. QED
      BY <3>1, <3>2
  <2>3. DOMAIN v = 1..(Len(s) + 1) /\ v = [i \in DOMAIN v |-> v[i]]
    BY <1>1
  <2>4. w = [i \in 1..(Len(s) + 1) |-> w[i]]
    <3>. HIDE DEF w
    <3>1. QED
      BY <2>1
  <2>5. QED
    <3>1. v = w
      <4>. HIDE DEF v, w
      <4>1. QED
        BY <2>2, <2>3, <2>4
    <3>2. QED
      BY <3>1 DEF w
<1>5. FlattenSeq(u) \in Seq(T)
  <2>. HIDE DEF u
  <2>1. QED
    BY <1>2, FlattenWithin
<1>6. FlattenSeq(v) = FlattenSeq(u) \o piece(x)
  <2>. HIDE DEF u, v, piece
  <2>1. QED
    BY <1>2, <1>3, <1>4, <1>5, FlattenAppend
<1>7. Only(t, S) = FlattenSeq(v) /\ Only(s, S) = FlattenSeq(u)
  BY DEF Only
<1>8. CASE x \in S
  <2>1. piece(x) = <<x>>
    BY <1>8
  <2>2. FlattenSeq(u) \o <<x>> = Append(FlattenSeq(u), x)
    <3>. HIDE DEF u
    <3>1. QED
      BY <1>5
  <2>3. QED
    <3>. HIDE DEF u, v, piece
    <3>1. QED
      BY <1>6, <1>7, <1>8, <2>1, <2>2
<1>9. CASE x \notin S
  <2>1. piece(x) = <<>>
    BY <1>9
  <2>2. FlattenSeq(u) \o <<>> = FlattenSeq(u)
    <3>. HIDE DEF u
    <3>1. QED
      BY <1>5
  <2>3. QED
    <3>. HIDE DEF u, v, piece
    <3>1. QED
      BY <1>6, <1>7, <1>9, <2>1, <2>2
<1>10. QED
  BY <1>8, <1>9

\* Where the elements that are selected stood: f are their places, in order.
Selects(f, o, s, S) ==
  /\ f \in [1..Len(o) -> 1..Len(s)]
  /\ \A i \in 1..Len(o) : o[i] = s[f[i]] /\ o[i] \in S
  /\ \A i, j \in 1..Len(o) : i < j => f[i] < f[j]
  /\ \A k \in 1..Len(s) : s[k] \in S => \E i \in 1..Len(o) : f[i] = k

LEMMA OnlyPlaces ==
  ASSUME NEW T, NEW s \in Seq(T), NEW S
  PROVE  Only(s, S) \in Seq(T) /\ \E f : Selects(f, Only(s, S), s, S)
<1>. DEFINE Holds(t) == Only(t, S) \in Seq(T) /\ \E f : Selects(f, Only(t, S), t, S)
            B == {n \in Nat : \E t \in Seq(T) : Len(t) = n /\ ~Holds(t)}
<1>1. SUFFICES ASSUME B # {} PROVE FALSE
  OBVIOUS
<1>2. PICK n \in B : \A m \in B : n <= m
  BY <1>1, SmallestNumber
<1>3. PICK t \in Seq(T) : Len(t) = n /\ ~Holds(t)
  BY <1>2
<1>4. CASE n = 0
  <2>1. t = <<>> /\ Only(t, S) = <<>>
    BY <1>3, <1>4, OnlyEmpty
  <2>2. Selects(<<>>, <<>>, <<>>, S)
    BY DEF Selects
  <2>3. QED
    BY <1>3, <2>1, <2>2
<1>5. CASE n # 0
  <2>. DEFINE r == SubSeq(t, 1, n - 1)
              x == t[n]
              o == Only(r, S)
              q == Only(t, S)
  <2>1. /\ n \in Nat /\ n - 1 \in Nat /\ n >= 1 /\ n - 1 \notin B
        /\ \A i \in 1..(n - 1) : i \in 1..n /\ i # n
        /\ \A i \in 1..n : i # n => i \in 1..(n - 1)
    BY <1>2, <1>5
  <2>2. r \in Seq(T) /\ Len(r) = n - 1 /\ x \in T /\ t = Append(r, x)
        /\ \A i \in 1..(n - 1) : t[i] = r[i]
    BY <1>3, <2>1
  <2>3. Holds(r)
    BY <2>1, <2>2
  <2>4. PICK f : Selects(f, o, r, S)
    BY <2>3
  <2>5. o \in Seq(T) /\ Len(o) \in Nat
    BY <2>3
  <2>6. CASE x \in S
    <3>. DEFINE m == Len(o) + 1
                g == [i \in 1..m |-> IF i = m THEN n ELSE f[i]]
    <3>1. q = Append(o, x)
      <4>1. Only(Append(r, x), S) = Append(o, x)
        <5>. HIDE DEF r, x
        <5>1. QED
          BY <2>2, <2>6, OnlyAppend
      <4>2. QED
        BY <2>2, <4>1
    <3>. HIDE DEF r, x, o, q
    <3>2. /\ q \in Seq(T) /\ Len(q) = m /\ q[m] = x /\ m \in Nat /\ m >= 1
          /\ \A i \in 1..m : i # m => i \in 1..Len(o) /\ q[i] = o[i]
          /\ \A i \in 1..Len(o) : i \in 1..m /\ i # m
      BY <2>2, <2>5, <3>1
    <3>3. f \in [1..Len(o) -> 1..(n - 1)]
      BY <2>2, <2>4 DEF Selects
    <3>4. g \in [1..m -> 1..n] /\ g[m] = n /\ \A i \in 1..Len(o) : g[i] = f[i] /\ g[i] \in 1..(n - 1)
      <4>1. \A i \in 1..m : i # m => f[i] \in 1..(n - 1)
        BY <3>2, <3>3
      <4>2. QED
        BY <2>1, <3>2, <3>3, <4>1
    <3>. HIDE DEF g, m
    <3>5. \A i \in 1..m : q[i] = t[g[i]] /\ q[i] \in S
      <4>1. SUFFICES ASSUME NEW i \in 1..m PROVE q[i] = t[g[i]] /\ q[i] \in S
        OBVIOUS
      <4>2. CASE i = m
        BY <2>6, <3>2, <3>4, <4>2 DEF x
      <4>3. CASE i # m
        <5>1. i \in 1..Len(o) /\ q[i] = o[i] /\ g[i] = f[i] /\ g[i] \in 1..(n - 1)
          BY <3>2, <3>4, <4>3
        <5>2. o[i] = r[f[i]] /\ o[i] \in S
          BY <2>4, <5>1 DEF Selects
        <5>3. QED
          BY <2>2, <5>1, <5>2
      <4>4. QED
        BY <4>2, <4>3
    <3>6. \A i, j \in 1..m : i < j => g[i] < g[j]
      <4>1. SUFFICES ASSUME NEW i \in 1..m, NEW j \in 1..m, i < j PROVE g[i] < g[j]
        OBVIOUS
      <4>2. i \in 1..Len(o)
        BY <3>2, <4>1
      <4>3. CASE j = m
        BY <2>1, <3>4, <4>2, <4>3
      <4>4. CASE j # m
        BY <2>4, <3>2, <3>4, <4>1, <4>2, <4>4 DEF Selects
      <4>5. QED
        BY <4>3, <4>4
    <3>7. \A k \in 1..n : t[k] \in S => \E i \in 1..m : g[i] = k
      <4>1. SUFFICES ASSUME NEW k \in 1..n, t[k] \in S PROVE \E i \in 1..m : g[i] = k
        OBVIOUS
      <4>2. CASE k = n
        <5>1. m \in 1..m
          BY <3>2
        <5>2. QED
          BY <3>4, <4>2, <5>1
      <4>3. CASE k # n
        <5>1. k \in 1..(n - 1) /\ r[k] \in S
          BY <2>1, <2>2, <4>1, <4>3
        <5>2. PICK i \in 1..Len(o) : f[i] = k
          BY <2>2, <2>4, <5>1 DEF Selects
        <5>3. QED
          BY <3>2, <3>4, <5>2
      <4>4. QED
        BY <4>2, <4>3
    <3>8. Selects(g, q, t, S)
      BY <1>3, <3>2, <3>4, <3>5, <3>6, <3>7 DEF Selects
    <3>9. QED
      BY <1>3, <3>2, <3>8 DEF q
  <2>7. CASE x \notin S
    <3>1. q = o
      <4>1. Only(Append(r, x), S) = o
        <5>. HIDE DEF r, x
        <5>1. QED
          BY <2>2, <2>7, OnlyAppend
      <4>2. QED
        BY <2>2, <4>1
    <3>. HIDE DEF r, o, q
    <3>2. Selects(f, q, t, S)
      <4>1. f \in [1..Len(o) -> 1..n]
        <5>1. f \in [1..Len(o) -> 1..(n - 1)]
          BY <2>2, <2>4 DEF Selects
        <5>2. QED
          BY <2>1, <5>1
      <4>2. \A i \in 1..Len(o) : f[i] \in 1..(n - 1) /\ t[f[i]] = r[f[i]]
        BY <2>2, <2>4 DEF Selects
      <4>3. \A k \in 1..n : t[k] \in S => k \in 1..(n - 1) /\ r[k] \in S
        BY <2>1, <2>2, <2>7 DEF x
      <4>4. QED
        BY <1>3, <2>2, <2>4, <3>1, <4>1, <4>2, <4>3 DEF Selects
    <3>3. QED
      BY <1>3, <2>5, <3>1, <3>2 DEF q
  <2>8. QED
    BY <2>6, <2>7
<1>6. QED
  BY <1>4, <1>5

-------------------------------------------------------------------------------
(* The pipelines that calls can build, and their adjacency lists.              *)

\* The pipelines over the names V that calls can build.
Pipelines(V) ==
  {p \in [frozen : BOOLEAN, order : Seq(V), edges : Seq([from : V, to : V, ratio : Int])] :
     /\ \A i, j \in 1..Len(p.order) : p.order[i] = p.order[j] => i = j
     /\ \A i \in 1..Len(p.edges) : /\ Known(p, p.edges[i].from) /\ Known(p, p.edges[i].to)
                                   /\ p.edges[i].from # p.edges[i].to
     /\ \A i, j \in 1..Len(p.edges) :
          p.edges[i].from = p.edges[j].from /\ p.edges[i].to = p.edges[j].to => i = j}

Nodes(p) == ToSet(p.order)
Edges(p) == DigraphOf(p).edge
Successors(p, v) == {w \in Nodes(p) : <<v, w>> \in Edges(p)}
Predecessors(p, v) == {u \in Nodes(p) : <<u, v>> \in Edges(p)}

LEMMA PipelineIs ==
  ASSUME NEW V, NEW p \in Pipelines(V)
  PROVE  /\ p \in [frozen : BOOLEAN, order : Seq(V), edges : Seq([from : V, to : V, ratio : Int])]
         /\ p.order \in Seq(V) /\ p.edges \in Seq([from : V, to : V, ratio : Int])
         /\ Lists(p.order, Nodes(p)) /\ Nodes(p) \subseteq V
         /\ DigraphOf(p).node = Nodes(p)
         /\ IsFiniteSet(Nodes(p)) /\ Cardinality(Nodes(p)) = Len(p.order) /\ Len(p.order) \in Nat
<1>1. p \in [frozen : BOOLEAN, order : Seq(V), edges : Seq([from : V, to : V, ratio : Int])]
  BY DEF Pipelines
<1>2. p.order \in Seq(V) /\ p.edges \in Seq([from : V, to : V, ratio : Int])
  BY <1>1
<1>3. \A i, j \in 1..Len(p.order) : p.order[i] = p.order[j] => i = j
  BY DEF Pipelines
<1>4. Lists(p.order, Nodes(p)) /\ Nodes(p) \subseteq V
  BY <1>2, <1>3 DEF Lists, Nodes, ToSet
<1>5. DigraphOf(p).node = Nodes(p)
  BY DEF DigraphOf, Nodes
<1>6. QED
  BY <1>1, <1>2, <1>4, <1>5, ListsCounted, ListsIs

LEMMA EdgesAre ==
  ASSUME NEW V, NEW p \in Pipelines(V)
  PROVE  /\ \A e \in Edges(p) : e = <<e[1], e[2]>>
         /\ \A u, w : <<u, w>> \in Edges(p) => u \in Nodes(p) /\ w \in Nodes(p) /\ u # w
         /\ \A u, w : <<u, w>> \in Edges(p) <=>
              \E i \in 1..Len(p.edges) : p.edges[i].from = u /\ p.edges[i].to = w
         /\ \A i, j \in 1..Len(p.edges) :
              p.edges[i].from = p.edges[j].from /\ p.edges[i].to = p.edges[j].to => i = j
<1>1. p.edges \in Seq([from : V, to : V, ratio : Int])
  BY PipelineIs
<1>2. Edges(p) = {<<p.edges[i].from, p.edges[i].to>> : i \in 1..Len(p.edges)}
  BY <1>1 DEF Edges, DigraphOf
<1>3. \A i \in 1..Len(p.edges) : /\ p.edges[i].from \in Nodes(p) /\ p.edges[i].to \in Nodes(p)
                                 /\ p.edges[i].from # p.edges[i].to
  BY DEF Pipelines, Known, Nodes
<1>4. \A i, j \in 1..Len(p.edges) :
        p.edges[i].from = p.edges[j].from /\ p.edges[i].to = p.edges[j].to => i = j
  BY DEF Pipelines
<1>5. \A u, w : <<u, w>> \in Edges(p) <=>
        \E i \in 1..Len(p.edges) : p.edges[i].from = u /\ p.edges[i].to = w
  BY <1>2
<1>6. \A e \in Edges(p) : e = <<e[1], e[2]>>
  BY <1>2
<1>7. QED
  BY <1>3, <1>4, <1>5, <1>6

\* Places that grow differ.
LEMMA PlacesDiffer ==
  ASSUME NEW T, NEW s \in Seq(T), NEW S, NEW o \in Seq(T), NEW f, Selects(f, o, s, S)
  PROVE  \A i, j \in 1..Len(o) : f[i] = f[j] => i = j
<1>1. f \in [1..Len(o) -> 1..Len(s)] /\ \A i, j \in 1..Len(o) : i < j => f[i] < f[j]
  BY DEF Selects
<1>2. Len(o) \in Nat /\ Len(s) \in Nat
  OBVIOUS
<1>3. QED
  BY <1>1, <1>2

\* The adjacency lists name each neighbour once.
LEMMA ForwardLists ==
  ASSUME NEW V, NEW p \in Pipelines(V), NEW v
  PROVE  Lists(Forward(p, v), Successors(p, v))
<1>. DEFINE T == [from : V, to : V, ratio : Int]
            S == {e \in ToSet(p.edges) : e.from = v}
            out == Only(p.edges, S)
            q == [i \in DOMAIN out |-> out[i].to]
<1>1. p.edges \in Seq(T)
  BY PipelineIs
<1>2. out \in Seq(T) /\ \E f : Selects(f, out, p.edges, S)
  <2>. HIDE DEF T, S
  <2>1. QED
    BY <1>1, OnlyPlaces
<1>3. PICK f : Selects(f, out, p.edges, S)
  BY <1>2
<1>4. Forward(p, v) = q
  BY DEF Forward
<1>5. DOMAIN out = 1..Len(out) /\ Len(out) \in Nat /\ \A i \in 1..Len(out) : out[i] \in T
  <2>. HIDE DEF T, out
  <2>1. QED
    BY <1>2
<1>6. \A i \in 1..Len(out) : f[i] \in 1..Len(p.edges) /\ out[i] = p.edges[f[i]] /\ out[i].from = v
  BY <1>3 DEF Selects
<1>7. Len(q) = Len(out) /\ DOMAIN q = 1..Len(out) /\ \A i \in 1..Len(out) : q[i] = p.edges[f[i]].to
  <2>. HIDE DEF out
  <2>1. QED
    BY <1>5, <1>6
<1>8. \A i \in 1..Len(out) : q[i] \in Successors(p, v)
  <2>1. SUFFICES ASSUME NEW i \in 1..Len(out) PROVE q[i] \in Successors(p, v)
    OBVIOUS
  <2>2. <<v, q[i]>> \in Edges(p)
    BY <1>6, <1>7, EdgesAre
  <2>3. q[i] \in Nodes(p)
    <3>. HIDE DEF q
    <3>1. QED
      BY <2>2, EdgesAre
  <2>4. QED
    BY <2>2, <2>3 DEF Successors
<1>9. q \in Seq(Successors(p, v))
  <2>. HIDE DEF out
  <2>1. q = [i \in 1..Len(out) |-> q[i]]
    BY <1>5
  <2>. HIDE DEF q
  <2>2. QED
    BY <1>5, <1>8, <2>1
<1>10. ASSUME NEW w \in Successors(p, v)
       PROVE  \E i \in 1..Len(q) : q[i] = w
  <2>1. PICK k \in 1..Len(p.edges) : p.edges[k].from = v /\ p.edges[k].to = w
    BY EdgesAre DEF Successors
  <2>2. p.edges[k] \in S
    BY <1>1, <2>1 DEF ToSet
  <2>3. PICK i \in 1..Len(out) : f[i] = k
    BY <1>3, <2>2 DEF Selects
  <2>4. QED
    BY <1>7, <2>1, <2>3
<1>11. ASSUME NEW i \in 1..Len(q), NEW j \in 1..Len(q), q[i] = q[j]
       PROVE  i = j
  <2>1. f[i] = f[j]
    <3>. HIDE DEF q
    <3>1. f[i] \in 1..Len(p.edges) /\ f[j] \in 1..Len(p.edges)
      BY <1>6, <1>7
    <3>2. p.edges[f[i]].from = p.edges[f[j]].from /\ p.edges[f[i]].to = p.edges[f[j]].to
      BY <1>6, <1>7, <1>11
    <3>3. QED
      BY <3>1, <3>2, EdgesAre
  <2>2. \A m, n \in 1..Len(out) : f[m] = f[n] => m = n
    <3>. HIDE DEF T, S, out
    <3>1. QED
      BY <1>1, <1>2, <1>3, PlacesDiffer
  <2>3. QED
    BY <1>7, <2>1, <2>2
<1>12. Lists(q, Successors(p, v))
  <2>. HIDE DEF q
  <2>1. QED
    BY <1>9, <1>10, <1>11 DEF Lists
<1>13. QED
  BY <1>4, <1>12

LEMMA PredecessorsLists ==
  ASSUME NEW V, NEW p \in Pipelines(V), NEW v
  PROVE  Lists(DirectPredecessors(p, v), Predecessors(p, v))
<1>. DEFINE T == [from : V, to : V, ratio : Int]
            S == {e \in ToSet(p.edges) : e.to = v}
            in == Only(p.edges, S)
            q == [i \in DOMAIN in |-> in[i].from]
<1>1. p.edges \in Seq(T)
  BY PipelineIs
<1>2. in \in Seq(T) /\ \E f : Selects(f, in, p.edges, S)
  <2>. HIDE DEF T, S
  <2>1. QED
    BY <1>1, OnlyPlaces
<1>3. PICK f : Selects(f, in, p.edges, S)
  BY <1>2
<1>4. DirectPredecessors(p, v) = q
  BY DEF DirectPredecessors
<1>5. DOMAIN in = 1..Len(in) /\ Len(in) \in Nat /\ \A i \in 1..Len(in) : in[i] \in T
  <2>. HIDE DEF T, in
  <2>1. QED
    BY <1>2
<1>6. \A i \in 1..Len(in) : f[i] \in 1..Len(p.edges) /\ in[i] = p.edges[f[i]] /\ in[i].to = v
  BY <1>3 DEF Selects
<1>7. Len(q) = Len(in) /\ DOMAIN q = 1..Len(in) /\ \A i \in 1..Len(in) : q[i] = p.edges[f[i]].from
  <2>. HIDE DEF in
  <2>1. QED
    BY <1>5, <1>6
<1>8. \A i \in 1..Len(in) : q[i] \in Predecessors(p, v)
  <2>1. SUFFICES ASSUME NEW i \in 1..Len(in) PROVE q[i] \in Predecessors(p, v)
    OBVIOUS
  <2>2. <<q[i], v>> \in Edges(p)
    BY <1>6, <1>7, EdgesAre, SMTT(40)
  <2>3. q[i] \in Nodes(p)
    <3>. HIDE DEF q
    <3>1. QED
      BY <2>2, EdgesAre
  <2>4. QED
    BY <2>2, <2>3 DEF Predecessors
<1>9. q \in Seq(Predecessors(p, v))
  <2>. HIDE DEF in
  <2>1. q = [i \in 1..Len(in) |-> q[i]]
    BY <1>5
  <2>. HIDE DEF q
  <2>2. QED
    BY <1>5, <1>8, <2>1
<1>10. ASSUME NEW u \in Predecessors(p, v)
       PROVE  \E i \in 1..Len(q) : q[i] = u
  <2>1. PICK k \in 1..Len(p.edges) : p.edges[k].from = u /\ p.edges[k].to = v
    BY EdgesAre DEF Predecessors
  <2>2. p.edges[k] \in S
    BY <1>1, <2>1 DEF ToSet
  <2>3. PICK i \in 1..Len(in) : f[i] = k
    BY <1>3, <2>2 DEF Selects
  <2>4. QED
    BY <1>7, <2>1, <2>3
<1>11. ASSUME NEW i \in 1..Len(q), NEW j \in 1..Len(q), q[i] = q[j]
       PROVE  i = j
  <2>1. f[i] = f[j]
    <3>. HIDE DEF q
    <3>1. f[i] \in 1..Len(p.edges) /\ f[j] \in 1..Len(p.edges)
      BY <1>6, <1>7
    <3>2. p.edges[f[i]].from = p.edges[f[j]].from /\ p.edges[f[i]].to = p.edges[f[j]].to
      BY <1>6, <1>7, <1>11
    <3>3. QED
      BY <3>1, <3>2, EdgesAre
  <2>2. \A m, n \in 1..Len(in) : f[m] = f[n] => m = n
    <3>. HIDE DEF T, S, in
    <3>1. QED
      BY <1>1, <1>2, <1>3, PlacesDiffer
  <2>3. QED
    BY <1>7, <2>1, <2>2
<1>12. Lists(q, Predecessors(p, v))
  <2>. HIDE DEF q
  <2>1. QED
    BY <1>9, <1>10, <1>11 DEF Lists
<1>13. QED
  BY <1>4, <1>12

-------------------------------------------------------------------------------
(* The segment of a rope.                                                      *)

\* The walk of a rope from its control stage, place by place.
SegmentsUp(path, p, start, drum) ==
  path = [n \in 0..Len(p.order) |->
            IF n = 0 THEN <<start>>
            ELSE LET q == path[n - 1]
                     succs == Forward(p, Last(q))
                 IN  IF Last(q) = drum \/ Len(succs) # 1 THEN q ELSE Append(q, succs[1])]
SegmentWalk(p, start, drum) == CHOOSE path : SegmentsUp(path, p, start, drum)

LEMMA DeriveSegmentIs ==
  ASSUME NEW p, NEW start, NEW drum
  PROVE  DeriveSegment(p, start, drum) =
           LET q == SegmentWalk(p, start, drum)[Len(p.order)]
           IN  IF Last(q) = drum THEN Front(q) ELSE <<>>
BY DEF DeriveSegment, SegmentWalk, SegmentsUp

LEMMA SegmentWalkIs ==
  ASSUME NEW V, NEW p \in Pipelines(V), NEW start \in Nodes(p), NEW drum
  PROVE  LET w == SegmentWalk(p, start, drum)
         IN  /\ w \in [0..Len(p.order) -> Seq(Nodes(p)) \ {<<>>}]
             /\ w[0] = <<start>>
             /\ \A n \in 1..Len(p.order) :
                  w[n] = IF Last(w[n - 1]) = drum \/ Len(Forward(p, Last(w[n - 1]))) # 1 THEN w[n - 1]
                         ELSE Append(w[n - 1], Forward(p, Last(w[n - 1]))[1])
<1>. DEFINE S == Seq(Nodes(p)) \ {<<>>}
            N == Len(p.order)
            after(q) == IF Last(q) = drum \/ Len(Forward(p, Last(q))) # 1 THEN q
                        ELSE Append(q, Forward(p, Last(q))[1])
            step == [a \in Nat \X S |-> after(a[2])]
            w == SegmentWalk(p, start, drum)
<1>1. N \in Nat /\ <<start>> \in S
  BY PipelineIs
<1>2. ASSUME NEW q \in S PROVE after(q) \in S
  <2>1. Lists(Forward(p, Last(q)), Successors(p, Last(q)))
    BY ForwardLists
  <2>2. Len(Forward(p, Last(q))) = 1 => Forward(p, Last(q))[1] \in Nodes(p)
    BY <2>1, ListsOne DEF Successors
  <2>3. ASSUME NEW x \in Nodes(p) PROVE Append(q, x) \in S
    <3>1. Append(q, x) \in Seq(Nodes(p)) /\ Len(Append(q, x)) = Len(q) + 1 /\ Len(q) \in Nat
      OBVIOUS
    <3>2. Append(q, x) # <<>>
      BY <3>1
    <3>3. QED
      BY <3>1, <3>2
  <2>4. QED
    BY <2>2, <2>3
<1>3. step \in [Nat \X S -> S]
  <2>. HIDE DEF S, after
  <2>1. QED
    BY <1>2
<1>4. PICK g \in [0..N -> S] : IteratesFrom(g, step, <<start>>, N)
  <2>. HIDE DEF S, step, N
  <2>1. QED
    BY <1>1, <1>3, IterationExists
<1>5. \A n \in 1..N : step[<<n, g[n - 1]>>] = after(g[n - 1])
  <2>1. \A n \in 1..N : n \in Nat /\ n - 1 \in 0..N
    BY <1>1
  <2>. HIDE DEF S, after, N
  <2>2. QED
    BY <2>1, <1>4
<1>6. SegmentsUp(g, p, start, drum)
  <2>1. g = [n \in 0..N |-> IF n = 0 THEN <<start>> ELSE step[<<n, g[n - 1]>>]]
    BY <1>4 DEF IteratesFrom
  <2>2. g = [n \in 0..N |-> IF n = 0 THEN <<start>> ELSE after(g[n - 1])]
    <3>1. \A n \in 0..N : n # 0 => n \in 1..N
      BY <1>1
    <3>. HIDE DEF after, step, N
    <3>2. QED
      BY <1>5, <2>1, <3>1
  <2>3. QED
    BY <2>2 DEF SegmentsUp
<1>7. SegmentsUp(w, p, start, drum)
  BY <1>6 DEF SegmentWalk
<1>8. w = [n \in 0..N |-> IF n = 0 THEN <<start>> ELSE after(w[n - 1])]
  BY <1>7 DEF SegmentsUp
<1>9. DOMAIN w = 0..N /\ w[0] = <<start>> /\ \A n \in 1..N : w[n] = after(w[n - 1])
  <2>1. 0 \in 0..N /\ \A n \in 1..N : n \in 0..N /\ n # 0
    BY <1>1
  <2>. HIDE DEF w, after, N
  <2>2. QED
    BY <1>8, <2>1
<1>10. \A n \in 0..N : w[n] \in S
  <2>. HIDE DEF w, after, S
  <2>. DEFINE B == {n \in 0..N : w[n] \notin S}
  <2>1. SUFFICES ASSUME B # {} PROVE FALSE
    OBVIOUS
  <2>2. B \in SUBSET Nat
    BY <1>1
  <2>3. PICK n \in B : \A m \in B : n <= m
    BY <2>1, <2>2, SmallestNumber
  <2>4. n # 0 /\ n \in 1..N /\ n - 1 \in 0..N /\ n - 1 \notin B
    BY <1>1, <1>9, <2>3
  <2>5. QED
    BY <1>2, <1>9, <2>3, <2>4
<1>11. w \in [0..N -> S]
  <2>. HIDE DEF w, S
  <2>1. w = [n \in 0..N |-> w[n]]
    BY <1>8 DEF w
  <2>2. QED
    BY <1>10, <2>1
<1>12. QED
  BY <1>9, <1>11

\* Each stage of a chain feeds the next one and nothing else, and only the last
\* may be the drum.
Chain(p, q, drum) ==
  /\ q \in Seq(Nodes(p)) /\ q # <<>>
  /\ \A i \in 1..(Len(q) - 1) : q[i] # drum /\ Successors(p, q[i]) = {q[i + 1]}

Stopped(p, q, drum) == Last(q) = drum \/ ~\E x : Successors(p, Last(q)) = {x}

LEMMA SingleSuccessor ==
  ASSUME NEW V, NEW p \in Pipelines(V), NEW v
  PROVE  /\ Len(Forward(p, v)) # 1 <=> ~\E x : Successors(p, v) = {x}
         /\ Len(Forward(p, v)) = 1 => Successors(p, v) = {Forward(p, v)[1]} /\ Forward(p, v)[1] \in Nodes(p)
<1>. DEFINE q == Forward(p, v)
            R == Successors(p, v)
<1>1. Lists(q, R) /\ R \subseteq Nodes(p)
  BY ForwardLists DEF Successors
<1>. HIDE DEF q, R
<1>2. Len(q) = 1 => R = {q[1]} /\ q[1] \in R
  BY <1>1, ListsOne
<1>3. \A x : R = {x} => Len(q) = 1
  BY <1>1, ListsOne
<1>4. /\ Len(q) # 1 <=> ~\E x : R = {x}
      /\ Len(q) = 1 => R = {q[1]} /\ q[1] \in Nodes(p)
  BY <1>1, <1>2, <1>3
<1>5. QED
  BY <1>4 DEF q, R

LEMMA WalkChains ==
  ASSUME NEW V, NEW p \in Pipelines(V), NEW start \in Nodes(p), NEW drum,
         NEW n \in 0..Len(p.order)
  PROVE  LET q == SegmentWalk(p, start, drum)[n]
         IN  Chain(p, q, drum) /\ q[1] = start /\ (Len(q) = n + 1 \/ Stopped(p, q, drum))
<1>. DEFINE N == Len(p.order)
            w == SegmentWalk(p, start, drum)
            Good(m) == /\ Chain(p, w[m], drum) /\ w[m][1] = start
                       /\ Len(w[m]) = m + 1 \/ Stopped(p, w[m], drum)
            B == {m \in 0..N : ~Good(m)}
<1>1. SUFFICES ASSUME B # {} PROVE FALSE
  OBVIOUS
<1>2. N \in Nat
  BY PipelineIs
<1>3. /\ w \in [0..N -> Seq(Nodes(p)) \ {<<>>}] /\ w[0] = <<start>>
      /\ \A m \in 1..N : w[m] = IF Last(w[m - 1]) = drum \/ Len(Forward(p, Last(w[m - 1]))) # 1 THEN w[m - 1]
                                ELSE Append(w[m - 1], Forward(p, Last(w[m - 1]))[1])
  BY SegmentWalkIs
<1>. HIDE DEF w, N
<1>4. PICK m \in B : \A k \in B : m <= k
  <2>1. B \in SUBSET Nat
    BY <1>2
  <2>. HIDE DEF B
  <2>2. QED
    BY <1>1, <2>1, SmallestNumber
<1>5. m \in 0..N /\ ~Good(m)
  BY <1>4
<1>6. CASE m = 0
  <2>1. Len(<<start>>) = 1 /\ <<start>>[1] = start /\ <<start>> \in Seq(Nodes(p)) /\ <<start>> # <<>>
    OBVIOUS
  <2>2. Chain(p, w[0], drum)
    BY <1>3, <2>1 DEF Chain
  <2>3. QED
    BY <1>3, <1>5, <1>6, <2>1, <2>2
<1>7. CASE m # 0
  <2>. DEFINE q == w[m - 1]
              r == w[m]
              x == Forward(p, Last(q))[1]
  <2>1. m \in 1..N /\ m - 1 \in 0..N /\ m - 1 \notin B
    BY <1>2, <1>4, <1>5, <1>7
  <2>2. Good(m - 1)
    BY <2>1
  <2>3. q \in Seq(Nodes(p)) /\ q # <<>>
    BY <1>3, <2>1
  <2>4. r = IF Last(q) = drum \/ Len(Forward(p, Last(q))) # 1 THEN q ELSE Append(q, x)
    BY <1>3, <2>1
  <2>. DEFINE halts == Last(q) = drum \/ Len(Forward(p, Last(q))) # 1
  <2>5. CASE halts
    <3>1. Stopped(p, q, drum)
      BY <2>5, SingleSuccessor DEF Stopped
    <3>2. QED
      BY <1>5, <2>2, <2>4, <2>5, <3>1
  <2>6. CASE ~halts
    <3>1. Last(q) # drum /\ Successors(p, Last(q)) = {x} /\ x \in Nodes(p)
      BY <2>6, SingleSuccessor
    <3>2. Chain(p, q, drum) /\ q[1] = start /\ Len(q) = (m - 1) + 1
      BY <2>2, <3>1 DEF Stopped
    <3>3. r = Append(q, x)
      BY <2>4, <2>6
    <3>. HIDE DEF q, r, x, halts
    <3>4. /\ r \in Seq(Nodes(p)) /\ Len(r) = Len(q) + 1 /\ r[Len(q) + 1] = x /\ Len(q) \in Nat /\ Len(q) >= 1
          /\ \A i \in 1..Len(q) : r[i] = q[i]
      BY <2>3, <3>1, <3>3
    <3>5. r # <<>>
      BY <3>4
    <3>6. ASSUME NEW i \in 1..(Len(r) - 1)
          PROVE  r[i] # drum /\ Successors(p, r[i]) = {r[i + 1]}
      <4>1. CASE i = Len(q)
        BY <3>1, <3>4, <4>1 DEF Last
      <4>2. CASE i # Len(q)
        <5>1. i \in 1..(Len(q) - 1) /\ i \in 1..Len(q) /\ i + 1 \in 1..Len(q)
          BY <3>4, <4>2
        <5>2. QED
          BY <3>2, <3>4, <5>1 DEF Chain
      <4>3. QED
        BY <4>1, <4>2
    <3>7. Chain(p, r, drum)
      BY <3>4, <3>5, <3>6 DEF Chain
    <3>8. r[1] = start /\ Len(r) = m + 1
      BY <1>2, <2>1, <3>2, <3>4
    <3>9. QED
      BY <1>5, <3>7, <3>8 DEF r
  <2>7. QED
    BY <2>5, <2>6
<1>8. QED
  BY <1>6, <1>7

\* Two ways that meet go on together while neither may turn off.
BothGoOn(p, q, a, r, b, m) ==
  /\ a \in Nat /\ b \in Nat /\ m \in Nat /\ q[a] = r[b]
  /\ \A k \in 0..(m - 1) : /\ Successors(p, q[a + k]) = {q[a + k + 1]}
                            /\ Successors(p, r[b + k]) = {r[b + k + 1]}

LEMMA SameWay ==
  ASSUME NEW p, NEW q, NEW a, NEW r, NEW b, NEW m, BothGoOn(p, q, a, r, b, m)
  PROVE  q[a + m] = r[b + m]
<1>0. /\ a \in Nat /\ b \in Nat /\ m \in Nat /\ q[a] = r[b]
      /\ \A k \in 0..(m - 1) : /\ Successors(p, q[a + k]) = {q[a + k + 1]}
                                /\ Successors(p, r[b + k]) = {r[b + k + 1]}
  BY DEF BothGoOn
<1>. DEFINE B == {k \in 0..m : q[a + k] # r[b + k]}
<1>1. SUFFICES ASSUME B # {} PROVE FALSE
  BY <1>0
<1>2. PICK k \in B : \A j \in B : k <= j
  <2>1. B \in SUBSET Nat
    BY <1>0
  <2>. HIDE DEF B
  <2>2. QED
    BY <1>1, <2>1, SmallestNumber
<1>3. k \in 0..m /\ q[a + k] # r[b + k] /\ k # 0
  BY <1>0, <1>2
<1>4. k - 1 \in 0..(m - 1) /\ k - 1 \in 0..m /\ k - 1 \notin B /\ a + (k - 1) + 1 = a + k /\ b + (k - 1) + 1 = b + k
  BY <1>0, <1>2, <1>3
<1>5. q[a + (k - 1)] = r[b + (k - 1)]
  BY <1>4
<1>6. {q[a + k]} = {r[b + k]}
  BY <1>0, <1>4, <1>5
<1>7. QED
  BY <1>3, <1>6

\* A chain that has come to the drum visits no stage twice.
LEMMA ChainIsShort ==
  ASSUME NEW V, NEW p \in Pipelines(V), NEW drum, NEW q, Chain(p, q, drum), Last(q) = drum
  PROVE  Len(q) <= Len(p.order)
<1>. DEFINE n == Len(q)
<1>1. /\ q \in Seq(Nodes(p)) /\ n \in Nat /\ n >= 1 /\ q[n] = drum
      /\ \A i \in 1..(n - 1) : q[i] # drum /\ Successors(p, q[i]) = {q[i + 1]}
  BY DEF Chain, Last
<1>. HIDE DEF n
<1>2. ASSUME NEW i \in 1..n, NEW j \in 1..n, i < j, q[i] = q[j]
      PROVE  FALSE
  <2>. DEFINE m == n - j
  <2>1. m \in Nat /\ i \in Nat /\ j \in Nat /\ i + m \in 1..(n - 1) /\ j + m = n
    BY <1>1, <1>2
  <2>2. \A k \in 0..(m - 1) : i + k \in 1..(n - 1) /\ j + k \in 1..(n - 1)
    BY <1>1, <1>2
  <2>. HIDE DEF m
  <2>3. \A k \in 0..(m - 1) : /\ Successors(p, q[i + k]) = {q[i + k + 1]}
                              /\ Successors(p, q[j + k]) = {q[j + k + 1]}
    BY <1>1, <2>2
  <2>4. q[i + m] = q[j + m]
    <3>1. m \in Nat /\ i \in Nat /\ j \in Nat /\ q[i] = q[j]
      BY <1>2, <2>1
    <3>2. BothGoOn(p, q, i, q, j, m)
      BY <2>3, <3>1 DEF BothGoOn
    <3>3. QED
      BY <3>2, SameWay
  <2>5. QED
    BY <1>1, <2>1, <2>4
<1>3. \A i, j \in 1..n : q[i] = q[j] => i = j
  BY <1>1, <1>2
<1>4. Lists(q, ToSet(q)) /\ ToSet(q) \subseteq Nodes(p)
  BY <1>1, <1>3 DEF Lists, ToSet, n
<1>5. Cardinality(ToSet(q)) = n
  BY <1>4, ListsCounted DEF n
<1>6. Cardinality(ToSet(q)) <= Cardinality(Nodes(p)) /\ Cardinality(Nodes(p)) = Len(p.order)
  BY <1>4, PipelineIs, FS_Subset
<1>7. QED
  BY <1>5, <1>6 DEF n

\* The edges at a stage, as sets of edges and as sets of stages.
LEMMA EdgesAt ==
  ASSUME NEW V, NEW p \in Pipelines(V), NEW v, NEW x
  PROVE  /\ {e \in Edges(p) : e[1] = v} = {<<v, x>>} <=> Successors(p, v) = {x}
         /\ {e \in Edges(p) : e[2] = v} = {<<x, v>>} <=> Predecessors(p, v) = {x}
<1>1. /\ \A e \in Edges(p) : e = <<e[1], e[2]>>
      /\ \A u, w : <<u, w>> \in Edges(p) => u \in Nodes(p) /\ w \in Nodes(p)
  BY EdgesAre
<1>2. \A y : <<v, y>> \in Edges(p) <=> y \in Successors(p, v)
  BY <1>1 DEF Successors
<1>3. \A y : <<y, v>> \in Edges(p) <=> y \in Predecessors(p, v)
  BY <1>1 DEF Predecessors
<1>4. {e \in Edges(p) : e[1] = v} = {<<v, y>> : y \in Successors(p, v)}
  BY <1>1, <1>2
<1>5. {e \in Edges(p) : e[2] = v} = {<<y, v>> : y \in Predecessors(p, v)}
  BY <1>1, <1>3
<1>6. ASSUME NEW S
      PROVE  /\ {<<v, y>> : y \in S} = {<<v, x>>} <=> S = {x}
             /\ {<<y, v>> : y \in S} = {<<x, v>>} <=> S = {x}
  <2>1. /\ \A y : <<v, y>> \in {<<v, z>> : z \in S} <=> y \in S
        /\ \A y : <<y, v>> \in {<<z, v>> : z \in S} <=> y \in S
    OBVIOUS
  <2>2. ASSUME {<<v, y>> : y \in S} = {<<v, x>>} PROVE S = {x}
    <3>1. \A y : y \in S <=> <<v, y>> \in {<<v, x>>}
      BY <2>1, <2>2
    <3>2. QED
      BY <3>1
  <2>3. ASSUME {<<y, v>> : y \in S} = {<<x, v>>} PROVE S = {x}
    <3>1. \A y : y \in S <=> <<y, v>> \in {<<x, v>>}
      BY <2>1, <2>3
    <3>2. QED
      BY <3>1
  <2>4. S = {x} => {<<v, y>> : y \in S} = {<<v, x>>} /\ {<<y, v>> : y \in S} = {<<x, v>>}
    OBVIOUS
  <2>5. QED
    BY <2>2, <2>3, <2>4
<1>7. QED
  BY <1>4, <1>5, <1>6

OnlyWay(p, s, path) ==
  /\ \A i \in 1..Len(s) : Successors(p, s[i]) = {path[i + 1]}
  /\ \A i \in 2..Len(path) : Predecessors(p, path[i]) = {path[i - 1]}

LEMMA ExclusiveIs ==
  ASSUME NEW V, NEW p \in Pipelines(V), NEW s, NEW drum
  PROVE  Exclusive(p, s, drum) <=> OnlyWay(p, s, Append(s, drum))
<1>. DEFINE path == Append(s, drum)
<1>1. Exclusive(p, s, drum) <=>
        /\ \A i \in 1..Len(s) : {e \in Edges(p) : e[1] = s[i]} = {<<s[i], path[i + 1]>>}
        /\ \A i \in 2..Len(path) : {e \in Edges(p) : e[2] = path[i]} = {<<path[i - 1], path[i]>>}
  BY DEF Exclusive, Edges
<1>2. \A v, x : /\ {e \in Edges(p) : e[1] = v} = {<<v, x>>} <=> Successors(p, v) = {x}
                /\ {e \in Edges(p) : e[2] = v} = {<<x, v>>} <=> Predecessors(p, v) = {x}
  BY EdgesAt
<1>. HIDE DEF path
<1>3. \A i \in 1..Len(s) : {e \in Edges(p) : e[1] = s[i]} = {<<s[i], path[i + 1]>>} <=> Successors(p, s[i]) = {path[i + 1]}
  BY <1>2
<1>4. \A i \in 2..Len(path) : {e \in Edges(p) : e[2] = path[i]} = {<<path[i - 1], path[i]>>}
                                 <=> Predecessors(p, path[i]) = {path[i - 1]}
  BY <1>2
<1>5. Exclusive(p, s, drum) <=> OnlyWay(p, s, path)
  BY <1>1, <1>3, <1>4 DEF OnlyWay
<1>6. QED
  BY <1>5 DEF path

LEMMA InDegreeIs ==
  ASSUME NEW V, NEW p \in Pipelines(V), NEW v
  PROVE  /\ \A u : Predecessors(p, v) = {u} => InDegree(p, v) = 1
         /\ \A u \in Predecessors(p, v) : InDegree(p, v) = 1 => Predecessors(p, v) = {u}
         /\ InDegree(p, v) = 0 <=> Predecessors(p, v) = {}
         /\ IsFiniteSet(Predecessors(p, v)) /\ InDegree(p, v) = Cardinality(Predecessors(p, v))
<1>. DEFINE q == DirectPredecessors(p, v)
            R == Predecessors(p, v)
<1>1. Lists(q, R) /\ InDegree(p, v) = Len(q)
  BY PredecessorsLists DEF InDegree
<1>. HIDE DEF q, R
<1>2. \A u : R = {u} => Len(q) = 1
  BY <1>1, ListsOne
<1>3. \A u \in R : Len(q) = 1 => R = {u}
  BY <1>1, ListsOne
<1>4. Len(q) = 0 <=> R = {}
  BY <1>1, ListsOne
<1>5. IsFiniteSet(R) /\ Len(q) = Cardinality(R)
  BY <1>1, ListsCounted
<1>6. /\ \A u : R = {u} => InDegree(p, v) = 1
      /\ \A u \in R : InDegree(p, v) = 1 => R = {u}
      /\ InDegree(p, v) = 0 <=> R = {}
      /\ IsFiniteSet(R) /\ InDegree(p, v) = Cardinality(R)
  BY <1>1, <1>2, <1>3, <1>4, <1>5
<1>7. QED
  BY <1>6 DEF R

\* What is found is exclusive, and its control stage is the one asked for.
LEMMA FoundIsExclusive ==
  ASSUME NEW V, NEW p \in Pipelines(V), NEW c \in Nodes(p), NEW drum \in Nodes(p),
         ResolveSegment(p, c, drum) # <<>>
  PROVE  LET s == ResolveSegment(p, c, drum)
         IN  /\ s \in Seq(Nodes(p) \ {drum}) /\ Len(s) <= Len(p.order) - 1 /\ s[1] = c
             /\ Exclusive(p, s, drum)
<1>. DEFINE s == ResolveSegment(p, c, drum)
            N == Len(p.order)
            q == SegmentWalk(p, c, drum)[N]
            n == Len(q)
<1>1. /\ DeriveSegment(p, c, drum) = IF Last(q) = drum THEN Front(q) ELSE <<>>
      /\ s = IF ValidSegment(p, drum, DeriveSegment(p, c, drum)) THEN DeriveSegment(p, c, drum) ELSE <<>>
  <2>1. Known(p, c) /\ Known(p, drum)
    BY DEF Known, Nodes
  <2>2. QED
    BY <2>1, DeriveSegmentIs DEF ResolveSegment
<1>2. Last(q) = drum /\ s = Front(q) /\ ValidSegment(p, drum, s) /\ s # <<>>
  <2>. HIDE DEF q
  <2>1. QED
    BY <1>1
<1>3. Chain(p, q, drum) /\ q[1] = c
  <2>1. N \in 0..N
    BY PipelineIs
  <2>2. QED
    BY <2>1, WalkChains
<1>. HIDE DEF s, N, q
<1>4. /\ q \in Seq(Nodes(p)) /\ n \in Nat /\ n >= 1 /\ q[n] = drum
      /\ \A i \in 1..(n - 1) : q[i] # drum /\ Successors(p, q[i]) = {q[i + 1]}
  <2>1. /\ q \in Seq(Nodes(p)) /\ q # <<>>
        /\ \A i \in 1..(Len(q) - 1) : q[i] # drum /\ Successors(p, q[i]) = {q[i + 1]}
    BY <1>3 DEF Chain
  <2>2. Len(q) \in Nat /\ Len(q) >= 1
    BY <2>1
  <2>3. QED
    BY <1>2, <2>1, <2>2 DEF Last
<1>5. s = SubSeq(q, 1, n - 1)
  BY <1>2 DEF Front
<1>6. s \in Seq(Nodes(p)) /\ Len(s) = n - 1 /\ \A i \in 1..(n - 1) : s[i] = q[i]
  BY <1>2, <1>4, FrontIs
<1>7. n - 1 >= 1
  BY <1>2, <1>4, <1>6
<1>8. s \in Seq(Nodes(p) \ {drum}) /\ s[1] = c
  <2>1. \A i \in 1..(n - 1) : s[i] \in Nodes(p) \ {drum}
    BY <1>4, <1>6
  <2>2. s = [i \in 1..(n - 1) |-> s[i]]
    BY <1>6
  <2>3. s \in Seq(Nodes(p) \ {drum})
    BY <1>4, <1>7, <2>1, <2>2
  <2>4. QED
    BY <1>3, <1>4, <1>6, <1>7, <2>3
<1>9. n <= N
  BY <1>2, <1>3, ChainIsShort DEF n, N
<1>. DEFINE path == Append(s, drum)
<1>10. Len(path) = n /\ \A i \in 1..n : path[i] = q[i]
  <2>1. Len(path) = n /\ path[n] = drum /\ \A i \in 1..(n - 1) : path[i] = s[i]
    BY <1>4, <1>6
  <2>2. \A i \in 1..n : i = n \/ i \in 1..(n - 1)
    BY <1>4
  <2>. HIDE DEF path, n
  <2>3. QED
    BY <1>4, <1>6, <2>1, <2>2
<1>. HIDE DEF path
<1>11. \A i \in 1..Len(s) : Successors(p, s[i]) = {path[i + 1]}
  <2>1. \A i \in 1..(n - 1) : i + 1 \in 1..n
    BY <1>4
  <2>2. QED
    BY <1>4, <1>6, <1>10, <2>1
<1>12. ASSUME NEW i \in 2..Len(path)
       PROVE  Predecessors(p, path[i]) = {path[i - 1]}
  <2>1. i - 1 \in 1..(n - 1) /\ i \in 1..n /\ i - 1 \in 1..n /\ (i - 1) + 1 = i
    BY <1>4, <1>10, <1>12
  <2>2. Successors(p, path[i - 1]) = {path[i]}
    BY <1>4, <1>10, <2>1
  <2>3. path[i - 1] \in Predecessors(p, path[i])
    <3>1. path[i] \in Successors(p, path[i - 1])
      BY <2>2
    <3>2. <<path[i - 1], path[i]>> \in Edges(p)
      BY <3>1 DEF Successors
    <3>3. QED
      BY <3>2, EdgesAre DEF Predecessors
  <2>4. InDegree(p, path[i]) = 1
    <3>1. (\A j \in 2..Len(s) : InDegree(p, s[j]) = 1) /\ InDegree(p, drum) = 1
      BY <1>2 DEF ValidSegment
    <3>2. CASE i = n
      BY <1>4, <1>10, <2>1, <3>1, <3>2
    <3>3. CASE i # n
      <4>1. i \in 2..Len(s) /\ path[i] = s[i]
        BY <1>4, <1>6, <1>10, <2>1, <1>12, <3>3
      <4>2. QED
        BY <3>1, <4>1
    <3>4. QED
      BY <3>2, <3>3
  <2>5. QED
    BY <2>3, <2>4, InDegreeIs
<1>13. Exclusive(p, s, drum)
  <2>1. OnlyWay(p, s, path)
    BY <1>11, <1>12 DEF OnlyWay
  <2>2. QED
    BY <2>1, ExclusiveIs DEF path
<1>14. Len(s) <= N - 1
  BY <1>4, <1>6, <1>9, PipelineIs DEF N
<1>15. QED
  BY <1>8, <1>13, <1>14 DEF s, N

\* And whatever is exclusive is found.
LEMMA ExclusiveIsFound ==
  ASSUME NEW V, NEW p \in Pipelines(V), NEW c \in Nodes(p), NEW drum \in Nodes(p),
         NEW t \in Seq(Nodes(p) \ {drum}), t # <<>>, t[1] = c, Len(t) <= Len(p.order) - 1,
         Exclusive(p, t, drum)
  PROVE  ResolveSegment(p, c, drum) = t
<1>. DEFINE s == ResolveSegment(p, c, drum)
            N == Len(p.order)
            q == SegmentWalk(p, c, drum)[N]
            n == Len(q)
            m == Len(t)
            path == Append(t, drum)
<1>1. /\ DeriveSegment(p, c, drum) = IF Last(q) = drum THEN Front(q) ELSE <<>>
      /\ s = IF ValidSegment(p, drum, DeriveSegment(p, c, drum)) THEN DeriveSegment(p, c, drum) ELSE <<>>
  <2>1. Known(p, c) /\ Known(p, drum)
    BY DEF Known, Nodes
  <2>2. QED
    BY <2>1, DeriveSegmentIs DEF ResolveSegment
<1>2. Chain(p, q, drum) /\ q[1] = c /\ (Len(q) = N + 1 \/ Stopped(p, q, drum))
  <2>1. N \in 0..N
    BY PipelineIs
  <2>2. QED
    BY <2>1, WalkChains
<1>3. /\ \A i \in 1..m : Successors(p, t[i]) = {path[i + 1]}
      /\ \A i \in 2..Len(path) : Predecessors(p, path[i]) = {path[i - 1]}
  <2>1. OnlyWay(p, t, Append(t, drum))
    BY ExclusiveIs, Zenon
  <2>2. QED
    BY <2>1 DEF OnlyWay
<1>4. /\ m \in Nat /\ m >= 1 /\ \A i \in 1..m : t[i] \in Nodes(p) /\ t[i] # drum
      /\ path \in Seq(Nodes(p)) /\ Len(path) = m + 1 /\ path[m + 1] = drum /\ \A i \in 1..m : path[i] = t[i]
      /\ SubSeq(path, 1, m) = t /\ m <= N - 1
  <2>1. t \in Seq(Nodes(p))
    OBVIOUS
  <2>2. m \in Nat /\ m >= 1 /\ \A i \in 1..m : t[i] \in Nodes(p) /\ t[i] # drum
    OBVIOUS
  <2>3. /\ path \in Seq(Nodes(p)) /\ Len(path) = m + 1 /\ path[m + 1] = drum /\ \A i \in 1..m : path[i] = t[i]
    BY <2>1
  <2>4. SubSeq(path, 1, m) = t
    BY <2>1, <2>2
  <2>5. QED
    BY <2>2, <2>3, <2>4
<1>. HIDE DEF s, N, q, path
<1>5. /\ q \in Seq(Nodes(p)) /\ n \in Nat /\ n >= 1
      /\ \A i \in 1..(n - 1) : q[i] # drum /\ Successors(p, q[i]) = {q[i + 1]}
  <2>1. /\ q \in Seq(Nodes(p)) /\ q # <<>>
        /\ \A i \in 1..(Len(q) - 1) : q[i] # drum /\ Successors(p, q[i]) = {q[i + 1]}
    BY <1>2 DEF Chain
  <2>2. Len(q) \in Nat /\ Len(q) >= 1
    BY <2>1
  <2>3. QED
    BY <2>1, <2>2
<1>. HIDE DEF m, n
<1>6. ASSUME NEW k \in 1..n, k <= m + 1
      PROVE  q[k] = path[k]
  <2>. DEFINE l == k - 1
  <2>1. l \in Nat /\ 1 + l = k /\ \A j \in 0..(l - 1) : 1 + j \in 1..(n - 1) /\ 1 + j \in 1..m
    BY <1>4, <1>5, <1>6
  <2>2. q[1] = path[1]
    BY <1>2, <1>4
  <2>. HIDE DEF l
  <2>3. \A j \in 0..(l - 1) : /\ Successors(p, q[1 + j]) = {q[1 + j + 1]}
                              /\ Successors(p, path[1 + j]) = {path[1 + j + 1]}
    BY <1>3, <1>4, <1>5, <2>1
  <2>4. BothGoOn(p, q, 1, path, 1, l)
    BY <2>1, <2>2, <2>3 DEF BothGoOn
  <2>5. QED
    BY <2>1, <2>4, SameWay
<1>7. n = m + 1
  <2>1. CASE n > m + 1
    <3>1. m + 1 \in 1..(n - 1) /\ m + 1 \in 1..n
      BY <1>4, <1>5, <2>1
    <3>2. QED
      BY <1>4, <1>5, <1>6, <3>1
  <2>2. CASE n < m + 1
    <3>1. n \in 1..m /\ n \in 1..n /\ n <= m + 1
      BY <1>4, <1>5, <2>2
    <3>2. q[n] = t[n]
      BY <1>4, <1>6, <3>1
    <3>3. Last(q) # drum /\ Successors(p, Last(q)) = {path[n + 1]}
      BY <1>3, <1>4, <3>1, <3>2 DEF Last, n, m
    <3>4. ~Stopped(p, q, drum)
      BY <3>3 DEF Stopped
    <3>5. n = N + 1
      BY <1>2, <3>4 DEF n
    <3>6. N \in Nat
      BY PipelineIs DEF N
    <3>7. QED
      BY <1>4, <2>2, <3>5, <3>6
  <2>3. QED
    BY <1>4, <1>5, <2>1, <2>2
<1>8. q = path
  <2>1. \A k \in 1..n : q[k] = path[k]
    BY <1>6, <1>7
  <2>2. q = [k \in 1..n |-> q[k]] /\ path = [k \in 1..n |-> path[k]]
    BY <1>4, <1>5, <1>7 DEF n
  <2>3. QED
    BY <2>1, <2>2
<1>9. Last(q) = drum /\ Front(q) = t
  <2>1. Len(q) = m + 1 /\ (m + 1) - 1 = m
    BY <1>4, <1>7 DEF n
  <2>2. QED
    BY <1>4, <1>8, <2>1 DEF Last, Front
<1>10. ValidSegment(p, drum, t)
  <2>1. ASSUME NEW i \in 2..m PROVE InDegree(p, t[i]) = 1
    <3>1. i \in 2..Len(path) /\ i \in 1..m
      BY <1>4
    <3>2. Predecessors(p, t[i]) = {path[i - 1]}
      BY <1>3, <1>4, <3>1
    <3>3. QED
      BY <3>2, InDegreeIs
  <2>2. InDegree(p, drum) = 1
    <3>1. m + 1 \in 2..Len(path)
      BY <1>4
    <3>2. Predecessors(p, drum) = {path[(m + 1) - 1]}
      BY <1>3, <1>4, <3>1
    <3>3. QED
      BY <3>2, InDegreeIs
  <2>3. QED
    BY <2>1, <2>2 DEF ValidSegment, m
<1>11. QED
  BY <1>1, <1>9, <1>10 DEF s

(* The segment of a rope, for every pipeline that calls can build, of any  *)
(* size: ResolveSegment returns the way from the control stage into the    *)
(* drum if nothing else enters or leaves it, and an error otherwise        *)
(* (pipeline.go:332-355, rope_controller.go:246-297).                      *)
THEOREM SegmentsAreAlwaysRight ==
  ASSUME NEW V, NEW p \in Pipelines(V)
  PROVE  SegmentsAreRight(p)
<1>1. SUFFICES ASSUME NEW c \in Nodes(p), NEW drum \in Nodes(p)
               PROVE  LET s == ResolveSegment(p, c, drum)
                          chains == {t \in SeqOf(Nodes(p) \ {drum}, Len(p.order) - 1) :
                                       t # <<>> /\ t[1] = c /\ Exclusive(p, t, drum)}
                      IN  IF s = <<>> THEN chains = {} ELSE chains = {s}
  BY DEF SegmentsAreRight, Nodes
<1>. DEFINE s == ResolveSegment(p, c, drum)
            N == Len(p.order)
            chains == {t \in SeqOf(Nodes(p) \ {drum}, N - 1) : t # <<>> /\ t[1] = c /\ Exclusive(p, t, drum)}
<1>2. N \in Nat
  BY PipelineIs
<1>3. \A t : t \in SeqOf(Nodes(p) \ {drum}, N - 1) <=> t \in Seq(Nodes(p) \ {drum}) /\ Len(t) <= N - 1
  BY <1>2, BoundedSequences
<1>4. \A t \in chains : s = t
  BY <1>3, ExclusiveIsFound
<1>5. ASSUME s # <<>> PROVE s \in chains
  BY <1>3, <1>5, FoundIsExclusive
<1>6. \A t \in chains : t # <<>>
  OBVIOUS
<1>. HIDE DEF s, chains
<1>7. IF s = <<>> THEN chains = {} ELSE chains = {s}
  BY <1>4, <1>5, <1>6
<1>8. QED
  BY <1>7 DEF s, chains

-------------------------------------------------------------------------------
(* What the calls do.                                                          *)

\* A pipeline of Pipelines(V), by its fields.
LEMMA PipelineByParts ==
  ASSUME NEW V, NEW f \in BOOLEAN, NEW o \in Seq(V), NEW es \in Seq([from : V, to : V, ratio : Int]),
         \A i, j \in 1..Len(o) : o[i] = o[j] => i = j,
         \A i \in 1..Len(es) : es[i].from \in ToSet(o) /\ es[i].to \in ToSet(o) /\ es[i].from # es[i].to,
         \A i, j \in 1..Len(es) : es[i].from = es[j].from /\ es[i].to = es[j].to => i = j
  PROVE  [frozen |-> f, order |-> o, edges |-> es] \in Pipelines(V)
BY DEF Pipelines, Known

LEMMA PartsOfPipeline ==
  ASSUME NEW V, NEW p \in Pipelines(V)
  PROVE  /\ p = [frozen |-> p.frozen, order |-> p.order, edges |-> p.edges]
         /\ p.frozen \in BOOLEAN /\ p.order \in Seq(V) /\ p.edges \in Seq([from : V, to : V, ratio : Int])
         /\ \A i, j \in 1..Len(p.order) : p.order[i] = p.order[j] => i = j
         /\ \A i \in 1..Len(p.edges) : /\ p.edges[i].from \in ToSet(p.order) /\ p.edges[i].to \in ToSet(p.order)
                                       /\ p.edges[i].from # p.edges[i].to
         /\ \A i, j \in 1..Len(p.edges) :
              p.edges[i].from = p.edges[j].from /\ p.edges[i].to = p.edges[j].to => i = j
<1>1. p \in [frozen : BOOLEAN, order : Seq(V), edges : Seq([from : V, to : V, ratio : Int])]
  BY DEF Pipelines
<1>2. QED
  BY <1>1 DEF Pipelines, Known

\* The calls that build a pipeline lead from one of Pipelines(V) to another: a
\* stage is registered once, an edge joins two registered stages once, and none
\* joins a stage to itself (pipeline.go:60-108).
THEOREM CallsBuildPipelines ==
  ASSUME NEW V
  PROVE  /\ NewPipeline \in Pipelines(V)
         /\ \A p \in Pipelines(V) :
              /\ \A v \in V : AddStage(p, v) \in Pipelines(V)
              /\ \A from, to : \A ratio \in Int : AddEdgeWithRatio(p, from, to, ratio) \in Pipelines(V)
              /\ \A from, to : AddEdge(p, from, to) \in Pipelines(V)
              /\ Freeze(p) \in Pipelines(V)
<1>. DEFINE T == [from : V, to : V, ratio : Int]
<1>1. NewPipeline \in Pipelines(V)
  <2>1. \A i \in 1..Len(<<>>) : FALSE
    OBVIOUS
  <2>2. <<>> \in Seq(V) /\ <<>> \in Seq(T) /\ FALSE \in BOOLEAN
    OBVIOUS
  <2>3. [frozen |-> FALSE, order |-> <<>>, edges |-> <<>>] \in Pipelines(V)
    <3>. DEFINE o == <<>>
                es == <<>>
    <3>1. o \in Seq(V) /\ es \in Seq(T) /\ (\A i \in 1..Len(o) : FALSE) /\ (\A i \in 1..Len(es) : FALSE)
      BY <2>1, <2>2
    <3>2. [frozen |-> FALSE, order |-> o, edges |-> es] \in Pipelines(V)
      <4>. HIDE DEF o, es
      <4>1. QED
        BY <3>1, PipelineByParts
    <3>3. QED
      BY <3>2
  <2>4. QED
    BY <2>3 DEF NewPipeline
<1>2. ASSUME NEW p \in Pipelines(V), NEW v \in V PROVE AddStage(p, v) \in Pipelines(V)
  <2>1. SUFFICES ASSUME ~p.frozen, v \notin ToSet(p.order)
                 PROVE  [p EXCEPT !.order = Append(@, v)] \in Pipelines(V)
    BY DEF AddStage, Known
  <2>. DEFINE o == Append(p.order, v)
  <2>2. /\ p.order \in Seq(V) /\ \A i, j \in 1..Len(p.order) : p.order[i] = p.order[j] => i = j
        /\ \A i \in 1..Len(p.order) : p.order[i] # v
    <3>1. p.order \in Seq(V) /\ \A i, j \in 1..Len(p.order) : p.order[i] = p.order[j] => i = j
      BY PartsOfPipeline
    <3>2. \A i \in 1..Len(p.order) : p.order[i] # v
      BY <2>1, <3>1 DEF ToSet
    <3>3. QED
      BY <3>1, <3>2
  <2>3. o \in Seq(V) /\ \A i, j \in 1..Len(o) : o[i] = o[j] => i = j
    BY <2>2
  <2>4. ToSet(p.order) \subseteq ToSet(o)
    BY <2>2 DEF ToSet
  <2>5. [frozen |-> p.frozen, order |-> o, edges |-> p.edges] \in Pipelines(V)
    <3>. HIDE DEF o
    <3>1. /\ p.frozen \in BOOLEAN /\ p.edges \in Seq(T)
          /\ \A i \in 1..Len(p.edges) : /\ p.edges[i].from \in ToSet(o) /\ p.edges[i].to \in ToSet(o)
                                        /\ p.edges[i].from # p.edges[i].to
          /\ \A i, j \in 1..Len(p.edges) :
               p.edges[i].from = p.edges[j].from /\ p.edges[i].to = p.edges[j].to => i = j
      BY <2>4, PartsOfPipeline
    <3>2. QED
      BY <2>3, <3>1, PipelineByParts
  <2>6. [p EXCEPT !.order = Append(@, v)] = [frozen |-> p.frozen, order |-> o, edges |-> p.edges]
    <3>1. p = [frozen |-> p.frozen, order |-> p.order, edges |-> p.edges]
      BY PartsOfPipeline
    <3>2. QED
      BY <3>1, SMTT(40)
  <2>7. QED
    BY <2>5, <2>6
<1>3. ASSUME NEW p \in Pipelines(V), NEW from, NEW to, NEW ratio \in Int
      PROVE  AddEdgeWithRatio(p, from, to, ratio) \in Pipelines(V)
  <2>. DEFINE x == [from |-> from, to |-> to, ratio |-> ratio]
  <2>1. SUFFICES ASSUME from \in ToSet(p.order), to \in ToSet(p.order), from # to, ~HasEdge(p, from, to)
                 PROVE  [p EXCEPT !.edges = Append(@, x)] \in Pipelines(V)
    BY DEF AddEdgeWithRatio, Known
  <2>. DEFINE es == Append(p.edges, x)
  <2>2. /\ p.edges \in Seq(T)
        /\ \A i \in 1..Len(p.edges) : /\ p.edges[i].from \in ToSet(p.order) /\ p.edges[i].to \in ToSet(p.order)
                                      /\ p.edges[i].from # p.edges[i].to
        /\ \A i, j \in 1..Len(p.edges) :
             p.edges[i].from = p.edges[j].from /\ p.edges[i].to = p.edges[j].to => i = j
        /\ \A i \in 1..Len(p.edges) : ~(p.edges[i].from = from /\ p.edges[i].to = to)
    <3>1. /\ p.edges \in Seq(T)
          /\ \A i \in 1..Len(p.edges) : /\ p.edges[i].from \in ToSet(p.order) /\ p.edges[i].to \in ToSet(p.order)
                                        /\ p.edges[i].from # p.edges[i].to
          /\ \A i, j \in 1..Len(p.edges) :
               p.edges[i].from = p.edges[j].from /\ p.edges[i].to = p.edges[j].to => i = j
      BY PartsOfPipeline
    <3>2. DOMAIN p.edges = 1..Len(p.edges)
      <4>. HIDE DEF T
      <4>1. QED
        BY <3>1
    <3>3. \A i \in 1..Len(p.edges) : ~(p.edges[i].from = from /\ p.edges[i].to = to)
      BY <2>1, <3>2, Zenon DEF HasEdge
    <3>4. QED
      BY <3>1, <3>3
  <2>3. from \in V /\ to \in V
    <3>1. p.order \in Seq(V)
      BY PartsOfPipeline
    <3>2. \A y \in ToSet(p.order) : y \in V
      BY <3>1 DEF ToSet
    <3>3. QED
      BY <2>1, <3>2
  <2>4. x \in T /\ x.from = from /\ x.to = to
    BY <2>3
  <2>5. /\ es \in Seq(T) /\ Len(es) = Len(p.edges) + 1 /\ Len(p.edges) \in Nat /\ es[Len(es)] = x
        /\ \A i \in 1..Len(es) : i # Len(es) => i \in 1..Len(p.edges) /\ es[i] = p.edges[i]
    <3>. HIDE DEF x, T
    <3>1. QED
      BY <2>2, <2>4
  <2>6. /\ \A i \in 1..Len(es) : es[i].from \in ToSet(p.order) /\ es[i].to \in ToSet(p.order) /\ es[i].from # es[i].to
        /\ \A i, j \in 1..Len(es) : es[i].from = es[j].from /\ es[i].to = es[j].to => i = j
    <3>. DEFINE m == Len(es)
    <3>1. es[m].from = from /\ es[m].to = to
      BY <2>4, <2>5
    <3>2. \A i \in 1..m : i # m => i \in 1..Len(p.edges) /\ es[i] = p.edges[i]
      BY <2>5
    <3>. HIDE DEF x, es, m
    <3>3. ASSUME NEW i \in 1..m
          PROVE  es[i].from \in ToSet(p.order) /\ es[i].to \in ToSet(p.order) /\ es[i].from # es[i].to
      <4>1. CASE i = m
        BY <2>1, <3>1, <4>1
      <4>2. CASE i # m
        BY <2>2, <3>2, <4>2
      <4>3. QED
        BY <4>1, <4>2
    <3>4. ASSUME NEW i \in 1..m, NEW j \in 1..m, es[i].from = es[j].from, es[i].to = es[j].to
          PROVE  i = j
      <4>1. CASE i # m /\ j # m
        BY <2>2, <3>2, <3>4, <4>1
      <4>2. CASE i = m /\ j # m
        BY <2>2, <3>1, <3>2, <3>4, <4>2
      <4>3. CASE i # m /\ j = m
        BY <2>2, <3>1, <3>2, <3>4, <4>3
      <4>4. QED
        BY <4>1, <4>2, <4>3
    <3>5. QED
      BY <3>3, <3>4 DEF m
  <2>7. [frozen |-> p.frozen, order |-> p.order, edges |-> es] \in Pipelines(V)
    <3>. HIDE DEF es
    <3>1. /\ p.frozen \in BOOLEAN /\ p.order \in Seq(V)
          /\ \A i, j \in 1..Len(p.order) : p.order[i] = p.order[j] => i = j
      BY PartsOfPipeline
    <3>2. QED
      BY <2>5, <2>6, <3>1, PipelineByParts
  <2>8. [p EXCEPT !.edges = Append(@, x)] = [frozen |-> p.frozen, order |-> p.order, edges |-> es]
    <3>1. p = [frozen |-> p.frozen, order |-> p.order, edges |-> p.edges]
      BY PartsOfPipeline
    <3>2. QED
      BY <3>1, SMTT(40)
  <2>9. QED
    BY <2>7, <2>8
<1>4. ASSUME NEW p \in Pipelines(V) PROVE Freeze(p) \in Pipelines(V)
  <2>. DEFINE q == [p EXCEPT !.frozen = TRUE]
              R == [frozen : BOOLEAN, order : Seq(V), edges : Seq(T)]
  <2>1. p \in R
    BY DEF Pipelines
  <2>2. q \in R /\ q.order = p.order /\ q.edges = p.edges
    <3>. DEFINE A == Seq(V)
                B == Seq(T)
    <3>. HIDE DEF A, B
    <3>1. p \in [frozen : BOOLEAN, order : A, edges : B]
      BY <2>1 DEF A, B
    <3>2. q \in [frozen : BOOLEAN, order : A, edges : B] /\ q.order = p.order /\ q.edges = p.edges
      BY <3>1
    <3>3. QED
      BY <3>2 DEF A, B
  <2>3. q \in Pipelines(V)
    <3>. HIDE DEF q, T
    <3>1. QED
      BY <2>2, PartsOfPipeline DEF Pipelines, Known, T
  <2>4. QED
    BY <2>3 DEF Freeze
<1>5. ASSUME NEW p \in Pipelines(V), NEW from, NEW to PROVE AddEdge(p, from, to) \in Pipelines(V)
  BY <1>3, <1>5 DEF AddEdge
<1>6. QED
  BY <1>1, <1>2, <1>3, <1>4, <1>5

-------------------------------------------------------------------------------
(* Freeze and Kahn's algorithm.                                                *)

\* What reachability means: a stage reaches itself and what its edges lead to,
\* and nothing outside a set that its edges do not leave.
Closed(p, S) == \A u, w : <<u, w>> \in Edges(p) /\ u \in S => w \in S
Reach(p) == ReachIn(DigraphOf(p))

LEMMA ReachIs ==
  ASSUME NEW V, NEW p \in Pipelines(V), NEW u \in Nodes(p)
  PROVE  \A v : v \in Reach(p)[u] <=>
           v \in Nodes(p) /\ \A S \in SUBSET Nodes(p) : Closed(p, S) /\ u \in S => v \in S
<1>. DEFINE G == DigraphOf(p)
            closed == {S \in SUBSET G.node : \A e \in G.edge : e[1] \in S => e[2] \in S}
<1>1. G.node = Nodes(p) /\ G.edge = Edges(p)
  BY PipelineIs DEF Edges
<1>2. Reach(p) = [x \in G.node |-> {v \in G.node : \A S \in closed : x \in S => v \in S}]
  BY DEF Reach, ReachIn
<1>3. ASSUME NEW S \in SUBSET Nodes(p)
      PROVE  S \in closed <=> Closed(p, S)
  <2>1. \A e \in Edges(p) : e = <<e[1], e[2]>>
    BY EdgesAre
  <2>2. (\A e \in Edges(p) : e[1] \in S => e[2] \in S) <=> Closed(p, S)
    BY <2>1 DEF Closed
  <2>3. QED
    BY <1>1, <2>2
<1>. HIDE DEF G, closed
<1>4. \A S \in closed : S \in SUBSET Nodes(p)
  BY <1>1 DEF closed
<1>5. Reach(p)[u] = {v \in G.node : \A S \in closed : u \in S => v \in S}
  BY <1>1, <1>2
<1>6. QED
  BY <1>1, <1>3, <1>4, <1>5

LEMMA ReachFacts ==
  ASSUME NEW V, NEW p \in Pipelines(V)
  PROVE  /\ \A u \in Nodes(p) : u \in Reach(p)[u] /\ Reach(p)[u] \subseteq Nodes(p)
         /\ \A u, v : <<u, v>> \in Edges(p) => v \in Reach(p)[u]
         /\ \A u, v \in Nodes(p) : v \in Reach(p)[u] => Reach(p)[v] \subseteq Reach(p)[u]
         /\ \A S \in SUBSET Nodes(p) : Closed(p, S) => \A u \in S : Reach(p)[u] \subseteq S
<1>1. \A u \in Nodes(p) : u \in Reach(p)[u] /\ Reach(p)[u] \subseteq Nodes(p)
  BY ReachIs
<1>2. ASSUME NEW u, NEW v, <<u, v>> \in Edges(p) PROVE v \in Reach(p)[u]
  <2>1. u \in Nodes(p) /\ v \in Nodes(p)
    BY <1>2, EdgesAre
  <2>2. \A S \in SUBSET Nodes(p) : Closed(p, S) /\ u \in S => v \in S
    BY <1>2 DEF Closed
  <2>3. QED
    BY <2>1, <2>2, ReachIs
<1>3. ASSUME NEW u \in Nodes(p), NEW v \in Nodes(p), v \in Reach(p)[u], NEW w \in Reach(p)[v]
      PROVE  w \in Reach(p)[u]
  <2>1. \A S \in SUBSET Nodes(p) : Closed(p, S) /\ u \in S => v \in S
    BY <1>3, ReachIs
  <2>2. w \in Nodes(p) /\ \A S \in SUBSET Nodes(p) : Closed(p, S) /\ v \in S => w \in S
    BY <1>3, ReachIs
  <2>3. QED
    BY <2>1, <2>2, ReachIs
<1>4. ASSUME NEW S \in SUBSET Nodes(p), Closed(p, S), NEW u \in S, NEW v \in Reach(p)[u]
      PROVE  v \in S
  <2>1. u \in Nodes(p)
    OBVIOUS
  <2>2. QED
    BY <1>4, <2>1, ReachIs
<1>5. QED
  BY <1>1, <1>2, <1>3, <1>4

\* What is selected from a list is a list of what it names and is selected.
LEMMA OnlyLists ==
  ASSUME NEW R, NEW q, Lists(q, R), NEW S
  PROVE  Lists(Only(q, S), R \cap S)
<1>. DEFINE o == Only(q, S)
<1>1. q \in Seq(R) /\ Len(q) \in Nat /\ \A i \in 1..Len(q) : q[i] \in R
  BY ListsIs
<1>2. o \in Seq(R) /\ \E f : Selects(f, o, q, S)
  BY <1>1, OnlyPlaces
<1>3. PICK f : Selects(f, o, q, S)
  BY <1>2
<1>. HIDE DEF o
<1>4. Len(o) \in Nat /\ DOMAIN o = 1..Len(o) /\ o = [i \in 1..Len(o) |-> o[i]]
  BY <1>2
<1>5. \A i \in 1..Len(o) : f[i] \in 1..Len(q) /\ o[i] = q[f[i]] /\ o[i] \in R \cap S
  BY <1>1, <1>3 DEF Selects
<1>6. o \in Seq(R \cap S)
  BY <1>4, <1>5
<1>7. ASSUME NEW x \in R \cap S PROVE \E i \in 1..Len(o) : o[i] = x
  <2>1. PICK k \in 1..Len(q) : q[k] = x
    BY DEF Lists
  <2>2. PICK i \in 1..Len(o) : f[i] = k
    BY <1>3, <2>1 DEF Selects
  <2>3. QED
    BY <1>5, <2>1, <2>2
<1>8. ASSUME NEW i \in 1..Len(o), NEW j \in 1..Len(o), o[i] = o[j] PROVE i = j
  <2>1. f[i] = f[j]
    <3>1. f[i] \in 1..Len(q) /\ f[j] \in 1..Len(q) /\ q[f[i]] = q[f[j]]
      BY <1>5, <1>8
    <3>2. \A a, b \in 1..Len(q) : q[a] = q[b] => a = b
      BY DEF Lists
    <3>3. QED
      BY <3>1, <3>2
  <2>2. QED
    BY <1>1, <1>2, <1>3, <2>1, PlacesDiffer
<1>9. QED
  BY <1>6, <1>7, <1>8 DEF Lists, o

\* Kahn's algorithm, place by place.
TakeFirst(p, n, k) ==
  LET next == Forward(p, k.queue[n])
      left == [v \in DOMAIN k.left |-> k.left[v] - (IF Contains(next, v) THEN 1 ELSE 0)]
  IN  [queue |-> k.queue \o Only(next, {v \in DOMAIN left : left[v] = 0}), left |-> left]
TakenUp(t, p) ==
  t = [n \in 0..Len(p.order) |->
         IF n = 0 THEN [queue |-> Heads(p), left |-> [v \in ToSet(p.order) |-> InDegree(p, v)]]
         ELSE LET k == t[n - 1] IN IF n > Len(k.queue) THEN k ELSE TakeFirst(p, n, k)]
TakenWalk(p) == CHOOSE t : TakenUp(t, p)

LEMMA KahnQueueIs ==
  ASSUME NEW p
  PROVE  KahnQueue(p) = TakenWalk(p)[Len(p.order)].queue
BY DEF KahnQueue, TakenWalk, TakenUp, TakeFirst

LeftAfter(p, n, k) ==
  [v \in Nodes(p) |-> k.left[v] - (IF <<k.queue[n], v>> \in Edges(p) THEN 1 ELSE 0)]
FreedBy(p, n, k) == Only(Forward(p, k.queue[n]), {v \in Nodes(p) : LeftAfter(p, n, k)[v] = 0})

LEMMA TakenState ==
  ASSUME NEW V, NEW p \in Pipelines(V), NEW n \in Nat,
         NEW k \in [queue : Seq(Nodes(p)), left : [Nodes(p) -> Int]], 1 <= n, n <= Len(k.queue)
  PROVE  /\ k.queue[n] \in Nodes(p)
         /\ LeftAfter(p, n, k) \in [Nodes(p) -> Int]
         /\ TakeFirst(p, n, k) = [queue |-> k.queue \o FreedBy(p, n, k), left |-> LeftAfter(p, n, k)]
         /\ Lists(FreedBy(p, n, k), {v \in Successors(p, k.queue[n]) : LeftAfter(p, n, k)[v] = 0})
         /\ TakeFirst(p, n, k) \in [queue : Seq(Nodes(p)), left : [Nodes(p) -> Int]]
<1>. DEFINE u == k.queue[n]
            t == TakeFirst(p, n, k)
            next == Forward(p, u)
            left == [v \in Nodes(p) |-> k.left[v] - (IF <<u, v>> \in Edges(p) THEN 1 ELSE 0)]
            zero == {v \in Nodes(p) : left[v] = 0}
            new == Only(next, zero)
<1>1. k.queue \in Seq(Nodes(p)) /\ k.left \in [Nodes(p) -> Int] /\ DOMAIN k.left = Nodes(p)
  OBVIOUS
<1>2. u \in Nodes(p)
  BY <1>1
<1>3. Lists(next, Successors(p, u))
  BY ForwardLists
<1>4. left \in [Nodes(p) -> Int] /\ DOMAIN left = Nodes(p)
  BY <1>1
<1>5. \A v \in Nodes(p) : Contains(next, v) <=> <<u, v>> \in Edges(p)
  <2>1. \A v : Contains(next, v) <=> \E i \in 1..Len(next) : next[i] = v
    BY DEF Contains
  <2>. HIDE DEF next
  <2>2. \A i \in 1..Len(next) : next[i] \in Successors(p, u)
    BY <1>3, ListsIs
  <2>3. \A v \in Successors(p, u) : \E i \in 1..Len(next) : next[i] = v
    BY <1>3 DEF Lists
  <2>4. QED
    BY <2>1, <2>2, <2>3 DEF Successors
<1>6. [v \in DOMAIN k.left |-> k.left[v] - (IF Contains(next, v) THEN 1 ELSE 0)] = left
  <2>. HIDE DEF next, u
  <2>1. QED
    BY <1>1, <1>5
<1>7. t = [queue |-> k.queue \o new, left |-> left]
  BY <1>4, <1>6, Zenon DEF TakeFirst
<1>8. Lists(new, {v \in Successors(p, u) : left[v] = 0})
  <2>1. Lists(new, Successors(p, u) \cap zero)
    <3>. HIDE DEF next, zero, u
    <3>1. QED
      BY <1>3, OnlyLists
  <2>2. Successors(p, u) \cap zero = {v \in Successors(p, u) : left[v] = 0}
    BY DEF Successors
  <2>3. QED
    BY <2>1, <2>2
<1>9. new \in Seq(Nodes(p))
  <2>. HIDE DEF new, left
  <2>1. new \in Seq({v \in Successors(p, u) : left[v] = 0})
    BY <1>8 DEF Lists
  <2>2. {v \in Successors(p, u) : left[v] = 0} \subseteq Nodes(p)
    BY DEF Successors
  <2>3. QED
    BY <2>1, <2>2
<1>10. t \in [queue : Seq(Nodes(p)), left : [Nodes(p) -> Int]]
  <2>. HIDE DEF new, left, t
  <2>1. k.queue \o new \in Seq(Nodes(p))
    BY <1>1, <1>9
  <2>2. QED
    BY <1>4, <1>7, <2>1
<1>11. LeftAfter(p, n, k) = left /\ FreedBy(p, n, k) = new
  BY DEF LeftAfter, FreedBy
<1>12. QED
  <2>. HIDE DEF left, new, t, u
  <2>1. /\ u \in Nodes(p) /\ LeftAfter(p, n, k) \in [Nodes(p) -> Int]
        /\ t = [queue |-> k.queue \o FreedBy(p, n, k), left |-> LeftAfter(p, n, k)]
        /\ Lists(FreedBy(p, n, k), {v \in Successors(p, u) : LeftAfter(p, n, k)[v] = 0})
        /\ t \in [queue : Seq(Nodes(p)), left : [Nodes(p) -> Int]]
    BY <1>2, <1>4, <1>7, <1>8, <1>10, <1>11
  <2>2. QED
    BY <2>1 DEF t, u

LEMMA HeadsLists ==
  ASSUME NEW V, NEW p \in Pipelines(V)
  PROVE  Lists(Heads(p), {v \in Nodes(p) : Predecessors(p, v) = {}})
<1>. DEFINE S == {v \in ToSet(p.order) : InDegree(p, v) = 0}
<1>1. Lists(p.order, Nodes(p))
  BY PipelineIs
<1>2. Lists(Only(p.order, S), Nodes(p) \cap S)
  <2>. HIDE DEF S
  <2>1. QED
    BY <1>1, OnlyLists
<1>3. \A v : InDegree(p, v) = 0 <=> Predecessors(p, v) = {}
  BY PredecessorsLists, ListsOne DEF InDegree
<1>4. Nodes(p) \cap S = {v \in Nodes(p) : Predecessors(p, v) = {}}
  BY <1>3 DEF Nodes
<1>5. QED
  BY <1>2, <1>4, Zenon DEF Heads

LEMMA TakenWalkIs ==
  ASSUME NEW V, NEW p \in Pipelines(V)
  PROVE  LET t == TakenWalk(p)
             S == [queue : Seq(Nodes(p)), left : [Nodes(p) -> Int]]
         IN  /\ t \in [0..Len(p.order) -> S]
             /\ t[0] = [queue |-> Heads(p), left |-> [v \in Nodes(p) |-> InDegree(p, v)]]
             /\ \A n \in 1..Len(p.order) :
                  t[n] = IF n > Len(t[n - 1].queue) THEN t[n - 1] ELSE TakeFirst(p, n, t[n - 1])
<1>. DEFINE S == [queue : Seq(Nodes(p)), left : [Nodes(p) -> Int]]
            N == Len(p.order)
            first == [queue |-> Heads(p), left |-> [v \in Nodes(p) |-> InDegree(p, v)]]
            after(n, k) == IF n > Len(k.queue) THEN k ELSE TakeFirst(p, n, k)
            step == [a \in Nat \X S |-> IF a[1] = 0 THEN first ELSE after(a[1], a[2])]
            t == TakenWalk(p)
<1>1. N \in Nat /\ first \in S
  <2>1. N \in Nat
    BY PipelineIs
  <2>2. Heads(p) \in Seq(Nodes(p))
    <3>1. Heads(p) \in Seq({v \in Nodes(p) : Predecessors(p, v) = {}})
      BY HeadsLists DEF Lists
    <3>2. QED
      BY <3>1
  <2>3. \A v \in Nodes(p) : InDegree(p, v) \in Int
    BY PredecessorsLists, ListsIs DEF InDegree
  <2>4. QED
    BY <2>1, <2>2, <2>3
<1>2. ASSUME NEW n \in Nat, n # 0, NEW k \in S PROVE after(n, k) \in S
  <2>1. CASE n > Len(k.queue)
    BY <2>1
  <2>2. CASE ~(n > Len(k.queue))
    <3>1. 1 <= n /\ n <= Len(k.queue) /\ k.queue \in Seq(Nodes(p))
      BY <1>2, <2>2
    <3>2. TakeFirst(p, n, k) \in S
      BY <3>1, TakenState
    <3>3. QED
      BY <2>2, <3>2
  <2>3. QED
    BY <2>1, <2>2
<1>3. step \in [Nat \X S -> S]
  <2>. HIDE DEF S, after, first
  <2>1. QED
    BY <1>1, <1>2
<1>4. PICK g \in [0..N -> S] : IteratesFrom(g, step, first, N)
  <2>. HIDE DEF S, step, N, first
  <2>1. QED
    BY <1>1, <1>3, IterationExists
<1>5. \A n \in 1..N : step[<<n, g[n - 1]>>] = after(n, g[n - 1])
  <2>1. \A n \in 1..N : n \in Nat /\ n - 1 \in 0..N /\ n # 0
    BY <1>1
  <2>. HIDE DEF S, after, N, first
  <2>2. QED
    BY <2>1, <1>4
<1>6. TakenUp(g, p)
  <2>1. g = [n \in 0..N |-> IF n = 0 THEN first ELSE step[<<n, g[n - 1]>>]]
    BY <1>4 DEF IteratesFrom
  <2>2. g = [n \in 0..N |-> IF n = 0 THEN first ELSE after(n, g[n - 1])]
    <3>1. \A n \in 0..N : n # 0 => n \in 1..N
      BY <1>1
    <3>. HIDE DEF after, step, N, first
    <3>2. QED
      BY <1>5, <2>1, <3>1
  <2>3. QED
    BY <2>2 DEF TakenUp, Nodes
<1>7. TakenUp(t, p)
  BY <1>6 DEF TakenWalk
<1>8. t = [n \in 0..N |-> IF n = 0 THEN first ELSE after(n, t[n - 1])]
  BY <1>7 DEF TakenUp, Nodes
<1>9. DOMAIN t = 0..N /\ t[0] = first /\ \A n \in 1..N : t[n] = after(n, t[n - 1])
  <2>1. 0 \in 0..N /\ \A n \in 1..N : n \in 0..N /\ n # 0
    BY <1>1
  <2>. HIDE DEF t, after, N, first
  <2>2. QED
    BY <1>8, <2>1
<1>10. \A n \in 0..N : t[n] \in S
  <2>. HIDE DEF t, after, S, first
  <2>. DEFINE B == {n \in 0..N : t[n] \notin S}
  <2>1. SUFFICES ASSUME B # {} PROVE FALSE
    OBVIOUS
  <2>2. B \in SUBSET Nat
    BY <1>1
  <2>3. PICK n \in B : \A m \in B : n <= m
    BY <2>1, <2>2, SmallestNumber
  <2>4. n # 0 /\ n \in Nat /\ n \in 1..N /\ n - 1 \in 0..N /\ n - 1 \notin B
    BY <1>1, <1>9, <2>3
  <2>5. QED
    BY <1>2, <1>9, <2>3, <2>4
<1>11. t \in [0..N -> S]
  <2>. HIDE DEF t, S
  <2>1. t = [n \in 0..N |-> t[n]]
    BY <1>8 DEF t
  <2>2. QED
    BY <1>10, <2>1
<1>12. QED
  BY <1>9, <1>11

\* What Kahn's algorithm keeps: the queue names a stage once, those before which
\* everything was taken and no other; left counts what is still before a stage;
\* and in the queue each stage comes after all that feed it.
Placed(q, n) == {q[j] : j \in {i \in 1..Len(q) : i <= n}}

KahnKeeps(p, n, k) ==
  /\ \A i, j \in 1..Len(k.queue) : k.queue[i] = k.queue[j] => i = j
  /\ \A v \in Nodes(p) : k.left[v] = Cardinality(Predecessors(p, v) \ Placed(k.queue, n))
  /\ \A v \in Nodes(p) : (\E i \in 1..Len(k.queue) : k.queue[i] = v) <=> Predecessors(p, v) \subseteq Placed(k.queue, n)
  /\ \A j \in 1..Len(k.queue) : \A u \in Predecessors(p, k.queue[j]) : \E i \in 1..Len(k.queue) : i < j /\ k.queue[i] = u

LEMMA KahnStarts ==
  ASSUME NEW V, NEW p \in Pipelines(V)
  PROVE  KahnKeeps(p, 0, TakenWalk(p)[0])
<1>. DEFINE q == Heads(p)
            k == TakenWalk(p)[0]
<1>1. k = [queue |-> q, left |-> [v \in Nodes(p) |-> InDegree(p, v)]]
  BY TakenWalkIs
<1>2. k.queue = q /\ \A v \in Nodes(p) : k.left[v] = InDegree(p, v)
  BY <1>1
<1>3. Lists(q, {v \in Nodes(p) : Predecessors(p, v) = {}})
  BY HeadsLists
<1>. HIDE DEF q, k
<1>4. Len(q) \in Nat /\ \A i \in 1..Len(q) : Predecessors(p, q[i]) = {}
  BY <1>3, ListsIs
<1>5. Placed(q, 0) = {}
  BY <1>4 DEF Placed
<1>6. \A v \in Nodes(p) : k.left[v] = Cardinality(Predecessors(p, v) \ Placed(k.queue, 0))
  BY <1>2, <1>5, InDegreeIs
<1>7. \A v \in Nodes(p) : (\E i \in 1..Len(q) : q[i] = v) <=> Predecessors(p, v) = {}
  BY <1>3, <1>4 DEF Lists
<1>8. \A i, j \in 1..Len(q) : q[i] = q[j] => i = j
  BY <1>3 DEF Lists
<1>9. KahnKeeps(p, 0, k)
  BY <1>2, <1>4, <1>5, <1>6, <1>7, <1>8 DEF KahnKeeps
<1>10. QED
  BY <1>9 DEF k

LEMMA KahnStays ==
  ASSUME NEW V, NEW p \in Pipelines(V), NEW n \in Nat, 1 <= n,
         NEW k \in [queue : Seq(Nodes(p)), left : [Nodes(p) -> Int]], KahnKeeps(p, n - 1, k), n > Len(k.queue)
  PROVE  KahnKeeps(p, n, k)
<1>1. Len(k.queue) \in Nat
  OBVIOUS
<1>2. \A i \in 1..Len(k.queue) : i <= n /\ i <= n - 1
  BY <1>1
<1>3. Placed(k.queue, n) = Placed(k.queue, n - 1)
  BY <1>2 DEF Placed
<1>4. QED
  BY <1>3 DEF KahnKeeps

LEMMA KahnTakes ==
  ASSUME NEW V, NEW p \in Pipelines(V), NEW n \in Nat, 1 <= n,
         NEW k \in [queue : Seq(Nodes(p)), left : [Nodes(p) -> Int]], KahnKeeps(p, n - 1, k), n <= Len(k.queue)
  PROVE  KahnKeeps(p, n, TakeFirst(p, n, k))
<1>. DEFINE q == k.queue
            u == q[n]
            left == LeftAfter(p, n, k)
            new == FreedBy(p, n, k)
            t == TakeFirst(p, n, k)
            Q == q \o new
            Z == {v \in Successors(p, u) : left[v] = 0}
            before == Placed(q, n - 1)
            after == Placed(Q, n)
<1>1. u \in Nodes(p) /\ t = [queue |-> Q, left |-> left] /\ Lists(new, Z)
  <2>1. 1 <= n /\ n <= Len(k.queue)
    OBVIOUS
  <2>2. /\ k.queue[n] \in Nodes(p)
        /\ TakeFirst(p, n, k) = [queue |-> k.queue \o FreedBy(p, n, k), left |-> LeftAfter(p, n, k)]
        /\ Lists(FreedBy(p, n, k), {v \in Successors(p, k.queue[n]) : LeftAfter(p, n, k)[v] = 0})
    <3>. HIDE DEF q, u, left, new, t, Q, Z, before, after
    <3>1. k.queue[n] \in Nodes(p)
      BY <2>1, TakenState
    <3>2. TakeFirst(p, n, k) = [queue |-> k.queue \o FreedBy(p, n, k), left |-> LeftAfter(p, n, k)]
      BY <2>1, TakenState
    <3>3. Lists(FreedBy(p, n, k), {v \in Successors(p, k.queue[n]) : LeftAfter(p, n, k)[v] = 0})
      BY <2>1, TakenState, SMTT(40)
    <3>4. QED
      BY <3>1, <3>2, <3>3
  <2>3. QED
    BY <2>2
<1>2. t.queue = Q /\ t.left = left
  BY <1>1
<1>3. \A v \in Nodes(p) : left[v] = k.left[v] - (IF <<u, v>> \in Edges(p) THEN 1 ELSE 0)
  BY DEF LeftAfter
<1>4. q \in Seq(Nodes(p)) /\ n \in 1..Len(q) /\ Len(q) \in Nat
  OBVIOUS
<1>5. new \in Seq(Nodes(p))
  <2>1. Z \subseteq Nodes(p)
    BY DEF Successors
  <2>2. new \in Seq(Z)
    BY <1>1 DEF Lists
  <2>. HIDE DEF new, Z
  <2>3. QED
    BY <2>1, <2>2
<1>. HIDE DEF new, left, t
<1>6. /\ Q \in Seq(Nodes(p)) /\ Len(Q) = Len(q) + Len(new) /\ Len(new) \in Nat
      /\ \A i \in 1..Len(q) : Q[i] = q[i]
      /\ \A i \in 1..Len(new) : Q[Len(q) + i] = new[i]
      /\ \A i \in 1..Len(Q) : i \notin 1..Len(q) => i - Len(q) \in 1..Len(new) /\ Q[i] = new[i - Len(q)]
  <2>. HIDE DEF q
  <2>1. QED
    BY <1>4, <1>5, Joined, SMTT(60)
<1>7. /\ \A i, j \in 1..Len(q) : q[i] = q[j] => i = j
      /\ \A v \in Nodes(p) : k.left[v] = Cardinality(Predecessors(p, v) \ before)
      /\ \A v \in Nodes(p) : (\E i \in 1..Len(q) : q[i] = v) <=> Predecessors(p, v) \subseteq before
      /\ \A j \in 1..Len(q) : \A x \in Predecessors(p, q[j]) : \E i \in 1..Len(q) : i < j /\ q[i] = x
  BY DEF KahnKeeps
<1>. HIDE DEF q, Q
<1>8. after = before \cup {u} /\ u \notin before
  <2>1. \A i \in 1..Len(Q) : i <= n <=> i = n \/ (i \in 1..Len(q) /\ i <= n - 1)
    BY <1>4
  <2>2. \A i \in 1..Len(q) : i \in 1..Len(Q)
    BY <1>4, <1>6
  <2>3. n \in 1..Len(q) /\ Q[n] = u /\ \A i \in 1..Len(q) : Q[i] = q[i]
    BY <1>4, <1>6
  <2>4. after = {Q[j] : j \in {i \in 1..Len(Q) : i <= n}}
    BY DEF Placed
  <2>5. before = {q[j] : j \in {i \in 1..Len(q) : i <= n - 1}}
    BY DEF Placed
  <2>6. after = before \cup {u}
    <3>. HIDE DEF u
    <3>1. QED
      BY <2>1, <2>2, <2>3, <2>4, <2>5
  <2>7. \A j \in 1..Len(q) : j <= n - 1 => q[j] # u
    BY <1>4, <1>7
  <2>8. QED
    BY <2>5, <2>6, <2>7
<1>. HIDE DEF u, before, after
<1>9. \A v \in Nodes(p) : <<u, v>> \in Edges(p) <=> u \in Predecessors(p, v)
  BY <1>1 DEF Predecessors
<1>10. ASSUME NEW v \in Nodes(p)
       PROVE  /\ left[v] = Cardinality(Predecessors(p, v) \ after)
              /\ left[v] = 0 <=> Predecessors(p, v) \subseteq after
              /\ k.left[v] = 0 <=> Predecessors(p, v) \subseteq before
  <2>. DEFINE P == Predecessors(p, v) \ before
  <2>1. IsFiniteSet(P) /\ k.left[v] = Cardinality(P)
    BY <1>7, InDegreeIs, FS_Difference
  <2>2. IsFiniteSet(P \ {u}) /\ (u \in P => Cardinality(P \ {u}) = Cardinality(P) - 1)
    BY <2>1, FS_RemoveElement
  <2>3. P \ {u} = Predecessors(p, v) \ after
    BY <1>8
  <2>4. left[v] = Cardinality(P \ {u})
    <3>1. CASE u \in Predecessors(p, v)
      <4>1. u \in P /\ left[v] = k.left[v] - 1
        BY <1>3, <1>8, <1>9, <3>1
      <4>2. QED
        BY <2>1, <2>2, <4>1
    <3>2. CASE u \notin Predecessors(p, v)
      <4>1. k.left[v] \in Int
        OBVIOUS
      <4>2. P \ {u} = P
        BY <3>2
      <4>3. left[v] = k.left[v] - 0
        BY <1>3, <1>9, <3>2
      <4>4. left[v] = k.left[v]
        BY <4>1, <4>3
      <4>5. QED
        BY <2>1, <4>2, <4>4, Zenon
    <3>3. QED
      BY <3>1, <3>2
  <2>5. (Cardinality(P) = 0 <=> P = {}) /\ (Cardinality(P \ {u}) = 0 <=> P \ {u} = {})
    BY <2>1, <2>2, FS_EmptySet
  <2>6. (P = {} <=> Predecessors(p, v) \subseteq before) /\ (P \ {u} = {} <=> Predecessors(p, v) \subseteq after)
    BY <2>3
  <2>7. QED
    BY <2>1, <2>3, <2>4, <2>5, <2>6
<1>11. \A i \in 1..Len(new) : new[i] \in Nodes(p) /\ u \in Predecessors(p, new[i]) /\ left[new[i]] = 0
  <2>1. \A i \in 1..Len(new) : new[i] \in Z
    BY <1>1, ListsIs
  <2>2. QED
    BY <2>1, <1>9 DEF Successors
<1>12. \A i \in 1..Len(q), j \in 1..Len(new) : q[i] # new[j]
  <2>1. \A i \in 1..Len(q) : q[i] \in Nodes(p) /\ u \notin Predecessors(p, q[i])
    BY <1>4, <1>7, <1>8, SMTT(40)
  <2>2. QED
    BY <1>11, <2>1
<1>13. \A i, j \in 1..Len(new) : new[i] = new[j] => i = j
  BY <1>1 DEF Lists
<1>14. ASSUME NEW i \in 1..Len(Q), NEW j \in 1..Len(Q), Q[i] = Q[j] PROVE i = j
  <2>1. CASE i \in 1..Len(q) /\ j \in 1..Len(q)
    BY <1>6, <1>7, <1>14, <2>1
  <2>2. CASE i \in 1..Len(q) /\ j \notin 1..Len(q)
    BY <1>6, <1>12, <1>14, <2>2, ZenonT(40)
  <2>3. CASE i \notin 1..Len(q) /\ j \in 1..Len(q)
    BY <1>6, <1>12, <1>14, <2>3
  <2>4. CASE i \notin 1..Len(q) /\ j \notin 1..Len(q)
    <3>1. i - Len(q) = j - Len(q)
      BY <1>6, <1>13, <1>14, <2>4, ZenonT(60)
    <3>2. QED
      BY <1>4, <3>1
  <2>5. QED
    BY <2>1, <2>2, <2>3, <2>4
<1>15. ASSUME NEW v \in Nodes(p)
       PROVE  (\E i \in 1..Len(Q) : Q[i] = v) <=> Predecessors(p, v) \subseteq after
  <2>1. ASSUME NEW i \in 1..Len(Q), Q[i] = v PROVE Predecessors(p, v) \subseteq after
    <3>1. CASE i \in 1..Len(q)
      <4>1. Predecessors(p, v) \subseteq before
        BY <1>6, <1>7, <2>1, <3>1
      <4>2. QED
        BY <1>8, <4>1
    <3>2. CASE i \notin 1..Len(q)
      <4>1. i - Len(q) \in 1..Len(new) /\ new[i - Len(q)] = v
        BY <1>6, <2>1, <3>2
      <4>2. left[v] = 0
        BY <1>11, <4>1
      <4>3. QED
        BY <1>10, <4>2
    <3>3. QED
      BY <3>1, <3>2
  <2>2. ASSUME Predecessors(p, v) \subseteq after PROVE \E i \in 1..Len(Q) : Q[i] = v
    <3>1. left[v] = 0
      BY <1>10, <2>2
    <3>2. CASE <<u, v>> \in Edges(p)
      <4>1. v \in Z
        BY <3>1, <3>2 DEF Successors
      <4>2. PICK i \in 1..Len(new) : new[i] = v
        BY <1>1, <4>1 DEF Lists
      <4>3. Len(q) + i \in 1..Len(Q)
        <5>1. \A a, b \in Nat : \A c \in 1..b : a + c \in 1..(a + b)
          OBVIOUS
        <5>2. QED
          BY <1>4, <1>6, <5>1
      <4>4. Q[Len(q) + i] = v
        BY <1>6, <4>2
      <4>5. QED
        BY <4>3, <4>4
    <3>3. CASE <<u, v>> \notin Edges(p)
      <4>1. Predecessors(p, v) \subseteq before
        BY <1>8, <1>9, <2>2, <3>3
      <4>2. PICK i \in 1..Len(q) : q[i] = v
        BY <1>7, <4>1
      <4>3. i \in 1..Len(Q)
        <5>1. \A a, b \in Nat : \A c \in 1..a : c \in 1..(a + b)
          OBVIOUS
        <5>2. QED
          BY <1>4, <1>6, <5>1
      <4>4. Q[i] = v
        BY <1>6, <4>2
      <4>5. QED
        BY <4>3, <4>4
    <3>4. QED
      BY <3>2, <3>3
  <2>3. QED
    BY <2>1, <2>2
<1>16. ASSUME NEW j \in 1..Len(Q), NEW x \in Predecessors(p, Q[j])
       PROVE  \E i \in 1..Len(Q) : i < j /\ Q[i] = x
  <2>1. CASE j \in 1..Len(q)
    <3>1. PICK i \in 1..Len(q) : i < j /\ q[i] = x
      BY <1>6, <1>7, <2>1
    <3>2. i \in 1..Len(Q) /\ Q[i] = x
      BY <1>4, <1>6, <3>1, SMTT(40)
    <3>3. QED
      BY <3>1, <3>2
  <2>2. CASE j \notin 1..Len(q)
    <3>1. Q[j] \in Nodes(p) /\ left[Q[j]] = 0
      <4>1. j - Len(q) \in 1..Len(new) /\ Q[j] = new[j - Len(q)]
        BY <1>6, <2>2
      <4>2. QED
        BY <1>11, <4>1
    <3>2. x \in after
      BY <1>10, <3>1
    <3>3. PICK i \in 1..Len(Q) : i <= n /\ Q[i] = x
      BY <3>2 DEF after, Placed
    <3>4. i < j
      BY <1>4, <2>2, <3>3
    <3>5. QED
      BY <3>3, <3>4
  <2>3. QED
    BY <2>1, <2>2
<1>17. \A v \in Nodes(p) : left[v] = Cardinality(Predecessors(p, v) \ after)
  BY <1>10
<1>18. KahnKeeps(p, n, t)
  <2>1. \A i, j \in 1..Len(t.queue) : t.queue[i] = t.queue[j] => i = j
    BY <1>2, <1>14
  <2>2. \A v \in Nodes(p) : t.left[v] = Cardinality(Predecessors(p, v) \ Placed(t.queue, n))
    BY <1>2, <1>17 DEF after
  <2>3. \A v \in Nodes(p) : (\E i \in 1..Len(t.queue) : t.queue[i] = v) <=> Predecessors(p, v) \subseteq Placed(t.queue, n)
    BY <1>2, <1>15, Zenon DEF after
  <2>4. \A j \in 1..Len(t.queue) : \A x \in Predecessors(p, t.queue[j]) : \E i \in 1..Len(t.queue) : i < j /\ t.queue[i] = x
    BY <1>2, <1>16, ZenonT(60)
  <2>5. QED
    BY <2>1, <2>2, <2>3, <2>4 DEF KahnKeeps
<1>19. QED
  BY <1>18 DEF t

LEMMA KahnResult ==
  ASSUME NEW V, NEW p \in Pipelines(V)
  PROVE  LET q == KahnQueue(p)
         IN  /\ Lists(q, ToSet(q)) /\ ToSet(q) \subseteq Nodes(p)
             /\ \A v \in Nodes(p) : v \in ToSet(q) <=> Predecessors(p, v) \subseteq ToSet(q)
             /\ \A j \in 1..Len(q) : \A u \in Predecessors(p, q[j]) : \E i \in 1..Len(q) : i < j /\ q[i] = u
<1>. DEFINE N == Len(p.order)
            t == TakenWalk(p)
            S == [queue : Seq(Nodes(p)), left : [Nodes(p) -> Int]]
            q == t[N].queue
<1>1. N \in Nat /\ N = Cardinality(Nodes(p)) /\ IsFiniteSet(Nodes(p))
  BY PipelineIs
<1>2. t \in [0..N -> S] /\ \A n \in 1..N : t[n] = IF n > Len(t[n - 1].queue) THEN t[n - 1] ELSE TakeFirst(p, n, t[n - 1])
  BY TakenWalkIs
<1>3. KahnKeeps(p, 0, t[0])
  BY KahnStarts
<1>. HIDE DEF t
<1>4. \A n \in 0..N : KahnKeeps(p, n, t[n])
  <2>. DEFINE B == {n \in 0..N : ~KahnKeeps(p, n, t[n])}
  <2>1. SUFFICES ASSUME B # {} PROVE FALSE
    OBVIOUS
  <2>2. B \in SUBSET Nat
    BY <1>1
  <2>3. PICK n \in B : \A m \in B : n <= m
    BY <2>1, <2>2, SmallestNumber
  <2>4. n # 0 /\ n \in Nat /\ 1 <= n /\ n \in 1..N /\ n - 1 \in 0..N /\ n - 1 \notin B
    BY <1>1, <1>3, <2>3
  <2>5. t[n - 1] \in S /\ KahnKeeps(p, n - 1, t[n - 1]) /\ Len(t[n - 1].queue) \in Nat
    <3>1. t[n - 1] \in S /\ KahnKeeps(p, n - 1, t[n - 1])
      BY <1>2, <2>4
    <3>2. QED
      BY <3>1
  <2>6. CASE n > Len(t[n - 1].queue)
    <3>1. KahnKeeps(p, n, t[n - 1])
      BY <2>4, <2>5, <2>6, KahnStays
    <3>2. t[n] = t[n - 1]
      BY <1>2, <2>4, <2>6
    <3>3. QED
      BY <2>3, <3>1, <3>2
  <2>7. CASE ~(n > Len(t[n - 1].queue))
    <3>1. n <= Len(t[n - 1].queue)
      BY <2>4, <2>5, <2>7
    <3>2. KahnKeeps(p, n, TakeFirst(p, n, t[n - 1]))
      BY <2>4, <2>5, <3>1, KahnTakes
    <3>3. t[n] = TakeFirst(p, n, t[n - 1])
      BY <1>2, <2>4, <2>7
    <3>4. QED
      BY <2>3, <3>2, <3>3
  <2>8. QED
    BY <2>6, <2>7
<1>5. KahnKeeps(p, N, t[N]) /\ t[N] \in S
  BY <1>1, <1>2, <1>4
<1>6. q \in Seq(Nodes(p))
  BY <1>5
<1>7. /\ \A i, j \in 1..Len(q) : q[i] = q[j] => i = j
      /\ \A v \in Nodes(p) : (\E i \in 1..Len(q) : q[i] = v) <=> Predecessors(p, v) \subseteq Placed(q, N)
      /\ \A j \in 1..Len(q) : \A u \in Predecessors(p, q[j]) : \E i \in 1..Len(q) : i < j /\ q[i] = u
  BY <1>5 DEF KahnKeeps
<1>8. KahnQueue(p) = q
  BY KahnQueueIs DEF t
<1>. HIDE DEF q
<1>9. /\ Lists(q, ToSet(q)) /\ ToSet(q) \subseteq Nodes(p)
      /\ \A v : v \in ToSet(q) <=> \E i \in 1..Len(q) : q[i] = v
      /\ Len(q) \in Nat
  BY <1>6, <1>7 DEF Lists, ToSet
<1>10. Len(q) <= N
  BY <1>1, <1>9, ListsCounted, FS_Subset
<1>11. Placed(q, N) = ToSet(q)
  <2>1. \A i \in 1..Len(q) : i <= N
    BY <1>1, <1>9, <1>10
  <2>2. DOMAIN q = 1..Len(q)
    BY <1>6
  <2>3. QED
    BY <2>1, <2>2 DEF Placed, ToSet
<1>12. /\ Lists(q, ToSet(q)) /\ ToSet(q) \subseteq Nodes(p)
       /\ \A v \in Nodes(p) : v \in ToSet(q) <=> Predecessors(p, v) \subseteq ToSet(q)
       /\ \A j \in 1..Len(q) : \A u \in Predecessors(p, q[j]) : \E i \in 1..Len(q) : i < j /\ q[i] = u
  BY <1>7, <1>9, <1>11
<1>13. QED
  BY <1>8, <1>12

\* There is no way back along an edge.
Acyclic(p) == \A u, v : <<u, v>> \in Edges(p) => u \notin Reach(p)[v]

LEMMA NumberedIsAcyclic ==
  ASSUME NEW V, NEW p \in Pipelines(V), NEW q, Lists(q, Nodes(p)),
         \A j \in 1..Len(q) : \A u \in Predecessors(p, q[j]) : \E i \in 1..Len(q) : i < j /\ q[i] = u
  PROVE  Acyclic(p)
<1>1. SUFFICES ASSUME NEW u, NEW v, <<u, v>> \in Edges(p), u \in Reach(p)[v] PROVE FALSE
  BY DEF Acyclic
<1>2. Len(q) \in Nat /\ \A i \in 1..Len(q) : q[i] \in Nodes(p)
  BY ListsIs
<1>3. \A i, j \in 1..Len(q) : q[i] = q[j] => i = j
  BY DEF Lists
<1>4. ASSUME NEW x, NEW y, <<x, y>> \in Edges(p), NEW j \in 1..Len(q), q[j] = y
      PROVE  \E i \in 1..Len(q) : i < j /\ q[i] = x
  <2>1. x \in Predecessors(p, q[j])
    BY <1>4, EdgesAre DEF Predecessors
  <2>2. QED
    BY <2>1
<1>5. u \in Nodes(p) /\ v \in Nodes(p)
  BY <1>1, EdgesAre
<1>6. PICK a \in 1..Len(q) : q[a] = v
  BY <1>5 DEF Lists
<1>. DEFINE S == {q[i] : i \in {j \in 1..Len(q) : j >= a}}
<1>7. S \in SUBSET Nodes(p) /\ v \in S
  BY <1>2, <1>6
<1>8. Closed(p, S)
  <2>1. SUFFICES ASSUME NEW x, NEW y, <<x, y>> \in Edges(p), x \in S PROVE y \in S
    BY DEF Closed
  <2>2. PICK i \in 1..Len(q) : i >= a /\ q[i] = x
    BY <2>1
  <2>3. y \in Nodes(p)
    BY <2>1, EdgesAre
  <2>4. PICK j \in 1..Len(q) : q[j] = y
    BY <2>3 DEF Lists
  <2>5. PICK h \in 1..Len(q) : h < j /\ q[h] = x
    BY <1>4, <2>1, <2>4
  <2>6. h = i
    BY <1>3, <2>2, <2>5
  <2>7. j >= a
    BY <1>2, <2>2, <2>5, <2>6
  <2>8. QED
    BY <2>4, <2>7
<1>9. u \in S
  <2>. HIDE DEF S
  <2>1. QED
    BY <1>1, <1>7, <1>8, ReachFacts
<1>10. PICK i \in 1..Len(q) : i >= a /\ q[i] = u
  BY <1>9
<1>11. PICK h \in 1..Len(q) : h < a /\ q[h] = u
  BY <1>1, <1>4, <1>6
<1>12. h = i
  BY <1>3, <1>10, <1>11
<1>13. QED
  BY <1>2, <1>10, <1>11, <1>12

\* Without a cycle, in every set of stages there is one that none of them feeds.
LEMMA AcyclicHasFirst ==
  ASSUME NEW V, NEW p \in Pipelines(V), Acyclic(p), NEW R \in SUBSET Nodes(p), R # {}
  PROVE  \E v \in R : Predecessors(p, v) \cap R = {}
<1>. DEFINE A(v) == {u \in Nodes(p) : v \in Reach(p)[u]}
            B == {A(v) : v \in R}
<1>1. IsFiniteSet(Nodes(p)) /\ B \in SUBSET SUBSET Nodes(p) /\ B # {}
  <2>1. IsFiniteSet(Nodes(p))
    BY PipelineIs
  <2>2. \A v \in R : A(v) \in SUBSET Nodes(p)
    OBVIOUS
  <2>. HIDE DEF A
  <2>3. B \in SUBSET SUBSET Nodes(p) /\ B # {}
    BY <2>2
  <2>4. QED
    BY <2>1, <2>3
<1>2. PICK T \in B : \A U \in B : U \subseteq T => U = T
  <2>. HIDE DEF B
  <2>1. QED
    BY <1>1, SmallestSet
<1>3. PICK v \in R : T = A(v)
  BY <1>2
<1>4. ASSUME NEW u \in Predecessors(p, v), u \in R PROVE FALSE
  <2>1. <<u, v>> \in Edges(p) /\ u \in Nodes(p) /\ v \in Nodes(p)
    BY DEF Predecessors
  <2>2. v \in Reach(p)[u] /\ v \in Reach(p)[v] /\ \A x, y \in Nodes(p) : y \in Reach(p)[x] => Reach(p)[y] \subseteq Reach(p)[x]
    BY <2>1, ReachFacts
  <2>3. A(u) \subseteq A(v)
    BY <2>1, <2>2
  <2>4. A(u) = A(v)
    BY <1>2, <1>3, <1>4, <2>3, ZenonT(60)
  <2>5. v \in A(u)
    BY <2>1, <2>2, <2>4
  <2>6. u \in Reach(p)[v]
    BY <2>5
  <2>7. QED
    BY <2>1, <2>6 DEF Acyclic
<1>5. QED
  BY <1>4

\* Kahn's queue holds every stage exactly when there is no cycle.
LEMMA KahnDecides ==
  ASSUME NEW V, NEW p \in Pipelines(V)
  PROVE  Len(KahnQueue(p)) = Len(p.order) <=> Acyclic(p)
<1>. DEFINE q == KahnQueue(p)
<1>1. /\ Lists(q, ToSet(q)) /\ ToSet(q) \subseteq Nodes(p)
      /\ \A v \in Nodes(p) : v \in ToSet(q) <=> Predecessors(p, v) \subseteq ToSet(q)
      /\ \A j \in 1..Len(q) : \A u \in Predecessors(p, q[j]) : \E i \in 1..Len(q) : i < j /\ q[i] = u
  BY KahnResult
<1>. HIDE DEF q
<1>2. /\ IsFiniteSet(ToSet(q)) /\ Cardinality(ToSet(q)) = Len(q)
      /\ IsFiniteSet(Nodes(p)) /\ Cardinality(Nodes(p)) = Len(p.order)
  BY <1>1, ListsCounted, PipelineIs
<1>3. ASSUME Len(q) = Len(p.order) PROVE Acyclic(p)
  <2>1. ToSet(q) = Nodes(p)
    BY <1>1, <1>2, <1>3, FS_Subset
  <2>2. QED
    BY <1>1, <2>1, NumberedIsAcyclic
<1>4. ASSUME Acyclic(p) PROVE Len(q) = Len(p.order)
  <2>. DEFINE R == Nodes(p) \ ToSet(q)
  <2>1. R = {}
    <3>1. SUFFICES ASSUME R # {} PROVE FALSE
      OBVIOUS
    <3>2. PICK v \in R : Predecessors(p, v) \cap R = {}
      BY <1>4, <3>1, AcyclicHasFirst
    <3>3. Predecessors(p, v) \subseteq ToSet(q)
      BY <3>2 DEF Predecessors
    <3>4. QED
      BY <1>1, <3>2, <3>3
  <2>2. ToSet(q) = Nodes(p)
    BY <1>1, <2>1
  <2>3. QED
    BY <1>2, <2>2
<1>5. QED
  BY <1>3, <1>4 DEF q

\* Freeze accepts a pipeline of any size exactly when it has a stage and no
\* cycle (pipeline.go:114-175).
THEOREM FreezeIsAlwaysRight ==
  ASSUME NEW V, NEW p \in Pipelines(V), ~p.frozen
  PROVE  FreezeIsRight(p)
<1>1. Freeze(p).frozen <=> p.order # <<>> /\ Len(KahnQueue(p)) = Len(p.order)
  <2>1. p \in [frozen : BOOLEAN, order : Seq(V), edges : Seq([from : V, to : V, ratio : Int])]
    BY PipelineIs
  <2>2. [p EXCEPT !.frozen = TRUE].frozen = TRUE
    BY <2>1
  <2>3. QED
    BY <2>2 DEF Freeze
<1>2. Acyclic(p) <=> \A e \in DigraphOf(p).edge : e[1] \notin ReachIn(DigraphOf(p))[e[2]]
  <2>1. \A e \in Edges(p) : e = <<e[1], e[2]>>
    BY EdgesAre
  <2>2. QED
    BY <2>1 DEF Acyclic, Reach, Edges
<1>3. QED
  BY <1>1, <1>2, KahnDecides DEF FreezeIsRight

-------------------------------------------------------------------------------
(* Walks and queries.                                                          *)

\* A walk over the pipeline, place by place.  next lists what comes after a
\* stage, after is the set of it.
LeadsTo(p, next, after) ==
  /\ DOMAIN next = Nodes(p) /\ after \in [Nodes(p) -> SUBSET Nodes(p)]
  /\ \A u \in Nodes(p) : Lists(next[u], after[u])

Walked(next, q, n) == q \o Only(next[q[n]], DOMAIN next \ ToSet(q))
WalkUp(w, p, next, start) ==
  w = [n \in 0..Len(p.order) |->
         IF n = 0 THEN <<start>>
         ELSE LET q == w[n - 1] IN IF n > Len(q) THEN q ELSE Walked(next, q, n)]
WalkSteps(p, next, start) == CHOOSE w : WalkUp(w, p, next, start)

LEMMA WalkIsSteps ==
  ASSUME NEW p, NEW next, NEW start
  PROVE  Walk(p, next, start) = WalkSteps(p, next, start)[Len(p.order)]
BY DEF Walk, WalkSteps, WalkUp, Walked

LEMMA WalkedIs ==
  ASSUME NEW p, NEW next, NEW after, LeadsTo(p, next, after),
         NEW q \in Seq(Nodes(p)), NEW n \in 1..Len(q)
  PROVE  /\ q[n] \in Nodes(p)
         /\ Lists(Only(next[q[n]], DOMAIN next \ ToSet(q)), after[q[n]] \ ToSet(q))
         /\ Only(next[q[n]], DOMAIN next \ ToSet(q)) \in Seq(Nodes(p))
         /\ Walked(next, q, n) \in Seq(Nodes(p))
<1>. DEFINE u == q[n]
            new == Only(next[u], DOMAIN next \ ToSet(q))
<1>1. u \in Nodes(p)
  OBVIOUS
<1>2. Lists(next[u], after[u]) /\ DOMAIN next = Nodes(p) /\ after[u] \subseteq Nodes(p)
  BY <1>1 DEF LeadsTo
<1>3. Lists(new, after[u] \cap (DOMAIN next \ ToSet(q)))
  <2>. HIDE DEF u
  <2>1. QED
    BY <1>2, OnlyLists
<1>4. after[u] \cap (DOMAIN next \ ToSet(q)) = after[u] \ ToSet(q)
  BY <1>2
<1>5. Lists(new, after[u] \ ToSet(q))
  BY <1>3, <1>4
<1>6. new \in Seq(Nodes(p))
  <2>. HIDE DEF new, u
  <2>1. new \in Seq(after[u] \ ToSet(q))
    BY <1>5 DEF Lists
  <2>2. QED
    BY <1>2, <2>1
<1>7. q \o new \in Seq(Nodes(p))
  <2>. HIDE DEF new
  <2>1. QED
    BY <1>6
<1>8. QED
  BY <1>1, <1>5, <1>6, <1>7 DEF Walked

LEMMA WalkStepsAre ==
  ASSUME NEW V, NEW p \in Pipelines(V), NEW next, NEW after, LeadsTo(p, next, after), NEW start \in Nodes(p)
  PROVE  LET w == WalkSteps(p, next, start)
         IN  /\ w \in [0..Len(p.order) -> Seq(Nodes(p))]
             /\ w[0] = <<start>>
             /\ \A n \in 1..Len(p.order) :
                  w[n] = IF n > Len(w[n - 1]) THEN w[n - 1] ELSE Walked(next, w[n - 1], n)
<1>. DEFINE S == Seq(Nodes(p))
            N == Len(p.order)
            first == <<start>>
            go(n, q) == IF n > Len(q) THEN q ELSE Walked(next, q, n)
            step == [a \in Nat \X S |-> IF a[1] = 0 THEN first ELSE go(a[1], a[2])]
            w == WalkSteps(p, next, start)
<1>1. N \in Nat /\ first \in S
  BY PipelineIs
<1>2. ASSUME NEW n \in Nat, n # 0, NEW q \in S PROVE go(n, q) \in S
  <2>1. CASE n > Len(q)
    BY <2>1
  <2>2. CASE ~(n > Len(q))
    <3>1. n \in 1..Len(q)
      BY <1>2, <2>2
    <3>2. Walked(next, q, n) \in S
      BY <3>1, WalkedIs
    <3>3. QED
      BY <2>2, <3>2
  <2>3. QED
    BY <2>1, <2>2
<1>3. step \in [Nat \X S -> S]
  <2>. HIDE DEF S, go, first
  <2>1. QED
    BY <1>1, <1>2
<1>4. PICK g \in [0..N -> S] : IteratesFrom(g, step, first, N)
  <2>. HIDE DEF S, step, N, first
  <2>1. QED
    BY <1>1, <1>3, IterationExists
<1>5. \A n \in 1..N : step[<<n, g[n - 1]>>] = go(n, g[n - 1])
  <2>1. \A n \in 1..N : n \in Nat /\ n - 1 \in 0..N /\ n # 0
    BY <1>1
  <2>. HIDE DEF S, go, N, first
  <2>2. QED
    BY <2>1, <1>4
<1>6. WalkUp(g, p, next, start)
  <2>1. g = [n \in 0..N |-> IF n = 0 THEN first ELSE step[<<n, g[n - 1]>>]]
    BY <1>4 DEF IteratesFrom
  <2>2. g = [n \in 0..N |-> IF n = 0 THEN first ELSE go(n, g[n - 1])]
    <3>1. \A n \in 0..N : n # 0 => n \in 1..N
      BY <1>1
    <3>. HIDE DEF go, step, N, first
    <3>2. QED
      BY <1>5, <2>1, <3>1
  <2>3. QED
    BY <2>2 DEF WalkUp
<1>7. WalkUp(w, p, next, start)
  BY <1>6 DEF WalkSteps
<1>8. w = [n \in 0..N |-> IF n = 0 THEN first ELSE go(n, w[n - 1])]
  BY <1>7 DEF WalkUp
<1>9. DOMAIN w = 0..N /\ w[0] = first /\ \A n \in 1..N : w[n] = go(n, w[n - 1])
  <2>1. 0 \in 0..N /\ \A n \in 1..N : n \in 0..N /\ n # 0
    BY <1>1
  <2>. HIDE DEF w, go, N, first
  <2>2. QED
    BY <1>8, <2>1
<1>10. \A n \in 0..N : w[n] \in S
  <2>. HIDE DEF w, go, S, first
  <2>. DEFINE B == {n \in 0..N : w[n] \notin S}
  <2>1. SUFFICES ASSUME B # {} PROVE FALSE
    OBVIOUS
  <2>2. B \in SUBSET Nat
    BY <1>1
  <2>3. PICK n \in B : \A m \in B : n <= m
    BY <2>1, <2>2, SmallestNumber
  <2>4. n # 0 /\ n \in Nat /\ n \in 1..N /\ n - 1 \in 0..N /\ n - 1 \notin B
    BY <1>1, <1>9, <2>3
  <2>5. QED
    BY <1>2, <1>9, <2>3, <2>4
<1>11. w \in [0..N -> S]
  <2>. HIDE DEF w, S
  <2>1. w = [n \in 0..N |-> w[n]]
    BY <1>8 DEF w
  <2>2. QED
    BY <1>10, <2>1
<1>12. QED
  BY <1>9, <1>11

\* What a walk keeps: it comes to a stage once; what follows a stage it has been
\* through is in it; and a stage comes from an earlier one, all that followed the
\* ones before that is in front of it.
Came(q, after, j) ==
  \E i \in 1..Len(q) : /\ i < j /\ q[j] \in after[q[i]]
                       /\ \A h \in 1..Len(q) : h < i => \A x \in after[q[h]] : \E g \in 1..Len(q) : g < j /\ q[g] = x
WalkKeeps(q, after, start, n) ==
  /\ \A i, j \in 1..Len(q) : q[i] = q[j] => i = j
  /\ Len(q) >= 1 /\ q[1] = start
  /\ \A i \in 1..Len(q) : i <= n => after[q[i]] \subseteq ToSet(q)
  /\ \A j \in 1..Len(q) : j # 1 => Came(q, after, j)

LEMMA WalkTakes ==
  ASSUME NEW p, NEW next, NEW after, LeadsTo(p, next, after), NEW start,
         NEW q \in Seq(Nodes(p)), NEW n \in 1..Len(q), WalkKeeps(q, after, start, n - 1)
  PROVE  WalkKeeps(Walked(next, q, n), after, start, n)
<1>. DEFINE u == q[n]
            new == Only(next[u], DOMAIN next \ ToSet(q))
            Q == q \o new
<1>1. u \in Nodes(p) /\ Lists(new, after[u] \ ToSet(q)) /\ new \in Seq(Nodes(p))
  BY WalkedIs
<1>. HIDE DEF new
<1>2. /\ Q \in Seq(Nodes(p)) /\ Len(Q) = Len(q) + Len(new) /\ Len(q) \in Nat /\ Len(new) \in Nat
      /\ \A i \in 1..Len(q) : Q[i] = q[i]
      /\ \A i \in 1..Len(new) : Q[Len(q) + i] = new[i]
      /\ \A i \in 1..Len(Q) : i \notin 1..Len(q) => i - Len(q) \in 1..Len(new) /\ Q[i] = new[i - Len(q)]
  BY <1>1, Joined
<1>. HIDE DEF Q
<1>3. \A i \in 1..Len(q) : i \in 1..Len(Q)
  BY <1>2
<1>4. \A i \in 1..Len(new) : Len(q) + i \in 1..Len(Q)
  BY <1>2
<1>5. /\ \A i, j \in 1..Len(q) : q[i] = q[j] => i = j
      /\ Len(q) >= 1 /\ q[1] = start
      /\ \A i \in 1..Len(q) : i <= n - 1 => after[q[i]] \subseteq ToSet(q)
      /\ \A j \in 1..Len(q) : j # 1 => Came(q, after, j)
  BY DEF WalkKeeps
<1>6. \A x : x \in ToSet(q) <=> \E i \in 1..Len(q) : q[i] = x
  BY DEF ToSet
<1>7. \A x : x \in ToSet(Q) <=> \E i \in 1..Len(Q) : Q[i] = x
  <2>1. DOMAIN Q = 1..Len(Q)
    BY <1>2
  <2>2. QED
    BY <2>1 DEF ToSet
<1>8. ToSet(q) \subseteq ToSet(Q)
  BY <1>2, <1>3, <1>6, <1>7
<1>9. \A i \in 1..Len(new) : new[i] \in after[u] /\ new[i] \notin ToSet(q)
  BY <1>1, ListsIs
<1>10. ASSUME NEW i \in 1..Len(Q), NEW j \in 1..Len(Q), Q[i] = Q[j] PROVE i = j
  <2>1. CASE i \in 1..Len(q) /\ j \in 1..Len(q)
    BY <1>2, <1>5, <1>10, <2>1
  <2>2. CASE i \in 1..Len(q) /\ j \notin 1..Len(q)
    <3>1. Q[i] \in ToSet(q) /\ Q[j] \notin ToSet(q)
      BY <1>2, <1>6, <1>9, <2>2
    <3>2. QED
      BY <1>10, <3>1
  <2>3. CASE i \notin 1..Len(q) /\ j \in 1..Len(q)
    <3>1. Q[j] \in ToSet(q) /\ Q[i] \notin ToSet(q)
      BY <1>2, <1>6, <1>9, <2>3
    <3>2. QED
      BY <1>10, <3>1
  <2>4. CASE i \notin 1..Len(q) /\ j \notin 1..Len(q)
    <3>1. i - Len(q) \in 1..Len(new) /\ j - Len(q) \in 1..Len(new) /\ new[i - Len(q)] = new[j - Len(q)]
      BY <1>2, <1>10, <2>4
    <3>2. i - Len(q) = j - Len(q)
      BY <1>1, <3>1 DEF Lists
    <3>3. QED
      BY <1>2, <3>2
  <2>5. QED
    BY <2>1, <2>2, <2>3, <2>4
<1>11. after[u] \subseteq ToSet(Q)
  <2>1. SUFFICES ASSUME NEW x \in after[u], x \notin ToSet(q) PROVE x \in ToSet(Q)
    BY <1>8
  <2>2. PICK i \in 1..Len(new) : new[i] = x
    BY <1>1, <2>1 DEF Lists
  <2>3. QED
    BY <1>2, <1>4, <1>7, <2>2
<1>12. ASSUME NEW i \in 1..Len(Q), i <= n PROVE after[Q[i]] \subseteq ToSet(Q)
  <2>1. i \in 1..Len(q) /\ Q[i] = q[i]
    BY <1>2, <1>12
  <2>2. CASE i = n
    BY <1>11, <2>1, <2>2
  <2>3. CASE i # n
    <3>1. i <= n - 1
      BY <1>2, <1>12, <2>3
    <3>2. QED
      BY <1>5, <1>8, <2>1, <3>1
  <2>4. QED
    BY <2>2, <2>3
<1>13. ASSUME NEW j \in 1..Len(Q), j # 1 PROVE Came(Q, after, j)
  <2>1. CASE j \in 1..Len(q)
    <3>1. PICK i \in 1..Len(q) :
            /\ i < j /\ q[j] \in after[q[i]]
            /\ \A h \in 1..Len(q) : h < i => \A x \in after[q[h]] : \E g \in 1..Len(q) : g < j /\ q[g] = x
      BY <1>5, <1>13, <2>1 DEF Came
    <3>2. i \in 1..Len(Q) /\ i < j /\ Q[j] \in after[Q[i]]
      BY <1>2, <1>3, <2>1, <3>1
    <3>3. ASSUME NEW h \in 1..Len(Q), h < i, NEW x \in after[Q[h]]
          PROVE  \E g \in 1..Len(Q) : g < j /\ Q[g] = x
      <4>1. h \in 1..Len(q) /\ Q[h] = q[h]
        BY <1>2, <3>1, <3>3
      <4>2. PICK g \in 1..Len(q) : g < j /\ q[g] = x
        BY <3>1, <3>3, <4>1
      <4>3. g \in 1..Len(Q) /\ Q[g] = x
        BY <1>2, <1>3, <4>2
      <4>4. QED
        BY <4>2, <4>3
    <3>4. QED
      BY <3>2, <3>3 DEF Came
  <2>2. CASE j \notin 1..Len(q)
    <3>1. j > Len(q) /\ j - Len(q) \in 1..Len(new) /\ Q[j] = new[j - Len(q)]
      BY <1>2, <2>2
    <3>2. n \in 1..Len(Q) /\ n < j /\ Q[n] = u
      BY <1>2, <1>3, <3>1
    <3>3. Q[j] \in after[Q[n]]
      BY <1>9, <3>1, <3>2
    <3>4. ASSUME NEW h \in 1..Len(Q), h < n, NEW x \in after[Q[h]]
          PROVE  \E g \in 1..Len(Q) : g < j /\ Q[g] = x
      <4>1. h \in 1..Len(q) /\ Q[h] = q[h] /\ h <= n - 1
        BY <1>2, <3>4
      <4>2. PICK g \in 1..Len(q) : q[g] = x
        BY <1>5, <1>6, <3>4, <4>1
      <4>3. g \in 1..Len(Q) /\ Q[g] = x /\ g < j
        BY <1>2, <1>3, <3>1, <4>2
      <4>4. QED
        BY <4>3
    <3>5. QED
      BY <3>2, <3>3, <3>4 DEF Came
  <2>3. QED
    BY <2>1, <2>2
<1>14. Len(Q) >= 1 /\ Q[1] = start
  BY <1>2, <1>5
<1>15. WalkKeeps(Q, after, start, n)
  BY <1>10, <1>12, <1>13, <1>14 DEF WalkKeeps
<1>16. QED
  BY <1>15 DEF Q, new, Walked

LEMMA WalkResult ==
  ASSUME NEW V, NEW p \in Pipelines(V), NEW next, NEW after, LeadsTo(p, next, after), NEW start \in Nodes(p)
  PROVE  LET q == Walk(p, next, start)
         IN  /\ Lists(q, ToSet(q)) /\ ToSet(q) \subseteq Nodes(p) /\ q \in Seq(Nodes(p))
             /\ Len(q) \in Nat /\ Len(q) >= 1 /\ Len(q) <= Len(p.order) /\ q[1] = start
             /\ \A x \in ToSet(q) : after[x] \subseteq ToSet(q)
             /\ \A j \in 1..Len(q) : j # 1 => Came(q, after, j)
<1>. DEFINE N == Len(p.order)
            t == WalkSteps(p, next, start)
            S == Seq(Nodes(p))
            q == t[N]
<1>1. N \in Nat /\ N = Cardinality(Nodes(p)) /\ IsFiniteSet(Nodes(p))
  BY PipelineIs
<1>2. /\ t \in [0..N -> S] /\ t[0] = <<start>>
      /\ \A n \in 1..N : t[n] = IF n > Len(t[n - 1]) THEN t[n - 1] ELSE Walked(next, t[n - 1], n)
  BY WalkStepsAre
<1>. HIDE DEF t
<1>3. WalkKeeps(t[0], after, start, 0)
  <2>. DEFINE r == <<start>>
  <2>1. Len(r) = 1 /\ r[1] = start /\ \A i \in 1..Len(r) : i = 1
    OBVIOUS
  <2>. HIDE DEF r
  <2>2. WalkKeeps(r, after, start, 0)
    BY <2>1 DEF WalkKeeps
  <2>3. QED
    BY <1>2, <2>2 DEF r
<1>4. \A n \in 0..N : WalkKeeps(t[n], after, start, n)
  <2>. DEFINE B == {n \in 0..N : ~WalkKeeps(t[n], after, start, n)}
  <2>1. SUFFICES ASSUME B # {} PROVE FALSE
    OBVIOUS
  <2>2. B \in SUBSET Nat
    BY <1>1
  <2>3. PICK n \in B : \A m \in B : n <= m
    BY <2>1, <2>2, SmallestNumber
  <2>4. n # 0 /\ n \in Nat /\ 1 <= n /\ n \in 1..N /\ n - 1 \in 0..N /\ n - 1 \notin B
    BY <1>1, <1>3, <2>3
  <2>5. t[n - 1] \in S /\ WalkKeeps(t[n - 1], after, start, n - 1)
    BY <1>2, <2>4
  <2>6. Len(t[n - 1]) \in Nat
    BY <2>5
  <2>7. CASE n > Len(t[n - 1])
    <3>1. \A i \in 1..Len(t[n - 1]) : i <= n - 1
      BY <2>4, <2>6, <2>7
    <3>2. WalkKeeps(t[n - 1], after, start, n)
      BY <2>5, <3>1 DEF WalkKeeps
    <3>3. t[n] = t[n - 1]
      BY <1>2, <2>4, <2>7
    <3>4. QED
      BY <2>3, <3>2, <3>3
  <2>8. CASE ~(n > Len(t[n - 1]))
    <3>1. n \in 1..Len(t[n - 1])
      BY <2>4, <2>6, <2>8
    <3>2. WalkKeeps(Walked(next, t[n - 1], n), after, start, n)
      BY <2>5, <3>1, WalkTakes
    <3>3. t[n] = Walked(next, t[n - 1], n)
      BY <1>2, <2>4, <2>8
    <3>4. QED
      BY <2>3, <3>2, <3>3
  <2>9. QED
    BY <2>7, <2>8
<1>5. WalkKeeps(q, after, start, N) /\ q \in S
  BY <1>1, <1>2, <1>4
<1>6. Walk(p, next, start) = q
  BY WalkIsSteps DEF t
<1>. HIDE DEF q
<1>7. /\ \A i, j \in 1..Len(q) : q[i] = q[j] => i = j
      /\ Len(q) >= 1 /\ q[1] = start
      /\ \A i \in 1..Len(q) : i <= N => after[q[i]] \subseteq ToSet(q)
      /\ \A j \in 1..Len(q) : j # 1 => Came(q, after, j)
  BY <1>5 DEF WalkKeeps
<1>8. /\ Lists(q, ToSet(q)) /\ ToSet(q) \subseteq Nodes(p)
      /\ \A v : v \in ToSet(q) <=> \E i \in 1..Len(q) : q[i] = v
      /\ Len(q) \in Nat
  BY <1>5, <1>7 DEF Lists, ToSet
<1>9. Len(q) <= N
  BY <1>1, <1>8, ListsCounted, FS_Subset
<1>10. \A i \in 1..Len(q) : i <= N
  BY <1>1, <1>8, <1>9
<1>11. \A x \in ToSet(q) : after[x] \subseteq ToSet(q)
  BY <1>7, <1>8, <1>10
<1>12. /\ Lists(q, ToSet(q)) /\ ToSet(q) \subseteq Nodes(p) /\ q \in Seq(Nodes(p))
       /\ Len(q) \in Nat /\ Len(q) >= 1 /\ Len(q) <= N /\ q[1] = start
       /\ \A x \in ToSet(q) : after[x] \subseteq ToSet(q)
       /\ \A j \in 1..Len(q) : j # 1 => Came(q, after, j)
  BY <1>5, <1>7, <1>8, <1>9, <1>11
<1>13. QED
  BY <1>6, <1>12

\* Whatever holds at the start of a walk and goes on from a stage to what comes
\* after it holds all along.
LEMMA AlongTheWalk ==
  ASSUME NEW q, Len(q) \in Nat, NEW after, NEW start, q[1] = start,
         \A j \in 1..Len(q) : j # 1 => Came(q, after, j),
         NEW X, start \in X, \A x \in X : after[x] \subseteq X
  PROVE  \A j \in 1..Len(q) : q[j] \in X
<1>. DEFINE B == {j \in 1..Len(q) : q[j] \notin X}
<1>1. SUFFICES ASSUME B # {} PROVE FALSE
  OBVIOUS
<1>2. B \in SUBSET Nat
  OBVIOUS
<1>3. PICK j \in B : \A m \in B : j <= m
  BY <1>1, <1>2, SmallestNumber
<1>4. j \in 1..Len(q) /\ j # 1
  BY <1>3
<1>5. PICK i \in 1..Len(q) : i < j /\ q[j] \in after[q[i]]
  BY <1>4 DEF Came
<1>6. i \notin B
  BY <1>3, <1>4, <1>5
<1>7. QED
  BY <1>3, <1>5, <1>6

\* Downwards a walk comes to what the start reaches, upwards to what reaches it.
Down(p) == [u \in Nodes(p) |-> Successors(p, u)]
Up(p) == [u \in Nodes(p) |-> Predecessors(p, u)]

LEMMA BothWays ==
  ASSUME NEW V, NEW p \in Pipelines(V)
  PROVE  /\ LeadsTo(p, [u \in ToSet(p.order) |-> Forward(p, u)], Down(p))
         /\ LeadsTo(p, [u \in ToSet(p.order) |-> DirectPredecessors(p, u)], Up(p))
<1>1. \A u \in Nodes(p) : Lists(Forward(p, u), Successors(p, u)) /\ Lists(DirectPredecessors(p, u), Predecessors(p, u))
  BY ForwardLists, PredecessorsLists
<1>2. \A u : Successors(p, u) \subseteq Nodes(p) /\ Predecessors(p, u) \subseteq Nodes(p)
  BY DEF Successors, Predecessors
<1>3. /\ Down(p) \in [Nodes(p) -> SUBSET Nodes(p)] /\ \A u \in Nodes(p) : Down(p)[u] = Successors(p, u)
      /\ Up(p) \in [Nodes(p) -> SUBSET Nodes(p)] /\ \A u \in Nodes(p) : Up(p)[u] = Predecessors(p, u)
  BY <1>2 DEF Down, Up
<1>4. LeadsTo(p, [u \in Nodes(p) |-> Forward(p, u)], Down(p))
  BY <1>1, <1>3 DEF LeadsTo
<1>5. LeadsTo(p, [u \in Nodes(p) |-> DirectPredecessors(p, u)], Up(p))
  BY <1>1, <1>3 DEF LeadsTo
<1>6. QED
  BY <1>4, <1>5 DEF Nodes

LEMMA DownIsReach ==
  ASSUME NEW V, NEW p \in Pipelines(V), NEW u \in Nodes(p), NEW v
  PROVE  HasPath(p, u, v) <=> v \in Reach(p)[u]
<1>. DEFINE next == [x \in ToSet(p.order) |-> Forward(p, x)]
            q == Walk(p, next, u)
<1>1. /\ ToSet(q) \subseteq Nodes(p) /\ q \in Seq(Nodes(p)) /\ Len(q) \in Nat /\ Len(q) >= 1 /\ q[1] = u
      /\ \A x \in ToSet(q) : Down(p)[x] \subseteq ToSet(q)
      /\ \A j \in 1..Len(q) : j # 1 => Came(q, Down(p), j)
  <2>1. LeadsTo(p, next, Down(p))
    BY BothWays
  <2>. HIDE DEF next
  <2>2. QED
    BY <2>1, WalkResult
<1>2. HasPath(p, u, v) <=> \E i \in 1..Len(q) : q[i] = v
  BY DEF HasPath, Contains
<1>. HIDE DEF q
<1>3. \A x : x \in ToSet(q) <=> \E i \in 1..Len(q) : q[i] = x
  BY <1>1 DEF ToSet
<1>4. \A x \in Nodes(p) : Down(p)[x] = Successors(p, x)
  BY DEF Down
<1>5. Closed(p, ToSet(q)) /\ u \in ToSet(q)
  <2>1. ASSUME NEW x, NEW y, <<x, y>> \in Edges(p), x \in ToSet(q) PROVE y \in ToSet(q)
    <3>1. y \in Successors(p, x) /\ x \in Nodes(p)
      BY <2>1, EdgesAre DEF Successors
    <3>2. QED
      BY <1>1, <1>4, <2>1, <3>1
  <2>2. 1 \in 1..Len(q)
    BY <1>1
  <2>3. QED
    BY <1>1, <1>3, <2>1, <2>2 DEF Closed
<1>6. Reach(p)[u] \subseteq ToSet(q)
  BY <1>1, <1>5, ReachFacts
<1>. DEFINE X == Reach(p)[u]
<1>7. u \in X /\ X \subseteq Nodes(p)
  BY ReachFacts
<1>8. \A x \in X : Down(p)[x] \subseteq X
  <2>1. SUFFICES ASSUME NEW x \in X, NEW y \in Down(p)[x] PROVE y \in X
    OBVIOUS
  <2>2. x \in Nodes(p) /\ <<x, y>> \in Edges(p)
    BY <1>4, <1>7, <2>1 DEF Successors
  <2>3. y \in Reach(p)[x]
    BY <2>2, ReachFacts
  <2>4. Reach(p)[x] \subseteq Reach(p)[u]
    BY <2>2, <2>1, ReachFacts
  <2>5. QED
    BY <2>3, <2>4
<1>9. \A j \in 1..Len(q) : q[j] \in X
  <2>. HIDE DEF X
  <2>1. QED
    BY <1>1, <1>7, <1>8, AlongTheWalk
<1>10. QED
  BY <1>2, <1>3, <1>6, <1>9

LEMMA UpIsReach ==
  ASSUME NEW V, NEW p \in Pipelines(V), NEW v \in Nodes(p)
  PROVE  LET q == Upstream(p, v)
         IN  /\ Lists(q, ToSet(q)) /\ q \in Seq(Nodes(p)) /\ Len(q) \in Nat /\ Len(q) >= 1 /\ Len(q) <= Len(p.order)
             /\ q[1] = v /\ ToSet(q) = {u \in Nodes(p) : v \in Reach(p)[u]}
             /\ \A x \in ToSet(q) : Up(p)[x] \subseteq ToSet(q)
             /\ \A j \in 1..Len(q) : j # 1 => Came(q, Up(p), j)
<1>. DEFINE q == Upstream(p, v)
            X == {u \in Nodes(p) : v \in Reach(p)[u]}
<1>1. /\ Lists(q, ToSet(q)) /\ ToSet(q) \subseteq Nodes(p) /\ q \in Seq(Nodes(p))
      /\ Len(q) \in Nat /\ Len(q) >= 1 /\ Len(q) <= Len(p.order) /\ q[1] = v
      /\ \A x \in ToSet(q) : Up(p)[x] \subseteq ToSet(q)
      /\ \A j \in 1..Len(q) : j # 1 => Came(q, Up(p), j)
  BY BothWays, WalkResult DEF Upstream
<1>. HIDE DEF q
<1>2. \A x : x \in ToSet(q) <=> \E i \in 1..Len(q) : q[i] = x
  BY <1>1 DEF ToSet
<1>3. \A x \in Nodes(p) : Up(p)[x] = Predecessors(p, x)
  BY DEF Up
<1>4. v \in X /\ \A x \in X : Up(p)[x] \subseteq X
  <2>1. v \in X
    BY ReachFacts
  <2>2. ASSUME NEW x \in X, NEW y \in Up(p)[x] PROVE y \in X
    <3>1. x \in Nodes(p) /\ y \in Nodes(p) /\ <<y, x>> \in Edges(p) /\ v \in Reach(p)[x]
      BY <1>3, <2>2 DEF Predecessors
    <3>2. x \in Reach(p)[y]
      BY <3>1, ReachFacts
    <3>3. Reach(p)[x] \subseteq Reach(p)[y]
      BY <3>1, <3>2, ReachFacts
    <3>4. QED
      BY <3>1, <3>3
  <2>3. QED
    BY <2>1, <2>2
<1>5. \A j \in 1..Len(q) : q[j] \in X
  <2>. HIDE DEF X
  <2>1. QED
    BY <1>1, <1>4, AlongTheWalk
<1>6. ASSUME NEW u \in X, u \notin ToSet(q) PROVE FALSE
  <2>. DEFINE S == Nodes(p) \ ToSet(q)
  <2>1. ASSUME NEW x, NEW y, <<x, y>> \in Edges(p), x \in S PROVE y \in S
    <3>1. y \in Nodes(p) /\ x \in Predecessors(p, y)
      BY <2>1, EdgesAre DEF Predecessors
    <3>2. y \in ToSet(q) => x \in ToSet(q)
      BY <1>1, <1>3, <3>1
    <3>3. QED
      BY <2>1, <3>1, <3>2
  <2>2. Closed(p, S) /\ u \in S /\ S \in SUBSET Nodes(p)
    BY <1>6, <2>1 DEF Closed
  <2>. HIDE DEF S
  <2>3. Reach(p)[u] \subseteq S
    BY <2>2, ReachFacts
  <2>4. v \in S
    BY <1>6, <2>3
  <2>5. 1 \in 1..Len(q)
    BY <1>1
  <2>6. QED
    BY <1>1, <1>2, <2>4, <2>5 DEF S
<1>7. ToSet(q) = X
  BY <1>2, <1>5, <1>6
<1>8. /\ Lists(q, ToSet(q)) /\ q \in Seq(Nodes(p)) /\ Len(q) \in Nat /\ Len(q) >= 1 /\ Len(q) <= Len(p.order)
      /\ q[1] = v /\ ToSet(q) = X
      /\ \A x \in ToSet(q) : Up(p)[x] \subseteq ToSet(q)
      /\ \A j \in 1..Len(q) : j # 1 => Came(q, Up(p), j)
  BY <1>1, <1>7
<1>9. QED
  BY <1>8 DEF q

\* The pairs of stages at most so many edges apart, and how near a stage is.
Alone(p) == {<<v, v>> : v \in DigraphOf(p).node}
Further(p, q) ==
  q \cup {e \in DigraphOf(p).node \X DigraphOf(p).node :
            \E u \in DigraphOf(p).node : <<e[1], u>> \in DigraphOf(p).edge /\ <<u, e[2]>> \in q}
WithinUp(w, p) ==
  w = [k \in 0..Cardinality(DigraphOf(p).node) |-> IF k = 0 THEN Alone(p) ELSE Further(p, w[k - 1])]
WithinOf(p) == CHOOSE w : WithinUp(w, p)
Near(p, u, v) == CHOOSE k \in DOMAIN WithinOf(p) :
                   <<u, v>> \in WithinOf(p)[k] /\ (k > 0 => <<u, v>> \notin WithinOf(p)[k - 1])

LEMMA QueriesAre ==
  ASSUME NEW p
  PROVE  QueriesAreRight(p) <=>
           LET G == DigraphOf(p)
               reach == ReachIn(G)
               feeds(v) == {u \in G.node \ {v} : v \in reach[u]}
           IN  \A v \in G.node :
                 /\ \A u \in G.node : HasPath(p, u, v) <=> v \in reach[u]
                 /\ LET anc == AncestorsOf(p, v) IN
                      /\ ToSet(anc) = feeds(v) /\ Len(anc) = Cardinality(feeds(v))
                      /\ \A i, j \in DOMAIN anc : i < j => Near(p, anc[i], v) <= Near(p, anc[j], v)
                 /\ HeadsTo(p, v) = Only(p.order, {u \in feeds(v) \cup {v} : \A e \in G.edge : e[2] # u})
                 /\ ToSet(Incoming(p, v)) = {[from |-> p.edges[i].from, ratio |-> p.edges[i].ratio]
                                               : i \in {j \in DOMAIN p.edges : p.edges[j].to = v}}
BY DEF QueriesAreRight, Near, WithinOf, WithinUp, Alone, Further

Level(p, v, k) == {u \in Nodes(p) : <<u, v>> \in WithinOf(p)[k]}

LEMMA WithinIs ==
  ASSUME NEW V, NEW p \in Pipelines(V)
  PROVE  LET w == WithinOf(p)
             N == Len(p.order)
         IN  /\ DOMAIN w = 0..N
             /\ w[0] = Alone(p)
             /\ \A k \in 1..N : w[k] = Further(p, w[k - 1])
<1>. DEFINE S == SUBSET (Nodes(p) \X Nodes(p))
            N == Len(p.order)
            first == Alone(p)
            go(q) == Further(p, q)
            step == [a \in Nat \X S |-> IF a[1] = 0 THEN first ELSE go(a[2])]
            w == WithinOf(p)
<1>1. N \in Nat /\ N = Cardinality(DigraphOf(p).node) /\ DigraphOf(p).node = Nodes(p)
  BY PipelineIs
<1>2. first \in S /\ \A q \in S : go(q) \in S
  BY <1>1 DEF Alone, Further
<1>3. step \in [Nat \X S -> S]
  <2>. HIDE DEF S, go, first
  <2>1. QED
    BY <1>2
<1>4. PICK g \in [0..N -> S] : IteratesFrom(g, step, first, N)
  <2>. HIDE DEF S, step, N, first
  <2>1. QED
    BY <1>1, <1>2, <1>3, IterationExists
<1>5. \A n \in 1..N : step[<<n, g[n - 1]>>] = go(g[n - 1])
  <2>1. \A n \in 1..N : n \in Nat /\ n - 1 \in 0..N /\ n # 0
    BY <1>1
  <2>. HIDE DEF S, go, N, first
  <2>2. QED
    BY <2>1, <1>4
<1>6. g = [n \in 0..N |-> IF n = 0 THEN first ELSE go(g[n - 1])]
  <2>1. g = [n \in 0..N |-> IF n = 0 THEN first ELSE step[<<n, g[n - 1]>>]]
    BY <1>4 DEF IteratesFrom
  <2>2. \A n \in 0..N : n # 0 => n \in 1..N
    BY <1>1
  <2>. HIDE DEF go, step, N, first
  <2>3. QED
    BY <1>5, <2>1, <2>2
<1>7. WithinUp(g, p)
  BY <1>1, <1>6 DEF WithinUp
<1>8. WithinUp(w, p)
  BY <1>7 DEF WithinOf
<1>9. w = [n \in 0..N |-> IF n = 0 THEN first ELSE go(w[n - 1])]
  BY <1>1, <1>8 DEF WithinUp
<1>10. DOMAIN w = 0..N /\ w[0] = first /\ \A n \in 1..N : w[n] = go(w[n - 1])
  <2>1. 0 \in 0..N /\ \A n \in 1..N : n \in 0..N /\ n # 0
    BY <1>1
  <2>. HIDE DEF w, go, N, first
  <2>2. QED
    BY <1>9, <2>1
<1>11. QED
  BY <1>10

LEMMA LevelIs ==
  ASSUME NEW V, NEW p \in Pipelines(V), NEW v \in Nodes(p)
  PROVE  /\ Level(p, v, 0) = {v}
         /\ \A k \in 1..Len(p.order) : \A u : u \in Level(p, v, k) <=>
              u \in Level(p, v, k - 1) \/ \E x \in Level(p, v, k - 1) : u \in Up(p)[x]
<1>1. Len(p.order) \in Nat
  BY PipelineIs
<1>. DEFINE w == WithinOf(p)
<1>2. /\ w[0] = Alone(p)
      /\ \A k \in 1..Len(p.order) : w[k] = Further(p, w[k - 1])
  BY WithinIs
<1>. HIDE DEF w
<1>3. \A k : Level(p, v, k) = {u \in Nodes(p) : <<u, v>> \in w[k]}
  BY DEF Level, w
<1>4. Level(p, v, 0) = {v}
  <2>1. \A u \in Nodes(p) : <<u, v>> \in Alone(p) <=> u = v
    <3>1. DigraphOf(p).node = Nodes(p)
      BY PipelineIs
    <3>2. Alone(p) = {<<x, x>> : x \in Nodes(p)}
      BY <3>1 DEF Alone
    <3>3. QED
      BY <3>2
  <2>2. Level(p, v, 0) = {u \in Nodes(p) : <<u, v>> \in Alone(p)}
    BY <1>2, <1>3
  <2>3. QED
    BY <2>1, <2>2
<1>5. ASSUME NEW k \in 1..Len(p.order), NEW u
      PROVE  u \in Level(p, v, k) <=> u \in Level(p, v, k - 1) \/ \E x \in Level(p, v, k - 1) : u \in Up(p)[x]
  <2>1. u \in Level(p, v, k) <=> /\ u \in Nodes(p)
                                 /\ \/ <<u, v>> \in w[k - 1]
                                    \/ \E x \in Nodes(p) : <<u, x>> \in Edges(p) /\ <<x, v>> \in w[k - 1]
    <3>1. DigraphOf(p).node = Nodes(p) /\ DigraphOf(p).edge = Edges(p)
      BY PipelineIs DEF Edges
    <3>2. \A q : u \in Nodes(p) => (<<u, v>> \in Further(p, q) <=>
                   <<u, v>> \in q \/ \E x \in Nodes(p) : <<u, x>> \in Edges(p) /\ <<x, v>> \in q)
      BY <3>1 DEF Further
    <3>3. u \in Level(p, v, k) <=> u \in Nodes(p) /\ <<u, v>> \in Further(p, w[k - 1])
      BY <1>2, <1>3
    <3>4. QED
      BY <3>2, <3>3
  <2>2. \A x \in Nodes(p) : u \in Up(p)[x] <=> u \in Nodes(p) /\ <<u, x>> \in Edges(p)
    BY DEF Up, Predecessors
  <2>3. QED
    BY <1>3, <2>1, <2>2
<1>6. QED
  BY <1>4, <1>5

LEMMA LevelsGrow ==
  ASSUME NEW V, NEW p \in Pipelines(V), NEW v \in Nodes(p), NEW a \in 0..Len(p.order), NEW b \in 0..Len(p.order), a <= b
  PROVE  Level(p, v, a) \subseteq Level(p, v, b)
<1>. DEFINE B == {k \in 0..Len(p.order) : a <= k /\ ~(Level(p, v, a) \subseteq Level(p, v, k))}
<1>1. Len(p.order) \in Nat
  BY PipelineIs
<1>2. SUFFICES ASSUME B # {} PROVE FALSE
  OBVIOUS
<1>3. B \in SUBSET Nat
  BY <1>1
<1>4. PICK k \in B : \A m \in B : k <= m
  BY <1>2, <1>3, SmallestNumber
<1>5. k \in 0..Len(p.order) /\ a <= k /\ ~(Level(p, v, a) \subseteq Level(p, v, k))
  BY <1>4
<1>6. k # a
  BY <1>5
<1>7. k \in 1..Len(p.order) /\ k - 1 \in 0..Len(p.order) /\ a <= k - 1
  BY <1>1, <1>5, <1>6
<1>8. k - 1 \notin B
  BY <1>1, <1>4, <1>7
<1>9. Level(p, v, a) \subseteq Level(p, v, k - 1)
  BY <1>7, <1>8
<1>10. Level(p, v, k - 1) \subseteq Level(p, v, k)
  BY <1>7, LevelIs
<1>11. QED
  BY <1>5, <1>9, <1>10

LEMMA LevelsAreWalked ==
  ASSUME NEW V, NEW p \in Pipelines(V), NEW v \in Nodes(p), NEW k \in 0..Len(p.order)
  PROVE  Level(p, v, k) \subseteq ToSet(Upstream(p, v))
<1>. DEFINE N == Len(p.order)
            q == Upstream(p, v)
            B == {m \in 0..N : ~(Level(p, v, m) \subseteq ToSet(q))}
<1>1. N \in Nat
  BY PipelineIs
<1>2. /\ q \in Seq(Nodes(p)) /\ Len(q) \in Nat /\ Len(q) >= 1 /\ q[1] = v
      /\ \A x \in ToSet(q) : Up(p)[x] \subseteq ToSet(q)
  BY UpIsReach
<1>. HIDE DEF q
<1>3. SUFFICES ASSUME B # {} PROVE FALSE
  BY DEF q
<1>4. B \in SUBSET Nat
  BY <1>1
<1>5. PICK m \in B : \A n \in B : m <= n
  <2>. HIDE DEF B
  <2>1. QED
    BY <1>3, <1>4, SmallestNumber
<1>6. v \in ToSet(q)
  <2>1. 1 \in DOMAIN q
    BY <1>2
  <2>2. QED
    BY <1>2, <2>1 DEF ToSet
<1>7. m # 0
  BY <1>5, <1>6, LevelIs
<1>8. m \in 1..N /\ m - 1 \in 0..N /\ m - 1 \notin B
  BY <1>1, <1>5, <1>7
<1>9. Level(p, v, m - 1) \subseteq ToSet(q)
  BY <1>8
<1>10. ASSUME NEW u \in Level(p, v, m) PROVE u \in ToSet(q)
  BY <1>2, <1>8, <1>9, LevelIs
<1>11. QED
  BY <1>5, <1>10

\* In the upward walk the stages of a level come before all others.
LEMMA NextLevelInOrder ==
  ASSUME NEW q, NEW after, NEW v, Len(q) \in Nat, \A i, j \in 1..Len(q) : q[i] = q[j] => i = j, q[1] = v,
         \A j \in 1..Len(q) : j # 1 => Came(q, after, j),
         NEW L, L \subseteq ToSet(q), ToSet(q) = {q[i] : i \in 1..Len(q)}, v \in L,
         \A i, j \in 1..Len(q) : i < j /\ q[j] \in L => q[i] \in L,
         NEW M, \A u : u \in M <=> u \in L \/ \E x \in L : u \in after[x]
  PROVE  \A i, j \in 1..Len(q) : i < j /\ q[j] \in M => q[i] \in M
<1>1. SUFFICES ASSUME NEW i \in 1..Len(q), NEW j \in 1..Len(q), i < j, q[j] \in M, q[i] \notin M PROVE FALSE
  OBVIOUS
<1>2. q[j] \notin L /\ q[i] \notin L /\ i # 1
  BY <1>1
<1>3. PICK x \in L : q[j] \in after[x]
  BY <1>1, <1>2
<1>4. PICK b \in 1..Len(q) : q[b] = x
  BY <1>3
<1>5. PICK a \in 1..Len(q) : /\ a < i /\ q[i] \in after[q[a]]
                             /\ \A h \in 1..Len(q) : h < a => \A y \in after[q[h]] : \E g \in 1..Len(q) : g < i /\ q[g] = y
  BY <1>2 DEF Came
<1>6. q[a] \notin L
  BY <1>1, <1>5
<1>7. b < a
  <2>1. a # b
    BY <1>3, <1>4, <1>6
  <2>2. ~(a < b)
    BY <1>3, <1>4, <1>6
  <2>3. QED
    BY <2>1, <2>2
<1>8. PICK g \in 1..Len(q) : g < i /\ q[g] = q[j]
  BY <1>3, <1>4, <1>5, <1>7
<1>9. g = j
  BY <1>8
<1>10. QED
  BY <1>1, <1>8, <1>9

LEMMA LevelsInOrder ==
  ASSUME NEW V, NEW p \in Pipelines(V), NEW v \in Nodes(p), NEW k \in 0..Len(p.order)
  PROVE  LET q == Upstream(p, v)
         IN  \A i, j \in 1..Len(q) : i < j /\ q[j] \in Level(p, v, k) => q[i] \in Level(p, v, k)
<1>. DEFINE N == Len(p.order)
            q == Upstream(p, v)
            Good(m) == \A i, j \in 1..Len(q) : i < j /\ q[j] \in Level(p, v, m) => q[i] \in Level(p, v, m)
            B == {m \in 0..N : ~Good(m)}
<1>1. N \in Nat
  BY PipelineIs
<1>2. /\ \A i, j \in 1..Len(q) : q[i] = q[j] => i = j
      /\ q \in Seq(Nodes(p)) /\ Len(q) \in Nat /\ Len(q) >= 1 /\ q[1] = v
      /\ \A j \in 1..Len(q) : j # 1 => Came(q, Up(p), j)
  BY UpIsReach DEF Lists
<1>3. \A m \in 0..N : Level(p, v, m) \subseteq ToSet(q)
  BY LevelsAreWalked
<1>. HIDE DEF q
<1>4. ToSet(q) = {q[i] : i \in 1..Len(q)}
  BY <1>2 DEF ToSet
<1>5. SUFFICES ASSUME B # {} PROVE FALSE
  BY DEF q
<1>6. B \in SUBSET Nat
  BY <1>1
<1>7. PICK m \in B : \A n \in B : m <= n
  <2>. HIDE DEF B
  <2>1. QED
    BY <1>5, <1>6, SmallestNumber
<1>8. Good(0)
  <2>1. Level(p, v, 0) = {v}
    BY LevelIs
  <2>2. 1 \in 1..Len(q)
    BY <1>2
  <2>3. ASSUME NEW i \in 1..Len(q), NEW j \in 1..Len(q), i < j, q[j] = v PROVE FALSE
    <3>1. j = 1
      BY <1>2, <2>2, <2>3
    <3>2. QED
      BY <2>3, <3>1
  <2>4. QED
    BY <2>1, <2>3
<1>9. m # 0 /\ ~Good(m) /\ m \in 0..N
  BY <1>7, <1>8
<1>10. m \in 1..N /\ m - 1 \in 0..N /\ m - 1 \notin B /\ 0 \in 0..N /\ 0 <= m - 1
  BY <1>1, <1>7, <1>9
<1>11. Good(m - 1)
  BY <1>10
<1>. DEFINE L == Level(p, v, m - 1)
            M == Level(p, v, m)
<1>12. v \in L
  <2>1. Level(p, v, 0) = {v}
    BY LevelIs
  <2>2. Level(p, v, 0) \subseteq L
    BY <1>10, LevelsGrow
  <2>3. QED
    BY <2>1, <2>2
<1>13. \A u : u \in M <=> u \in L \/ \E x \in L : u \in Up(p)[x]
  BY <1>10, LevelIs
<1>14. L \subseteq ToSet(q) /\ \A i, j \in 1..Len(q) : i < j /\ q[j] \in L => q[i] \in L
  BY <1>3, <1>10, <1>11
<1>15. \A i, j \in 1..Len(q) : i < j /\ q[j] \in M => q[i] \in M
  <2>. HIDE DEF L, M
  <2>1. QED
    BY <1>2, <1>4, <1>12, <1>13, <1>14, NextLevelInOrder
<1>16. QED
  BY <1>9, <1>15

LEMMA WalkedIsNear ==
  ASSUME NEW V, NEW p \in Pipelines(V), NEW v \in Nodes(p)
  PROVE  LET q == Upstream(p, v) IN \A j \in 1..Len(q) : q[j] \in Level(p, v, j - 1)
<1>. DEFINE N == Len(p.order)
            q == Upstream(p, v)
            B == {j \in 1..Len(q) : q[j] \notin Level(p, v, j - 1)}
<1>1. /\ q \in Seq(Nodes(p)) /\ Len(q) \in Nat /\ Len(q) >= 1 /\ Len(q) <= N /\ q[1] = v /\ N \in Nat
      /\ \A j \in 1..Len(q) : j # 1 => Came(q, Up(p), j)
  BY UpIsReach, PipelineIs
<1>. HIDE DEF q
<1>2. SUFFICES ASSUME B # {} PROVE FALSE
  BY DEF q
<1>3. B \in SUBSET Nat
  OBVIOUS
<1>4. PICK j \in B : \A n \in B : j <= n
  <2>. HIDE DEF B
  <2>1. QED
    BY <1>2, <1>3, SmallestNumber
<1>5. j \in 1..Len(q) /\ q[j] \notin Level(p, v, j - 1)
  BY <1>4
<1>6. j # 1
  <2>1. v \in Level(p, v, 0)
    BY LevelIs
  <2>2. 1 - 1 = 0
    OBVIOUS
  <2>3. QED
    BY <1>1, <1>5, <2>1, <2>2
<1>7. PICK i \in 1..Len(q) : i < j /\ q[j] \in Up(p)[q[i]]
  BY <1>1, <1>5, <1>6 DEF Came
<1>8. i \notin B
  BY <1>4, <1>5, <1>7
<1>9. q[i] \in Level(p, v, i - 1)
  BY <1>8
<1>10. i - 1 \in 0..N /\ j - 2 \in 0..N /\ i - 1 <= j - 2 /\ j - 1 \in 1..N /\ (j - 1) - 1 = j - 2
  BY <1>1, <1>5, <1>7
<1>11. q[i] \in Level(p, v, j - 2)
  BY <1>9, <1>10, LevelsGrow
<1>12. q[j] \in Level(p, v, j - 1)
  BY <1>7, <1>10, <1>11, LevelIs
<1>13. QED
  BY <1>5, <1>12

LEMMA NearIs ==
  ASSUME NEW V, NEW p \in Pipelines(V), NEW v \in Nodes(p), NEW u \in ToSet(Upstream(p, v))
  PROVE  LET k == Near(p, u, v)
         IN  k \in 0..Len(p.order) /\ u \in Level(p, v, k) /\ (k > 0 => u \notin Level(p, v, k - 1))
<1>. DEFINE N == Len(p.order)
            q == Upstream(p, v)
            w == WithinOf(p)
            B == {k \in 0..N : u \in Level(p, v, k)}
<1>1. /\ q \in Seq(Nodes(p)) /\ Len(q) \in Nat /\ Len(q) <= N /\ N \in Nat
      /\ \A j \in 1..Len(q) : q[j] \in Level(p, v, j - 1)
  BY UpIsReach, PipelineIs, WalkedIsNear
<1>2. PICK j \in 1..Len(q) : q[j] = u
  BY <1>1 DEF ToSet
<1>. HIDE DEF q
<1>3. j - 1 \in B /\ B \in SUBSET Nat
  BY <1>1, <1>2
<1>4. PICK k \in B : \A n \in B : k <= n
  <2>. HIDE DEF B
  <2>1. QED
    BY <1>3, SmallestNumber
<1>5. k \in 0..N /\ u \in Level(p, v, k) /\ (k > 0 => u \notin Level(p, v, k - 1))
  <2>1. k > 0 => k - 1 \in 0..N /\ ~(k <= k - 1)
    BY <1>1, <1>4
  <2>2. QED
    BY <1>4, <2>1
<1>6. u \in Nodes(p) /\ \A n : u \in Level(p, v, n) <=> <<u, v>> \in w[n]
  BY <1>5 DEF Level
<1>7. DOMAIN w = 0..N
  BY WithinIs
<1>8. Near(p, u, v) = CHOOSE n \in DOMAIN w : <<u, v>> \in w[n] /\ (n > 0 => <<u, v>> \notin w[n - 1])
  BY DEF Near
<1>. HIDE DEF w
<1>9. \E n \in DOMAIN w : <<u, v>> \in w[n] /\ (n > 0 => <<u, v>> \notin w[n - 1])
  BY <1>5, <1>6, <1>7
<1>10. /\ Near(p, u, v) \in DOMAIN w /\ <<u, v>> \in w[Near(p, u, v)]
       /\ Near(p, u, v) > 0 => <<u, v>> \notin w[Near(p, u, v) - 1]
  BY <1>8, <1>9
<1>11. QED
  BY <1>6, <1>7, <1>10

LEMMA NearestFirst ==
  ASSUME NEW V, NEW p \in Pipelines(V), NEW v \in Nodes(p)
  PROVE  LET q == Upstream(p, v)
         IN  \A i, j \in 1..Len(q) : i < j => Near(p, q[i], v) <= Near(p, q[j], v)
<1>. DEFINE N == Len(p.order)
            q == Upstream(p, v)
<1>1. q \in Seq(Nodes(p)) /\ \A k \in 0..N : \A i, j \in 1..Len(q) : i < j /\ q[j] \in Level(p, v, k) => q[i] \in Level(p, v, k)
  BY UpIsReach, LevelsInOrder
<1>2. SUFFICES ASSUME NEW i \in 1..Len(q), NEW j \in 1..Len(q), i < j PROVE Near(p, q[i], v) <= Near(p, q[j], v)
  OBVIOUS
<1>. DEFINE a == Near(p, q[i], v)
            b == Near(p, q[j], v)
<1>3. q[i] \in ToSet(q) /\ q[j] \in ToSet(q)
  BY <1>1 DEF ToSet
<1>4. /\ a \in 0..N /\ (a > 0 => q[i] \notin Level(p, v, a - 1))
      /\ b \in 0..N /\ q[j] \in Level(p, v, b)
  BY <1>3, NearIs
<1>5. N \in Nat
  BY PipelineIs
<1>. HIDE DEF a, b, q
<1>6. q[i] \in Level(p, v, b)
  BY <1>1, <1>2, <1>4
<1>7. ~(a > b)
  <2>1. SUFFICES ASSUME a > b PROVE FALSE
    OBVIOUS
  <2>2. a > 0 /\ a - 1 \in 0..N /\ b <= a - 1
    BY <1>4, <1>5, <2>1
  <2>3. Level(p, v, b) \subseteq Level(p, v, a - 1)
    BY <1>4, <2>2, LevelsGrow
  <2>4. QED
    BY <1>4, <1>6, <2>2, <2>3
<1>8. a <= b
  BY <1>4, <1>7
<1>9. QED
  BY <1>8 DEF a, b

\* Selecting twice is selecting what is in both, and only what is there counts.
LEMMA OnlyTwice ==
  ASSUME NEW T, NEW s \in Seq(T), NEW X, NEW Y, NEW Z, \A x \in T : x \in Z <=> x \in X /\ x \in Y
  PROVE  Only(Only(s, X), Y) = Only(s, Z)
<1>. DEFINE Holds(t) == Only(Only(t, X), Y) = Only(t, Z)
            B == {n \in Nat : \E t \in Seq(T) : Len(t) = n /\ ~Holds(t)}
<1>1. SUFFICES ASSUME B # {} PROVE FALSE
  OBVIOUS
<1>2. PICK n \in B : \A m \in B : n <= m
  BY <1>1, SmallestNumber
<1>3. PICK t \in Seq(T) : Len(t) = n /\ ~Holds(t)
  BY <1>2
<1>4. CASE n = 0
  <2>1. t = <<>>
    BY <1>3, <1>4
  <2>2. Only(<<>>, X) = <<>> /\ Only(<<>>, Y) = <<>> /\ Only(<<>>, Z) = <<>>
    BY OnlyEmpty
  <2>3. QED
    BY <1>3, <2>1, <2>2
<1>5. CASE n # 0
  <2>. DEFINE r == SubSeq(t, 1, n - 1)
              x == t[n]
  <2>1. n \in Nat /\ n - 1 \in Nat /\ n >= 1 /\ n - 1 \notin B
    BY <1>2, <1>5
  <2>2. r \in Seq(T) /\ Len(r) = n - 1 /\ x \in T /\ t = Append(r, x)
    BY <1>3, <2>1
  <2>. HIDE DEF r, x
  <2>3. Only(Only(r, X), Y) = Only(r, Z)
    BY <2>1, <2>2
  <2>4. Only(r, X) \in Seq(T)
    BY <2>2, OnlyPlaces
  <2>5. Only(t, X) = IF x \in X THEN Append(Only(r, X), x) ELSE Only(r, X)
    BY <2>2, OnlyAppend
  <2>6. Only(t, Z) = IF x \in Z THEN Append(Only(r, Z), x) ELSE Only(r, Z)
    BY <2>2, OnlyAppend
  <2>7. Only(Append(Only(r, X), x), Y) = IF x \in Y THEN Append(Only(Only(r, X), Y), x) ELSE Only(Only(r, X), Y)
    BY <2>2, <2>4, OnlyAppend
  <2>8. x \in Z <=> x \in X /\ x \in Y
    BY <2>2
  <2>9. Only(Only(t, X), Y) = Only(t, Z)
    <3>1. CASE x \notin X
      BY <2>3, <2>5, <2>6, <2>8, <3>1
    <3>2. CASE x \in X /\ x \notin Y
      BY <2>3, <2>5, <2>6, <2>7, <2>8, <3>2
    <3>3. CASE x \in X /\ x \in Y
      BY <2>3, <2>5, <2>6, <2>7, <2>8, <3>3
    <3>4. QED
      BY <3>1, <3>2, <3>3
  <2>10. QED
    BY <1>3, <2>9
<1>6. QED
  BY <1>4, <1>5

\* What the queries return, one by one.
Feeders(p, v) == {u \in Nodes(p) \ {v} : v \in Reach(p)[u]}

LEMMA AncestorsAre ==
  ASSUME NEW V, NEW p \in Pipelines(V), NEW v \in Nodes(p)
  PROVE  LET anc == AncestorsOf(p, v)
         IN  /\ ToSet(anc) = Feeders(p, v) /\ Len(anc) = Cardinality(Feeders(p, v))
             /\ \A i, j \in DOMAIN anc : i < j => Near(p, anc[i], v) <= Near(p, anc[j], v)
<1>. DEFINE q == Upstream(p, v)
            anc == Tail(q)
<1>1. /\ q \in Seq(Nodes(p)) /\ Len(q) \in Nat /\ Len(q) >= 1 /\ q[1] = v
      /\ \A i, j \in 1..Len(q) : q[i] = q[j] => i = j
      /\ ToSet(q) = {u \in Nodes(p) : v \in Reach(p)[u]}
  BY UpIsReach DEF Lists
<1>2. \A i, j \in 1..Len(q) : i < j => Near(p, q[i], v) <= Near(p, q[j], v)
  BY NearestFirst
<1>3. AncestorsOf(p, v) = anc
  BY DEF AncestorsOf
<1>. HIDE DEF q
<1>4. /\ Len(anc) = Len(q) - 1 /\ DOMAIN anc = 1..(Len(q) - 1) /\ anc \in Seq(Nodes(p))
      /\ \A i \in 1..(Len(q) - 1) : anc[i] = q[i + 1] /\ i + 1 \in 1..Len(q)
  BY <1>1, TailIs
<1>. HIDE DEF anc
<1>5. \A x : x \in ToSet(q) <=> \E i \in 1..Len(q) : q[i] = x
  BY <1>1 DEF ToSet
<1>6. \A x : x \in Feeders(p, v) <=> x \in ToSet(q) /\ x # v
  BY <1>1 DEF Feeders
<1>7. ASSUME NEW i \in 1..(Len(q) - 1) PROVE anc[i] \in Feeders(p, v)
  <2>1. q[i + 1] \in ToSet(q)
    BY <1>4, <1>5
  <2>2. i + 1 # 1 /\ 1 \in 1..Len(q)
    BY <1>1
  <2>3. q[i + 1] # v
    BY <1>1, <1>4, <2>2
  <2>4. QED
    BY <1>4, <1>6, <2>1, <2>3
<1>8. ASSUME NEW x \in Feeders(p, v) PROVE \E i \in 1..(Len(q) - 1) : anc[i] = x
  <2>1. PICK j \in 1..Len(q) : q[j] = x
    BY <1>5, <1>6
  <2>2. j # 1
    BY <1>1, <1>6, <2>1
  <2>3. j - 1 \in 1..(Len(q) - 1) /\ (j - 1) + 1 = j
    BY <1>1, <2>2
  <2>4. QED
    BY <1>4, <2>1, <2>3
<1>9. ASSUME NEW i \in 1..(Len(q) - 1), NEW j \in 1..(Len(q) - 1), anc[i] = anc[j] PROVE i = j
  <2>1. i + 1 = j + 1
    BY <1>1, <1>4, <1>9
  <2>2. QED
    BY <1>1, <2>1
<1>10. Lists(anc, Feeders(p, v))
  <2>1. anc \in Seq(Feeders(p, v))
    BY <1>4, <1>7
  <2>2. Len(anc) = Len(q) - 1
    BY <1>4
  <2>3. QED
    BY <1>8, <1>9, <2>1, <2>2 DEF Lists
<1>11. ToSet(anc) = Feeders(p, v) /\ Len(anc) = Cardinality(Feeders(p, v))
  BY <1>10, ListsIs, ListsCounted
<1>12. ASSUME NEW i \in DOMAIN anc, NEW j \in DOMAIN anc, i < j
       PROVE  Near(p, anc[i], v) <= Near(p, anc[j], v)
  <2>1. i \in 1..(Len(q) - 1) /\ j \in 1..(Len(q) - 1) /\ i + 1 < j + 1
    BY <1>4, <1>12
  <2>2. QED
    BY <1>2, <1>4, <2>1
<1>13. QED
  BY <1>3, <1>11, <1>12

LEMMA HeadsToAre ==
  ASSUME NEW V, NEW p \in Pipelines(V), NEW v \in Nodes(p)
  PROVE  HeadsTo(p, v) = Only(p.order, {u \in Feeders(p, v) \cup {v} : \A e \in DigraphOf(p).edge : e[2] # u})
<1>. DEFINE X == {u \in ToSet(p.order) : InDegree(p, u) = 0}
            Y == ToSet(Upstream(p, v))
            Z == {u \in Feeders(p, v) \cup {v} : \A e \in DigraphOf(p).edge : e[2] # u}
<1>1. p.order \in Seq(Nodes(p))
  BY PipelineIs DEF Lists
<1>2. Y = {u \in Nodes(p) : v \in Reach(p)[u]}
  BY UpIsReach
<1>3. \A u : u \in Y <=> u \in Feeders(p, v) \cup {v}
  BY <1>2, ReachFacts DEF Feeders
<1>4. ASSUME NEW u \in Nodes(p)
      PROVE  u \in X <=> \A e \in DigraphOf(p).edge : e[2] # u
  <2>1. u \in X <=> Predecessors(p, u) = {}
    BY InDegreeIs DEF Nodes
  <2>2. \A e \in Edges(p) : e = <<e[1], e[2]>> /\ e[1] \in Nodes(p)
    BY EdgesAre
  <2>3. ASSUME NEW e \in Edges(p), e[2] = u PROVE e[1] \in Predecessors(p, u)
    BY <2>2, <2>3 DEF Predecessors
  <2>4. ASSUME NEW x \in Predecessors(p, u) PROVE \E e \in Edges(p) : e[2] = u
    <3>1. <<x, u>> \in Edges(p) /\ <<x, u>>[2] = u
      BY DEF Predecessors
    <3>2. QED
      BY <3>1
  <2>5. QED
    BY <2>1, <2>3, <2>4 DEF Edges
<1>5. \A u \in Nodes(p) : u \in Z <=> u \in X /\ u \in Y
  BY <1>3, <1>4
<1>6. HeadsTo(p, v) = Only(Only(p.order, X), Y)
  BY DEF HeadsTo, Heads
<1>7. Only(Only(p.order, X), Y) = Only(p.order, Z)
  <2>. HIDE DEF X, Y, Z
  <2>1. QED
    BY <1>1, <1>5, OnlyTwice
<1>8. QED
  BY <1>6, <1>7

LEMMA EdgeRatioIs ==
  ASSUME NEW V, NEW p \in Pipelines(V), NEW i \in 1..Len(p.edges)
  PROVE  EdgeRatio(p, p.edges[i].from, p.edges[i].to) = p.edges[i].ratio
<1>. DEFINE c == CHOOSE j \in DOMAIN p.edges : p.edges[j].from = p.edges[i].from /\ p.edges[j].to = p.edges[i].to
<1>1. DOMAIN p.edges = 1..Len(p.edges)
  <2>1. p.edges \in Seq([from : V, to : V, ratio : Int])
    BY PipelineIs
  <2>. DEFINE T == [from : V, to : V, ratio : Int]
  <2>. HIDE DEF T
  <2>2. p.edges \in Seq(T)
    BY <2>1 DEF T
  <2>3. QED
    BY <2>2
<1>2. c \in DOMAIN p.edges /\ p.edges[c].from = p.edges[i].from /\ p.edges[c].to = p.edges[i].to
  BY <1>1
<1>3. \A a, b \in 1..Len(p.edges) : p.edges[a].from = p.edges[b].from /\ p.edges[a].to = p.edges[b].to => a = b
  BY EdgesAre
<1>. HIDE DEF c
<1>4. c = i
  BY <1>1, <1>2, <1>3
<1>5. EdgeRatio(p, p.edges[i].from, p.edges[i].to) = p.edges[c].ratio
  BY DEF EdgeRatio, c
<1>6. QED
  BY <1>4, <1>5

LEMMA IncomingAre ==
  ASSUME NEW V, NEW p \in Pipelines(V), NEW v \in Nodes(p)
  PROVE  ToSet(Incoming(p, v)) = {[from |-> p.edges[i].from, ratio |-> p.edges[i].ratio]
                                    : i \in {j \in DOMAIN p.edges : p.edges[j].to = v}}
<1>. DEFINE q == DirectPredecessors(p, v)
            r == Incoming(p, v)
            E == {[from |-> p.edges[i].from, ratio |-> p.edges[i].ratio]
                    : i \in {j \in 1..Len(p.edges) : p.edges[j].to = v}}
<1>1. DOMAIN p.edges = 1..Len(p.edges)
  <2>. DEFINE T == [from : V, to : V, ratio : Int]
  <2>1. p.edges \in Seq(T)
    BY PipelineIs
  <2>. HIDE DEF T
  <2>2. QED
    BY <2>1
<1>2. Lists(q, Predecessors(p, v)) /\ DOMAIN q = 1..Len(q)
  BY PredecessorsLists, ListsIs
<1>3. r = [i \in DOMAIN q |-> [from |-> q[i], ratio |-> EdgeRatio(p, q[i], v)]]
  BY DEF Incoming
<1>. HIDE DEF q, r
<1>4. \A x : x \in ToSet(r) <=> \E i \in 1..Len(q) : x = [from |-> q[i], ratio |-> EdgeRatio(p, q[i], v)]
  BY <1>2, <1>3 DEF ToSet
<1>5. \A i \in 1..Len(q) : q[i] \in Predecessors(p, v)
  BY <1>2, ListsIs
<1>6. \A u \in Predecessors(p, v) : \E i \in 1..Len(q) : q[i] = u
  BY <1>2 DEF Lists
<1>7. ASSUME NEW i \in 1..Len(q)
      PROVE  [from |-> q[i], ratio |-> EdgeRatio(p, q[i], v)] \in E
  <2>1. <<q[i], v>> \in Edges(p)
    BY <1>5 DEF Predecessors
  <2>2. PICK k \in 1..Len(p.edges) : p.edges[k].from = q[i] /\ p.edges[k].to = v
    BY <2>1, EdgesAre
  <2>3. EdgeRatio(p, q[i], v) = p.edges[k].ratio
    BY <2>2, EdgeRatioIs
  <2>4. QED
    BY <2>2, <2>3
<1>8. ASSUME NEW k \in 1..Len(p.edges), p.edges[k].to = v
      PROVE  \E i \in 1..Len(q) : [from |-> p.edges[k].from, ratio |-> p.edges[k].ratio] = [from |-> q[i], ratio |-> EdgeRatio(p, q[i], v)]
  <2>1. <<p.edges[k].from, v>> \in Edges(p)
    BY <1>8, EdgesAre
  <2>2. p.edges[k].from \in Predecessors(p, v)
    BY <2>1, EdgesAre DEF Predecessors
  <2>3. PICK i \in 1..Len(q) : q[i] = p.edges[k].from
    BY <1>6, <2>2
  <2>4. EdgeRatio(p, q[i], v) = p.edges[k].ratio
    BY <1>8, <2>3, EdgeRatioIs
  <2>5. QED
    BY <2>3, <2>4
<1>9. ToSet(r) = E
  <2>1. ASSUME NEW x \in ToSet(r) PROVE x \in E
    <3>. DEFINE input(i) == [from |-> q[i], ratio |-> EdgeRatio(p, q[i], v)]
    <3>1. (\E i \in 1..Len(q) : x = input(i)) /\ \A i \in 1..Len(q) : input(i) \in E
      BY <1>4, <1>7
    <3>. HIDE DEF E, input
    <3>2. QED
      BY <3>1
  <2>2. ASSUME NEW x \in E PROVE x \in ToSet(r)
    <3>1. PICK k \in 1..Len(p.edges) : p.edges[k].to = v /\ x = [from |-> p.edges[k].from, ratio |-> p.edges[k].ratio]
      OBVIOUS
    <3>2. QED
      BY <1>4, <1>8, <3>1
  <2>3. QED
    BY <2>1, <2>2
<1>10. QED
  BY <1>1, <1>9 DEF r

\* On a pipeline of any size the queries return what its edges say: a path where
\* there is one, every ancestor once and the nearer one first, the heads that feed
\* a stage in the order of registration, its inputs with their ratios
\* (pipeline.go:181-355).
THEOREM QueriesAreAlwaysRight ==
  ASSUME NEW V, NEW p \in Pipelines(V)
  PROVE  QueriesAreRight(p)
<1>. DEFINE G == DigraphOf(p)
            reach == ReachIn(G)
            feeds(v) == {u \in G.node \ {v} : v \in reach[u]}
<1>1. G.node = Nodes(p) /\ reach = Reach(p)
  BY PipelineIs DEF Reach
<1>2. SUFFICES ASSUME NEW v \in G.node
               PROVE  /\ \A u \in G.node : HasPath(p, u, v) <=> v \in reach[u]
                      /\ LET anc == AncestorsOf(p, v) IN
                           /\ ToSet(anc) = feeds(v) /\ Len(anc) = Cardinality(feeds(v))
                           /\ \A i, j \in DOMAIN anc : i < j => Near(p, anc[i], v) <= Near(p, anc[j], v)
                      /\ HeadsTo(p, v) = Only(p.order, {u \in feeds(v) \cup {v} : \A e \in G.edge : e[2] # u})
                      /\ ToSet(Incoming(p, v)) = {[from |-> p.edges[i].from, ratio |-> p.edges[i].ratio]
                                                    : i \in {j \in DOMAIN p.edges : p.edges[j].to = v}}
  BY QueriesAre, Zenon
<1>3. v \in Nodes(p) /\ feeds(v) = Feeders(p, v)
  BY <1>1 DEF Feeders
<1>4. \A u \in G.node : HasPath(p, u, v) <=> v \in reach[u]
  BY <1>1, DownIsReach
<1>. HIDE DEF reach, feeds
<1>5. LET anc == AncestorsOf(p, v) IN
        /\ ToSet(anc) = feeds(v) /\ Len(anc) = Cardinality(feeds(v))
        /\ \A i, j \in DOMAIN anc : i < j => Near(p, anc[i], v) <= Near(p, anc[j], v)
  BY <1>3, AncestorsAre
<1>6. HeadsTo(p, v) = Only(p.order, {u \in feeds(v) \cup {v} : \A e \in G.edge : e[2] # u})
  BY <1>3, HeadsToAre
<1>7. ToSet(Incoming(p, v)) = {[from |-> p.edges[i].from, ratio |-> p.edges[i].ratio]
                                 : i \in {j \in DOMAIN p.edges : p.edges[j].to = v}}
  BY <1>3, IncomingAre
<1>8. QED
  BY <1>4, <1>5, <1>6, <1>7

-------------------------------------------------------------------------------
(* The resolver.                                                               *)

\* The stages a rope of dr could be released from: the heads with a path to it.
Entries(p, dr) == {h \in ToSet(Heads(p)) : HasPath(p, h, dr)}
Target(p, c, dr) == [controlStage |-> c, segment |-> ResolveSegment(p, c, dr)]
Targets(p, dr, given, inferred) ==
  {t \in {Target(p, c, dr) : c \in ControlStageFor(p, dr, given, inferred)} : t.segment # <<>>}

LEMMA HeadsToLists ==
  ASSUME NEW V, NEW p \in Pipelines(V), NEW dr \in Nodes(p)
  PROVE  Lists(HeadsTo(p, dr), Entries(p, dr))
<1>. DEFINE R == {v \in Nodes(p) : Predecessors(p, v) = {}}
            Y == ToSet(Upstream(p, dr))
<1>1. Lists(Heads(p), R)
  BY HeadsLists
<1>2. ToSet(Heads(p)) = R
  BY <1>1, ListsIs
<1>3. Lists(Only(Heads(p), Y), R \cap Y)
  <2>. HIDE DEF R, Y
  <2>1. QED
    BY <1>1, OnlyLists
<1>4. Y = {u \in Nodes(p) : dr \in Reach(p)[u]}
  BY UpIsReach
<1>5. \A u \in Nodes(p) : HasPath(p, u, dr) <=> dr \in Reach(p)[u]
  BY DownIsReach
<1>6. R \cap Y = Entries(p, dr)
  BY <1>2, <1>4, <1>5 DEF Entries
<1>7. HeadsTo(p, dr) = Only(Heads(p), Y)
  BY DEF HeadsTo
<1>8. QED
  BY <1>3, <1>6, <1>7

LEMMA InferredStage ==
  ASSUME NEW V, NEW p \in Pipelines(V), NEW dr \in Nodes(p), NEW inferred
  PROVE  /\ Cardinality(Entries(p, dr)) = 1 => ControlStageFor(p, dr, inferred, inferred) = Entries(p, dr)
         /\ Cardinality(Entries(p, dr)) # 1 => ControlStageFor(p, dr, inferred, inferred) = {}
<1>. DEFINE q == HeadsTo(p, dr)
            R == Entries(p, dr)
<1>1. Lists(q, R)
  BY HeadsToLists
<1>2. ControlStageFor(p, dr, inferred, inferred) = IF Len(q) = 1 THEN {q[1]} ELSE {}
  BY DEF ControlStageFor
<1>. HIDE DEF q, R
<1>3. Cardinality(R) = Len(q)
  BY <1>1, ListsCounted
<1>4. Len(q) = 1 => R = {q[1]}
  BY <1>1, ListsOne
<1>5. QED
  BY <1>2, <1>3, <1>4 DEF R

LEMMA ResolverOfOne ==
  ASSUME NEW V, NEW p \in Pipelines(V), NEW dr \in Nodes(p), NEW inferred
  PROVE  LET r == NewRopeResolver(p, [x \in {dr} |-> inferred], inferred)
             R == Targets(p, dr, inferred, inferred)
         IN  (R = {} => r = <<>>) /\ (R # {} => r[dr] \in R)
<1>. DEFINE configs == [x \in {dr} |-> inferred]
            targets(x) == {t \in {[controlStage |-> c, segment |-> ResolveSegment(p, c, x)]
                                    : c \in ControlStageFor(p, x, configs[x], inferred)} : t.segment # <<>>}
            picked(x) == CHOOSE t \in targets(x) : TRUE
            r == NewRopeResolver(p, configs, inferred)
<1>1. Known(p, dr) /\ DOMAIN configs = {dr}
  BY DEF Known, Nodes
<1>2. targets(dr) = Targets(p, dr, inferred, inferred)
  BY DEF Targets, Target
<1>3. r = IF \E x \in DOMAIN configs : ~Known(p, x) \/ targets(x) = {} THEN <<>>
          ELSE [x \in DOMAIN configs |-> picked(x)]
  BY DEF NewRopeResolver
<1>4. targets(dr) # {} => picked(dr) \in targets(dr)
  <2>. HIDE DEF targets
  <2>1. QED
    OBVIOUS
<1>. HIDE DEF targets, picked, r
<1>5. targets(dr) = {} => r = <<>>
  BY <1>1, <1>3
<1>6. targets(dr) # {} => r[dr] = picked(dr)
  BY <1>1, <1>3
<1>7. QED
  BY <1>2, <1>4, <1>5, <1>6 DEF r, configs

\* On a pipeline of any size a drum has a rope exactly if one head feeds it and
\* nothing enters or leaves on the way from there (rope_supervisor.go:51-125).
THEOREM ResolverIsAlwaysRight ==
  ASSUME NEW V, NEW p \in Pipelines(V)
  PROVE  ResolverIsRight(p)
<1>1. SUFFICES ASSUME NEW dr \in ToSet(p.order)
               PROVE  LET r == NewRopeResolver(p, [x \in {dr} |-> Inferred], Inferred)
                          owned == {h \in Entries(p, dr) : ResolveSegment(p, h, dr) # <<>>}
                      IN  IF Cardinality(Entries(p, dr)) = 1 /\ owned = Entries(p, dr)
                          THEN r[dr].segment = ResolveSegment(p, r[dr].controlStage, dr) /\ r[dr].controlStage \in Entries(p, dr)
                          ELSE r = <<>>
  BY Zenon DEF ResolverIsRight, Entries
<1>. DEFINE E == Entries(p, dr)
            R == Targets(p, dr, Inferred, Inferred)
            C == ControlStageFor(p, dr, Inferred, Inferred)
            r == NewRopeResolver(p, [x \in {dr} |-> Inferred], Inferred)
            owned == {h \in E : ResolveSegment(p, h, dr) # <<>>}
<1>2. dr \in Nodes(p)
  BY DEF Nodes
<1>3. (Cardinality(E) = 1 => C = E) /\ (Cardinality(E) # 1 => C = {})
  BY <1>2, InferredStage
<1>4. (R = {} => r = <<>>) /\ (R # {} => r[dr] \in R)
  BY <1>2, ResolverOfOne
<1>5. \A t : t \in R <=> \E c \in C : t = Target(p, c, dr) /\ ResolveSegment(p, c, dr) # <<>>
  BY DEF Targets, Target
<1>6. CASE Cardinality(E) = 1 /\ owned = E
  <2>1. C = E /\ \E c : c \in E
    <3>1. E # {}
      BY <1>6, FS_EmptySet
    <3>2. QED
      BY <1>3, <1>6, <3>1
  <2>2. PICK c \in C : ResolveSegment(p, c, dr) # <<>>
    BY <1>6, <2>1
  <2>3. R # {}
    BY <1>5, <2>2
  <2>4. r[dr] \in R
    BY <1>4, <2>3
  <2>5. PICK b \in C : r[dr] = Target(p, b, dr)
    BY <1>5, <2>4
  <2>6. r[dr].controlStage = b /\ r[dr].segment = ResolveSegment(p, b, dr)
    BY <2>5 DEF Target
  <2>7. QED
    BY <1>6, <2>1, <2>6
<1>7. CASE ~(Cardinality(E) = 1 /\ owned = E)
  <2>1. R = {}
    <3>1. SUFFICES ASSUME NEW c \in C, ResolveSegment(p, c, dr) # <<>> PROVE FALSE
      BY <1>5
    <3>2. Cardinality(E) = 1 /\ C = E
      BY <1>3, <3>1
    <3>3. E = {c}
      <4>1. PICK x : E = {x}
        <5>1. Lists(HeadsTo(p, dr), E)
          BY <1>2, HeadsToLists
        <5>2. Len(HeadsTo(p, dr)) = 1
          BY <3>2, <5>1, ListsCounted
        <5>. HIDE DEF E
        <5>3. QED
          BY <5>1, <5>2, ListsOne
      <4>2. QED
        BY <3>1, <3>2, <4>1
    <3>4. owned = E
      BY <3>1, <3>3
    <3>5. QED
      BY <1>7, <3>2, <3>4
  <2>2. r = <<>>
    BY <1>4, <2>1
  <2>3. QED
    BY <1>7, <2>2
<1>8. QED
  BY <1>6, <1>7

-------------------------------------------------------------------------------
(* The pipelines of the run.                                                   *)

\* The pipelines that the run enumerates are among those that calls can build.
OpenPipelines(V) == {p \in Pipelines(V) : p.frozen = FALSE}

NamedUp(g, names) ==
  g = [i \in 0..Len(names) |-> IF i = 0 THEN NewPipeline ELSE AddStage(g[i - 1], names[i])]
NamedOf(names) == CHOOSE g : NamedUp(g, names)
Linking(p, e) == IF e[1] = "s1" THEN AddEdgeWithRatio(p, e[1], e[2], 2) ELSE AddEdge(p, e[1], e[2])
LinkedUp(g, first, calls) ==
  g = [i \in 0..Len(calls) |-> IF i = 0 THEN first ELSE Linking(g[i - 1], calls[i])]
LinkedOf(first, calls) == CHOOSE g : LinkedUp(g, first, calls)

LEMMA BuiltInSteps ==
  ASSUME NEW names, NEW calls
  PROVE  BuiltBy(names, calls) = LinkedOf(NamedOf(names)[Len(names)], calls)[Len(calls)]
BY DEF BuiltBy, NamedOf, NamedUp, LinkedOf, LinkedUp, Linking

LEMMA CallsStayOpen ==
  ASSUME NEW V, NEW p \in OpenPipelines(V)
  PROVE  /\ \A v \in V : AddStage(p, v) \in OpenPipelines(V)
         /\ \A e : Linking(p, e) \in OpenPipelines(V)
<1>1. p \in Pipelines(V) /\ p.frozen = FALSE
  BY DEF OpenPipelines
<1>2. p = [frozen |-> p.frozen, order |-> p.order, edges |-> p.edges]
  BY <1>1, PartsOfPipeline
<1>3. ASSUME NEW v \in V PROVE AddStage(p, v) \in OpenPipelines(V)
  <2>1. AddStage(p, v) \in Pipelines(V)
    BY <1>1, CallsBuildPipelines
  <2>2. [p EXCEPT !.order = Append(@, v)].frozen = p.frozen
    BY <1>2
  <2>3. AddStage(p, v).frozen = FALSE
    BY <1>1, <2>2 DEF AddStage
  <2>4. QED
    BY <2>1, <2>3 DEF OpenPipelines
<1>4. ASSUME NEW from, NEW to, NEW ratio \in Int PROVE AddEdgeWithRatio(p, from, to, ratio) \in OpenPipelines(V)
  <2>1. AddEdgeWithRatio(p, from, to, ratio) \in Pipelines(V)
    BY <1>1, CallsBuildPipelines
  <2>2. [p EXCEPT !.edges = Append(@, [from |-> from, to |-> to, ratio |-> ratio])].frozen = p.frozen
    BY <1>2
  <2>3. AddEdgeWithRatio(p, from, to, ratio).frozen = FALSE
    BY <1>1, <2>2 DEF AddEdgeWithRatio
  <2>4. QED
    BY <2>1, <2>3 DEF OpenPipelines
<1>5. \A e : Linking(p, e) \in OpenPipelines(V)
  BY <1>4 DEF Linking, AddEdge
<1>6. QED
  BY <1>3, <1>5

LEMMA BuiltIsPipeline ==
  ASSUME NEW V, NEW names \in Seq(V), NEW calls, Len(calls) \in Nat
  PROVE  BuiltBy(names, calls) \in OpenPipelines(V)
<1>. DEFINE S == OpenPipelines(V)
            N == Len(names)
            M == Len(calls)
<1>1. N \in Nat /\ M \in Nat /\ \A i \in 1..N : names[i] \in V
  OBVIOUS
<1>2. NewPipeline \in S
  BY CallsBuildPipelines DEF OpenPipelines, NewPipeline
<1>3. \A p \in S : (\A v \in V : AddStage(p, v) \in S) /\ \A e : Linking(p, e) \in S
  BY CallsStayOpen
<1>. HIDE DEF S
<1>4. NamedOf(names)[N] \in S
  <2>. DEFINE step == [a \in Nat \X S |-> IF a[1] \in 1..N THEN AddStage(a[2], names[a[1]]) ELSE a[2]]
              w == NamedOf(names)
  <2>1. step \in [Nat \X S -> S]
    BY <1>1, <1>3
  <2>2. PICK g \in [0..N -> S] : IteratesFrom(g, step, NewPipeline, N)
    <3>. HIDE DEF step, N
    <3>1. QED
      BY <1>1, <1>2, <2>1, IterationExists
  <2>3. \A n \in 0..N : n # 0 => n \in Nat /\ n \in 1..N /\ n - 1 \in 0..N
    BY <1>1
  <2>4. \A n \in 0..N : n # 0 => step[<<n, g[n - 1]>>] = AddStage(g[n - 1], names[n])
    <3>. HIDE DEF N
    <3>1. QED
      BY <2>2, <2>3
  <2>5. NamedUp(g, names)
    <3>1. g = [n \in 0..N |-> IF n = 0 THEN NewPipeline ELSE step[<<n, g[n - 1]>>]]
      BY <2>2 DEF IteratesFrom
    <3>. HIDE DEF step
    <3>2. g = [n \in 0..N |-> IF n = 0 THEN NewPipeline ELSE AddStage(g[n - 1], names[n])]
      BY <2>4, <3>1
    <3>3. QED
      BY <3>2 DEF NamedUp
  <2>6. NamedUp(w, names)
    BY <2>5 DEF NamedOf
  <2>7. w = [n \in 0..N |-> IF n = 0 THEN NewPipeline ELSE AddStage(w[n - 1], names[n])]
    BY <2>6 DEF NamedUp
  <2>8. w[0] = NewPipeline /\ \A n \in 0..N : n # 0 => w[n] = AddStage(w[n - 1], names[n])
    <3>1. 0 \in 0..N
      BY <1>1
    <3>. HIDE DEF w, N
    <3>2. QED
      BY <2>7, <3>1
  <2>. HIDE DEF w
  <2>9. \A n \in 0..N : w[n] \in S
    <3>. DEFINE B == {n \in 0..N : w[n] \notin S}
    <3>1. SUFFICES ASSUME B # {} PROVE FALSE
      OBVIOUS
    <3>2. B \in SUBSET Nat
      BY <1>1
    <3>3. PICK n \in B : \A m \in B : n <= m
      BY <3>1, <3>2, SmallestNumber
    <3>4. n # 0 /\ n \in 0..N /\ n - 1 \in 0..N /\ n - 1 \notin B
      BY <1>1, <1>2, <2>3, <2>8, <3>3
    <3>5. QED
      BY <1>1, <1>3, <2>3, <2>8, <3>3, <3>4
  <2>10. N \in 0..N
    BY <1>1
  <2>11. QED
    BY <2>9, <2>10 DEF w
<1>5. ASSUME NEW first \in S PROVE LinkedOf(first, calls)[M] \in S
  <2>. DEFINE step == [a \in Nat \X S |-> Linking(a[2], calls[a[1]])]
              w == LinkedOf(first, calls)
  <2>1. step \in [Nat \X S -> S]
    BY <1>3
  <2>2. PICK g \in [0..M -> S] : IteratesFrom(g, step, first, M)
    <3>. HIDE DEF step, M
    <3>1. QED
      BY <1>1, <2>1, IterationExists
  <2>3. \A n \in 0..M : n # 0 => n \in Nat /\ n \in 1..M /\ n - 1 \in 0..M
    BY <1>1
  <2>4. \A n \in 0..M : n # 0 => step[<<n, g[n - 1]>>] = Linking(g[n - 1], calls[n])
    <3>. HIDE DEF M
    <3>1. QED
      BY <2>2, <2>3
  <2>5. LinkedUp(g, first, calls)
    <3>1. g = [n \in 0..M |-> IF n = 0 THEN first ELSE step[<<n, g[n - 1]>>]]
      BY <2>2 DEF IteratesFrom
    <3>. HIDE DEF step
    <3>2. g = [n \in 0..M |-> IF n = 0 THEN first ELSE Linking(g[n - 1], calls[n])]
      BY <2>4, <3>1
    <3>3. QED
      BY <3>2 DEF LinkedUp
  <2>6. LinkedUp(w, first, calls)
    BY <2>5 DEF LinkedOf
  <2>7. w = [n \in 0..M |-> IF n = 0 THEN first ELSE Linking(w[n - 1], calls[n])]
    BY <2>6 DEF LinkedUp
  <2>8. w[0] = first /\ \A n \in 0..M : n # 0 => w[n] = Linking(w[n - 1], calls[n])
    <3>1. 0 \in 0..M
      BY <1>1
    <3>. HIDE DEF w, M
    <3>2. QED
      BY <2>7, <3>1
  <2>. HIDE DEF w
  <2>9. \A n \in 0..M : w[n] \in S
    <3>. DEFINE B == {n \in 0..M : w[n] \notin S}
    <3>1. SUFFICES ASSUME B # {} PROVE FALSE
      OBVIOUS
    <3>2. B \in SUBSET Nat
      BY <1>1
    <3>3. PICK n \in B : \A m \in B : n <= m
      BY <3>1, <3>2, SmallestNumber
    <3>4. n # 0 /\ n \in 0..M /\ n - 1 \in 0..M /\ n - 1 \notin B
      BY <1>1, <2>3, <2>8, <3>3
    <3>5. QED
      BY <1>1, <1>3, <2>3, <2>8, <3>3, <3>4
  <2>10. M \in 0..M
    BY <1>1
  <2>11. QED
    BY <2>9, <2>10 DEF w
<1>6. QED
  BY <1>4, <1>5, BuiltInSteps DEF S

\* The run's property, then: every pipeline it enumerates is answered rightly.
THEOREM GraphHolds == GraphAnswers
<1>. DEFINE V == {"s1", "s2", "s3", "s4"}
<1>1. ASSUME NEW p \in SmallPipelines PROVE p \in OpenPipelines(V)
  <2>1. PICK n \in 1..4 :
          \E T \in SUBSET ToSet(EdgeCalls(n)) : \/ p = BuiltBy(SubSeq(Names, 1, n), Only(EdgeCalls(n), T))
                                                \/ p = BuiltBy(SubSeq(Names, 1, n), Reverse(Only(EdgeCalls(n), T)))
    BY DEF SmallPipelines
  <2>. PICK T \in SUBSET ToSet(EdgeCalls(n)) : \/ p = BuiltBy(SubSeq(Names, 1, n), Only(EdgeCalls(n), T))
                                               \/ p = BuiltBy(SubSeq(Names, 1, n), Reverse(Only(EdgeCalls(n), T)))
    BY <2>1
  <2>. DEFINE s == Only(EdgeCalls(n), T)
  <2>2. SubSeq(Names, 1, n) \in Seq(V)
    <3>1. Names \in Seq(V) /\ Len(Names) = 4
      BY DEF Names
    <3>. HIDE DEF V, Names
    <3>2. n \in 0..Len(Names)
      BY <3>1
    <3>3. QED
      BY <3>1, <3>2, PrefixIs
  <2>3. Len(s) \in Nat
    <3>. DEFINE P == Pairs(n)
                C == ToSet(P)
    <3>1. P \in Seq(C)
      <4>1. P = [i \in 1..(n * n) |-> P[i]] /\ DOMAIN P = 1..(n * n) /\ n * n \in Nat
        BY DEF Pairs
      <4>. HIDE DEF P
      <4>2. \A i \in 1..(n * n) : P[i] \in C
        BY <4>1 DEF ToSet
      <4>. HIDE DEF C
      <4>3. QED
        BY <4>1, <4>2
    <3>. HIDE DEF P, C
    <3>2. EdgeCalls(n) \in Seq(C)
      BY <3>1, OnlyPlaces DEF EdgeCalls, P
    <3>3. s \in Seq(C)
      BY <3>2, OnlyPlaces
    <3>4. QED
      BY <3>3
  <2>4. Len(Reverse(s)) \in Nat
    BY <2>3 DEF Reverse
  <2>. HIDE DEF V
  <2>5. QED
    BY <2>2, <2>3, <2>4, BuiltIsPipeline
<1>. HIDE DEF V
<1>2. ASSUME NEW p \in SmallPipelines
      PROVE  /\ FreezeIsRight(p)
             /\ QueriesAreRight(Freeze(p)) /\ SegmentsAreRight(Freeze(p)) /\ ResolverIsRight(Freeze(p))
  <2>1. p \in Pipelines(V) /\ ~p.frozen /\ Freeze(p) \in Pipelines(V)
    BY <1>1, CallsBuildPipelines DEF OpenPipelines
  <2>2. FreezeIsRight(p)
    BY <2>1, FreezeIsAlwaysRight
  <2>3. QueriesAreRight(Freeze(p)) /\ SegmentsAreRight(Freeze(p)) /\ ResolverIsRight(Freeze(p))
    BY <2>1, QueriesAreAlwaysRight, SegmentsAreAlwaysRight, ResolverIsAlwaysRight
  <2>4. QED
    BY <2>2, <2>3
<1>3. QED
  BY <1>2, Zenon DEF GraphAnswers
===============================================================================
