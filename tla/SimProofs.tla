----------------------------- MODULE SimProofs -----------------------------
(***************************************************************************)
(* The simulator, for every line of stages, every constraint, every rope   *)
(* and all caps: no item is lost, doubled or served without a server, and  *)
(* settling leaves no free server with work before it.                     *)
(*                                                                         *)
(* Each zero-time transition keeps the books of the engine (EngineOK): an  *)
(* item is moved between two places (MoveKeepsItems) or put into service   *)
(* (StartKeepsItems), with the server it takes.  A lap leaves the line     *)
(* Rested, and from a rested line a lap makes progress only by unblocking  *)
(* an item, so settling ends in time if few servers can be blocked, or if  *)
(* the caps leave room for one item: then whatever stays blocked stands    *)
(* behind a busy constraint, and two laps are enough.                      *)
(***************************************************************************)
EXTENDS MCDes, Lemmas

-----------------------------------------------------------------------------
(* Sequences of items. *)

\* A queue cut after its first k items.
LEMMA CutQueue ==
  ASSUME NEW q \in Seq(Nat), NEW k \in 0..Len(q)
  PROVE  /\ Rest(q, k) \in Seq(Nat) /\ Len(Rest(q, k)) = Len(q) - k
         /\ \A j \in 1..Len(q) - k : Rest(q, k)[j] = q[j + k]
         /\ SubSeq(q, 1, k) \in Seq(Nat) /\ Len(SubSeq(q, 1, k)) = k
         /\ \A j \in 1..k : SubSeq(q, 1, k)[j] = q[j]
         /\ Rest(q, 0) = q
<1> DEFINE r == Rest(q, k)
           f == SubSeq(q, 1, k)
<1>1. r \in Seq(Nat) /\ Len(r) = Len(q) - k
  BY DEF Rest
<1>2. \A j \in 1..Len(q) - k : r[j] = q[j + k]
  BY DEF Rest
<1>3. f \in Seq(Nat) /\ Len(f) = k /\ \A j \in 1..k : f[j] = q[j]
  OBVIOUS
<1>4. Rest(q, 0) = q
  BY DEF Rest
<1>5. QED
  BY <1>1, <1>2, <1>3, <1>4

\* The items of the parts, and of two queues in a row.
LEMMA CutItems ==
  ASSUME NEW q \in Seq(Nat), NEW k \in 0..Len(q)
  PROVE  Items(q) = Items(SubSeq(q, 1, k)) \cup Items(Rest(q, k))
<1> DEFINE r == Rest(q, k)
           f == SubSeq(q, 1, k)
<1>1. /\ Len(q) \in Nat /\ k \in Nat /\ k <= Len(q)
      /\ r \in Seq(Nat) /\ Len(r) = Len(q) - k /\ f \in Seq(Nat) /\ Len(f) = k
      /\ \A j \in 1..Len(q) - k : r[j] = q[j + k]
      /\ \A j \in 1..k : f[j] = q[j]
  BY CutQueue
<1> HIDE DEF r, f
<1>2. DOMAIN q = 1..Len(q) /\ DOMAIN r = 1..(Len(q) - k) /\ DOMAIN f = 1..k
  BY <1>1
<1>3. ASSUME NEW x \in Items(q)
      PROVE  x \in Items(f) \cup Items(r)
  <2>1. PICK i \in 1..Len(q) : x = q[i]
    BY <1>2, <1>3 DEF Items
  <2>2. CASE i <= k
    <3>1. i \in 1..k /\ f[i] = q[i]
      BY <2>1, <2>2, <1>1
    <3>2. QED
      BY <3>1, <2>1, <1>2 DEF Items
  <2>3. CASE i > k
    <3>1. i - k \in 1..(Len(q) - k) /\ r[i - k] = q[i]
      BY <2>1, <2>3, <1>1
    <3>2. QED
      BY <3>1, <2>1, <1>2 DEF Items
  <2>4. QED
    BY <2>1, <2>2, <2>3
<1>4. ASSUME NEW x \in Items(r)
      PROVE  x \in Items(q)
  <2>1. PICK i \in 1..(Len(q) - k) : x = r[i]
    BY <1>2, <1>4 DEF Items
  <2>2. i + k \in 1..Len(q) /\ q[i + k] = x
    BY <2>1, <1>1
  <2>3. QED
    BY <2>2, <1>2 DEF Items
<1>5. ASSUME NEW x \in Items(f)
      PROVE  x \in Items(q)
  <2>1. PICK i \in 1..k : x = f[i]
    BY <1>2, <1>5 DEF Items
  <2>2. i \in 1..Len(q) /\ q[i] = x
    BY <2>1, <1>1
  <2>3. QED
    BY <2>2, <1>2 DEF Items
<1>6. QED
  BY <1>3, <1>4, <1>5 DEF f, r

\* Two queues in a row hold the items of both.
LEMMA ConcatItems ==
  ASSUME NEW q \in Seq(Nat), NEW r \in Seq(Nat)
  PROVE  /\ q \o r \in Seq(Nat) /\ Len(q \o r) = Len(q) + Len(r)
         /\ Items(q \o r) = Items(q) \cup Items(r)
<1> DEFINE t == q \o r
<1>1. /\ Len(q) \in Nat /\ Len(r) \in Nat
      /\ t \in Seq(Nat) /\ Len(t) = Len(q) + Len(r)
      /\ \A i \in 1..Len(q) : t[i] = q[i]
      /\ \A i \in 1..Len(r) : t[i + Len(q)] = r[i]
      /\ \A i \in 1..Len(t) : i > Len(q) => t[i] = r[i - Len(q)] /\ i - Len(q) \in 1..Len(r)
  BY ConcatProperties
<1> HIDE DEF t
<1>2. DOMAIN q = 1..Len(q) /\ DOMAIN r = 1..Len(r) /\ DOMAIN t = 1..Len(t)
  BY <1>1
<1>3. ASSUME NEW x \in Items(t)
      PROVE  x \in Items(q) \cup Items(r)
  <2>1. PICK i \in 1..Len(t) : x = t[i]
    BY <1>2, <1>3 DEF Items
  <2>2. CASE i <= Len(q)
    <3>1. i \in 1..Len(q)
      BY <2>1, <2>2
    <3>2. QED
      BY <3>1, <2>1, <1>1, <1>2 DEF Items
  <2>3. CASE i > Len(q)
    BY <2>1, <2>3, <1>1, <1>2 DEF Items
  <2>4. QED
    BY <2>1, <2>2, <2>3, <1>1
<1>4. ASSUME NEW x \in Items(q)
      PROVE  x \in Items(t)
  <2>1. PICK i \in 1..Len(q) : x = q[i]
    BY <1>2, <1>4 DEF Items
  <2>2. i \in 1..Len(t) /\ t[i] = x
    BY <2>1, <1>1
  <2>3. QED
    BY <2>2, <1>2 DEF Items
<1>5. ASSUME NEW x \in Items(r)
      PROVE  x \in Items(t)
  <2>1. PICK i \in 1..Len(r) : x = r[i]
    BY <1>2, <1>5 DEF Items
  <2>2. i + Len(q) \in 1..Len(t) /\ t[i + Len(q)] = x
    BY <2>1, <1>1
  <2>3. QED
    BY <2>2, <1>2 DEF Items
<1>6. QED
  BY <1>1, <1>3, <1>4, <1>5 DEF t

\* No item stands twice in q.
Once(q) == \A j, k \in DOMAIN q : q[j] = q[k] => j = k

\* If no item stands twice in a queue, none does in a part of it, or in both parts.
LEMMA CutOnce ==
  ASSUME NEW q \in Seq(Nat), NEW k \in 0..Len(q), Once(q)
  PROVE  /\ Once(SubSeq(q, 1, k)) /\ Once(Rest(q, k))
         /\ Items(SubSeq(q, 1, k)) \cap Items(Rest(q, k)) = {}
<1> DEFINE r == Rest(q, k)
           f == SubSeq(q, 1, k)
<1>1. /\ Len(q) \in Nat /\ k \in Nat /\ k <= Len(q)
      /\ r \in Seq(Nat) /\ Len(r) = Len(q) - k /\ f \in Seq(Nat) /\ Len(f) = k
      /\ \A j \in 1..Len(q) - k : r[j] = q[j + k]
      /\ \A j \in 1..k : f[j] = q[j]
  BY CutQueue
<1> HIDE DEF r, f
<1>2. DOMAIN q = 1..Len(q) /\ DOMAIN r = 1..(Len(q) - k) /\ DOMAIN f = 1..k
  BY <1>1
<1>3. Once(f)
  <2> SUFFICES ASSUME NEW i \in 1..k, NEW j \in 1..k, f[i] = f[j]
               PROVE  i = j
    BY <1>2 DEF Once
  <2>1. i \in 1..Len(q) /\ j \in 1..Len(q) /\ q[i] = q[j]
    BY <1>1
  <2>2. QED
    BY <2>1, <1>2 DEF Once
<1>4. Once(r)
  <2> SUFFICES ASSUME NEW i \in 1..(Len(q) - k), NEW j \in 1..(Len(q) - k), r[i] = r[j]
               PROVE  i = j
    BY <1>2 DEF Once
  <2>1. i + k \in 1..Len(q) /\ j + k \in 1..Len(q) /\ q[i + k] = q[j + k]
    BY <1>1, SMTT(30)
  <2>2. i + k = j + k
    BY <2>1, <1>2 DEF Once
  <2>3. QED
    BY <2>2
<1>5. ASSUME NEW x \in Items(f), x \in Items(r)
      PROVE  FALSE
  <2>1. PICK i \in 1..k : x = f[i]
    BY <1>2, <1>5 DEF Items
  <2>2. PICK j \in 1..(Len(q) - k) : x = r[j]
    BY <1>2, <1>5 DEF Items
  <2>3. /\ i \in 1..Len(q) /\ q[i] = x
        /\ j + k \in 1..Len(q) /\ q[j + k] = x
    <3>1. i \in 1..Len(q) /\ q[i] = x
      BY <2>1, <1>1
    <3>2. j + k \in 1..Len(q) /\ q[j + k] = x
      BY <2>2, <1>1
    <3>3. QED
      BY <3>1, <3>2
  <2>4. i = j + k
    BY <2>3, <1>2 DEF Once
  <2>5. QED
    BY <2>4, <2>1, <2>2
<1>6. QED
  BY <1>3, <1>4, <1>5 DEF f, r

\* Nor does one in two queues in a row that share none.
LEMMA ConcatOnce ==
  ASSUME NEW q \in Seq(Nat), NEW r \in Seq(Nat), Once(q), Once(r),
         Items(q) \cap Items(r) = {}
  PROVE  Once(q \o r)
<1> DEFINE t == q \o r
<1>1. /\ Len(q) \in Nat /\ Len(r) \in Nat
      /\ t \in Seq(Nat) /\ Len(t) = Len(q) + Len(r)
      /\ \A i \in 1..Len(q) : t[i] = q[i]
      /\ \A i \in 1..Len(t) : i > Len(q) => t[i] = r[i - Len(q)] /\ i - Len(q) \in 1..Len(r)
  BY ConcatProperties
<1> HIDE DEF t
<1>2. DOMAIN q = 1..Len(q) /\ DOMAIN r = 1..Len(r) /\ DOMAIN t = 1..Len(t)
  BY <1>1
<1>3. \A i \in 1..Len(q), j \in 1..Len(r) : q[i] # r[j]
  BY <1>2 DEF Items
<1>4. ASSUME NEW i \in 1..Len(t), NEW j \in 1..Len(t), t[i] = t[j], i < j
      PROVE  FALSE
  <2>1. CASE j <= Len(q)
    <3>1. i \in 1..Len(q) /\ j \in 1..Len(q) /\ q[i] = q[j]
      BY <1>1, <1>4, <2>1
    <3>2. i = j
      BY <3>1, <1>2 DEF Once
    <3>3. QED
      BY <3>2, <1>4
  <2>2. CASE i <= Len(q) /\ j > Len(q)
    <3>1. i \in 1..Len(q) /\ t[i] = q[i] /\ t[j] = r[j - Len(q)] /\ j - Len(q) \in 1..Len(r)
      BY <1>1, <1>4, <2>2, SMTT(30)
    <3>2. QED
      BY <3>1, <1>3, <1>4
  <2>3. CASE i > Len(q)
    <3>1. i - Len(q) \in 1..Len(r) /\ r[i - Len(q)] = t[i]
      BY <1>1, <2>3
    <3>2. j > Len(q)
      BY <1>1, <1>4, <2>3
    <3>3. j - Len(q) \in 1..Len(r) /\ r[j - Len(q)] = t[j]
      BY <1>1, <3>2
    <3>4. i - Len(q) = j - Len(q)
      BY <3>1, <3>3, <1>2, <1>4 DEF Once
    <3>5. QED
      BY <3>4, <1>4, <1>1
  <2>4. QED
    BY <1>1, <2>1, <2>2, <2>3, SMTT(30)
<1>5. ASSUME NEW i \in 1..Len(t), NEW j \in 1..Len(t), t[i] = t[j]
      PROVE  i = j
  <2>1. ~(i < j)
    BY <1>4, <1>5
  <2>2. ~(j < i)
    BY <1>4, <1>5
  <2>3. QED
    BY <2>1, <2>2, <1>1
<1>6. QED
  BY <1>2, <1>5 DEF Once, t

-----------------------------------------------------------------------------
(* The places of the line. *)

\* A line has a stage, and every place is a queue.
LEMMA AtPlace ==
  ASSUME NEW d \in Engines
  PROVE  /\ Len(Workers) \in Nat /\ 1 \in Stages /\ Len(Workers) \in Stages
         /\ Places = {Backlog, Buffer, Blocked} \cup Stages
         /\ {Backlog, Buffer, Blocked} \cap Stages = {}
         /\ At(d, Backlog) = d.backlog /\ At(d, Buffer) = d.buffer /\ At(d, Blocked) = d.blocked
         /\ \A s \in Stages : At(d, s) = d.queued[s]
         /\ \A p \in Places : At(d, p) \in Seq(Nat)
<1>1. Len(Workers) \in Nat /\ Len(Workers) # 0
  BY ConfigAssumption DEF ValidConfig
<1>2. /\ 1 \in Stages /\ Len(Workers) \in Stages
      /\ Places = {Backlog, Buffer, Blocked} \cup Stages
      /\ {Backlog, Buffer, Blocked} \cap Stages = {}
  BY <1>1 DEF Places, Stages, Backlog, Buffer, Blocked
<1>3. At(d, Backlog) = d.backlog /\ At(d, Buffer) = d.buffer /\ At(d, Blocked) = d.blocked
  BY DEF At, Backlog, Buffer, Blocked
<1>4. ASSUME NEW s \in Stages
      PROVE  At(d, s) = d.queued[s]
  BY <1>1 DEF At, Stages, Backlog, Buffer, Blocked
<1>5. ASSUME NEW p \in Places
      PROVE  At(d, p) \in Seq(Nat)
  <2>1. /\ d.backlog \in Seq(Nat) /\ d.buffer \in Seq(Nat) /\ d.blocked \in Seq(Nat)
        /\ \A s \in Stages : d.queued[s] \in Seq(Nat)
    BY DEF Engines
  <2>2. QED
    BY <1>2, <1>3, <1>4, <1>5, <2>1
<1>6. QED
  BY <1>1, <1>2, <1>3, <1>4, <1>5

\* What is apart, with the queues named by Once.
Apart(d) ==
  /\ \A p \in Places : Once(At(d, p))
  /\ \A p, q \in Places : p # q => Items(At(d, p)) \cap Items(At(d, q)) = {}
  /\ \A a, b \in d.pending : a[2] = b[2] => a = b
  /\ \A a \in d.pending, p \in Places : a[2] \notin Items(At(d, p))

\* The two ways to say it agree.
LEMMA ApartIsNowhereTwice ==
  ASSUME NEW d
  PROVE  NowhereTwice(d) <=> Apart(d)
BY DEF NowhereTwice, Apart, Once

\* The first k items of one place go to the end of another.
LEMMA MoveKeepsItems ==
  ASSUME NEW d \in Engines, NEW e \in Engines, NowhereTwice(d),
         NEW p \in Places, NEW q \in Places, p # q, NEW k \in 0..Len(At(d, p)),
         At(e, p) = Rest(At(d, p), k), At(e, q) = At(d, q) \o SubSeq(At(d, p), 1, k),
         \A r \in Places \ {p, q} : At(e, r) = At(d, r), e.pending = d.pending
  PROVE  NowhereTwice(e) /\ Somewhere(e) = Somewhere(d)
<1> DEFINE moved == SubSeq(At(d, p), 1, k)
           left  == Rest(At(d, p), k)
<1>1. \A r \in Places : At(d, r) \in Seq(Nat)
  BY AtPlace
<1>2. Apart(d)
  BY ApartIsNowhereTwice
<1>3. /\ moved \in Seq(Nat) /\ left \in Seq(Nat)
      /\ Items(At(d, p)) = Items(moved) \cup Items(left)
      /\ Items(moved) \cap Items(left) = {}
      /\ Once(moved) /\ Once(left)
  BY <1>1, <1>2, CutQueue, CutItems, CutOnce DEF Apart
<1>4. Items(At(d, q)) \cap Items(moved) = {}
  BY <1>2, <1>3 DEF Apart
<1> HIDE DEF moved, left
<1>5. At(e, p) = left /\ At(e, q) = At(d, q) \o moved
  BY DEF left, moved
<1>6. Items(At(e, q)) = Items(At(d, q)) \cup Items(moved) /\ Once(At(e, q))
  <2> DEFINE before == At(d, q)
  <2>1. before \in Seq(Nat) /\ Once(before) /\ Items(before) \cap Items(moved) = {}
    BY <1>1, <1>2, <1>4 DEF Apart
  <2> HIDE DEF before
  <2>2. Items(before \o moved) = Items(before) \cup Items(moved) /\ Once(before \o moved)
    BY <1>3, <2>1, ConcatItems, ConcatOnce
  <2>3. QED
    BY <1>5, <2>2 DEF before
<1>7. \A r \in Places : Once(At(e, r))
  BY <1>2, <1>3, <1>5, <1>6 DEF Apart
<1>8. ASSUME NEW x, NEW r \in Places, x \in Items(At(e, r))
      PROVE  \/ r = q /\ x \in Items(moved)
             \/ x \in Items(At(d, r)) /\ (r = p => x \notin Items(moved))
  BY <1>3, <1>5, <1>6, <1>8
<1>9. ASSUME NEW a \in Places, NEW b \in Places, a # b, NEW x,
             x \in Items(At(e, a)), x \in Items(At(e, b))
      PROVE  FALSE
  <2>1. x \in Items(moved) => x \in Items(At(d, p))
    BY <1>3
  <2>2. \A r, t \in Places : x \in Items(At(d, r)) /\ x \in Items(At(d, t)) => r = t
    BY <1>2 DEF Apart
  <2>3. QED
    BY <1>8, <1>9, <2>1, <2>2
<1>10. UNION {Items(At(e, r)) : r \in Places} = UNION {Items(At(d, r)) : r \in Places}
  <2>1. ASSUME NEW r \in Places, NEW x \in Items(At(e, r))
        PROVE  \E t \in Places : x \in Items(At(d, t))
    BY <1>3, <1>8, <2>1
  <2>2. ASSUME NEW r \in Places, NEW x \in Items(At(d, r))
        PROVE  \E t \in Places : x \in Items(At(e, t))
    BY <1>3, <1>5, <1>6, <2>2
  <2>3. QED
    BY <2>1, <2>2
<1>11. \A a \in e.pending, r \in Places : a[2] \notin Items(At(e, r))
  <2>1. SUFFICES ASSUME NEW a \in e.pending, NEW r \in Places, a[2] \in Items(At(e, r))
                 PROVE  FALSE
    OBVIOUS
  <2>2. PICK t \in Places : a[2] \in Items(At(d, t))
    BY <1>3, <1>8, <2>1
  <2>3. QED
    BY <1>2, <2>2 DEF Apart
<1>12. Apart(e)
  BY <1>2, <1>7, <1>9, <1>11 DEF Apart
<1>13. QED
  BY <1>10, <1>12, ApartIsNowhereTwice DEF Somewhere

\* The completions scheduled when k[s] items start at each stage s.
Starts(d, k) == UNION {{<<s, d.queued[s][j]>> : j \in 1..k[s]} : s \in Stages}

\* Items enter service: of each queue the first k[s] items.
LEMMA StartKeepsItems ==
  ASSUME NEW d \in Engines, NEW e \in Engines, NowhereTwice(d),
         NEW k, \A s \in Stages : k[s] \in 0..Len(d.queued[s]),
         \A s \in Stages : e.queued[s] = Rest(d.queued[s], k[s]),
         e.backlog = d.backlog, e.buffer = d.buffer, e.blocked = d.blocked,
         e.pending = d.pending \cup Starts(d, k)
  PROVE  NowhereTwice(e) /\ Somewhere(e) = Somewhere(d)
<1> DEFINE gone(s) == Items(SubSeq(d.queued[s], 1, k[s]))
<1>1. /\ \A r \in Places : At(d, r) \in Seq(Nat)
      /\ Places = {Backlog, Buffer, Blocked} \cup Stages
      /\ \A r \in Places \ Stages : At(e, r) = At(d, r)
      /\ \A s \in Stages : At(d, s) = d.queued[s] /\ At(e, s) = Rest(d.queued[s], k[s])
  <2>1. /\ \A r \in Places : At(d, r) \in Seq(Nat)
        /\ Places = {Backlog, Buffer, Blocked} \cup Stages
        /\ At(d, Backlog) = d.backlog /\ At(d, Buffer) = d.buffer /\ At(d, Blocked) = d.blocked
        /\ \A s \in Stages : At(d, s) = d.queued[s]
    BY AtPlace
  <2>2. /\ At(e, Backlog) = e.backlog /\ At(e, Buffer) = e.buffer /\ At(e, Blocked) = e.blocked
        /\ \A s \in Stages : At(e, s) = e.queued[s]
    BY AtPlace
  <2>3. \A r \in Places \ Stages : At(e, r) = At(d, r)
    BY <2>1, <2>2
  <2>4. QED
    BY <2>1, <2>2, <2>3
<1>2. Apart(d)
  BY ApartIsNowhereTwice
<1>3. ASSUME NEW s \in Stages
      PROVE  /\ Items(At(d, s)) = gone(s) \cup Items(At(e, s))
             /\ gone(s) \cap Items(At(e, s)) = {}
             /\ Once(At(e, s))
             /\ gone(s) = {d.queued[s][j] : j \in 1..k[s]}
  <2>1. d.queued[s] \in Seq(Nat) /\ k[s] \in 0..Len(d.queued[s]) /\ Once(d.queued[s])
    BY <1>1, <1>2 DEF Apart
  <2>2. /\ Items(d.queued[s]) = gone(s) \cup Items(Rest(d.queued[s], k[s]))
        /\ gone(s) \cap Items(Rest(d.queued[s], k[s])) = {}
        /\ Once(Rest(d.queued[s], k[s]))
    BY <2>1, CutItems, CutOnce
  <2>3. DOMAIN SubSeq(d.queued[s], 1, k[s]) = 1..k[s]
        /\ \A j \in 1..k[s] : SubSeq(d.queued[s], 1, k[s])[j] = d.queued[s][j]
    BY <2>1, CutQueue
  <2>4. gone(s) = {d.queued[s][j] : j \in 1..k[s]}
    BY <2>3 DEF Items
  <2>5. QED
    BY <1>1, <2>2, <2>4
<1> HIDE DEF gone
<1>4. \A x : x \in e.pending <=> \/ x \in d.pending
                                 \/ \E s \in Stages : \E j \in 1..k[s] : x = <<s, d.queued[s][j]>>
  BY DEF Starts
<1>5. ASSUME NEW x \in e.pending
      PROVE  x \in d.pending \/ \E s \in Stages : \E i \in gone(s) : x = <<s, i>>
  BY <1>3, <1>4
<1>6. ASSUME NEW s \in Stages, NEW i \in gone(s)
      PROVE  <<s, i>> \in e.pending
  BY <1>3, <1>4, <1>6
<1>7. \A s \in Stages : s \in Places
  BY <1>1
<1>8. \A r \in Places : Once(At(e, r))
  BY <1>1, <1>2, <1>3 DEF Apart
<1>9. ASSUME NEW r \in Places
      PROVE  Items(At(e, r)) \subseteq Items(At(d, r))
  BY <1>1, <1>3
<1>10. \A a, b \in Places : a # b => Items(At(e, a)) \cap Items(At(e, b)) = {}
  BY <1>2, <1>9 DEF Apart
<1>11. ASSUME NEW a \in e.pending, NEW b \in e.pending, a[2] = b[2]
       PROVE  a = b
  <2>1. CASE a \in d.pending /\ b \in d.pending
    BY <1>2, <1>11, <2>1 DEF Apart
  <2>2. ASSUME NEW x \in d.pending, NEW s \in Stages, NEW i \in gone(s), x[2] = i
        PROVE  FALSE
    <3>1. i \in Items(At(d, s))
      BY <1>3, <2>2
    <3>2. QED
      BY <1>2, <1>7, <2>2, <3>1 DEF Apart
  <2>3. ASSUME NEW s \in Stages, NEW i \in gone(s), NEW t \in Stages, NEW j \in gone(t), i = j
        PROVE  s = t
    <3>1. i \in Items(At(d, s)) /\ i \in Items(At(d, t))
      BY <1>3, <2>3
    <3>2. QED
      BY <1>2, <1>7, <3>1 DEF Apart
  <2>4. QED
    BY <1>5, <1>11, <2>1, <2>2, <2>3
<1>12. ASSUME NEW a \in e.pending, NEW r \in Places, a[2] \in Items(At(e, r))
       PROVE  FALSE
  <2>1. CASE a \in d.pending
    BY <1>2, <1>9, <1>12, <2>1 DEF Apart
  <2>2. ASSUME NEW s \in Stages, NEW i \in gone(s), a = <<s, i>>
        PROVE  FALSE
    <3>1. i \in Items(At(d, s)) /\ i \in Items(At(e, r)) /\ i \in Items(At(d, r))
      BY <1>3, <1>9, <1>12, <2>2
    <3>2. r = s
      BY <1>2, <1>7, <3>1 DEF Apart
    <3>3. QED
      BY <1>3, <2>2, <3>1, <3>2
  <2>3. QED
    BY <1>5, <1>12, <2>1, <2>2
<1>13. Apart(e)
  BY <1>8, <1>10, <1>11, <1>12 DEF Apart
<1>14. ASSUME NEW x
       PROVE  x \in Somewhere(e) <=> x \in Somewhere(d)
  <2>1. ASSUME NEW s \in Stages, NEW i \in gone(s)
        PROVE  i \in Somewhere(d) /\ i \in Somewhere(e)
    <3>1. i \in Items(At(d, s))
      BY <1>3, <2>1
    <3>2. <<s, i>> \in e.pending /\ <<s, i>>[2] = i
      BY <1>6, <2>1
    <3>3. i \in {a[2] : a \in e.pending}
      BY <3>2
    <3>4. QED
      BY <1>7, <3>1, <3>3 DEF Somewhere
  <2>2. ASSUME NEW r \in Places, x \in Items(At(e, r))
        PROVE  x \in Somewhere(d)
    BY <1>9, <2>2 DEF Somewhere
  <2>3. ASSUME NEW a \in e.pending, x = a[2]
        PROVE  x \in Somewhere(d)
    BY <1>5, <2>1, <2>3 DEF Somewhere
  <2>4. ASSUME NEW r \in Places, x \in Items(At(d, r))
        PROVE  x \in Somewhere(e)
    <3>1. x \in Items(At(e, r)) \/ \E s \in Stages : x \in gone(s)
      BY <1>1, <1>3, <2>4
    <3>2. QED
      BY <2>1, <3>1 DEF Somewhere
  <2>5. ASSUME NEW a \in d.pending, x = a[2]
        PROVE  x \in Somewhere(e)
    BY <1>4, <2>5 DEF Somewhere
  <2>6. x \in Somewhere(e) => x \in Somewhere(d)
    BY <2>2, <2>3 DEF Somewhere
  <2>7. x \in Somewhere(d) => x \in Somewhere(e)
    BY <2>4, <2>5 DEF Somewhere
  <2>8. QED
    BY <2>6, <2>7
<1>15. QED
  BY <1>13, <1>14, ApartIsNowhereTwice

-----------------------------------------------------------------------------
(* Engines. *)

\* An engine is its parts.
Parts(d) ==
  [backlog |-> d.backlog, queued |-> d.queued, pending |-> d.pending,
   inService |-> d.inService, blocked |-> d.blocked, buffer |-> d.buffer,
   bufferTime |-> d.bufferTime, bufferMaxTime |-> d.bufferMaxTime,
   ropeRate |-> d.ropeRate, admissions |-> d.admissions, arrivals |-> d.arrivals,
   completed |-> d.completed, intervals |-> d.intervals,
   breached |-> d.breached, diverged |-> d.diverged]

\* Engines with equal parts are equal.
LEMMA EnginesParts ==
  ASSUME NEW d \in Engines
  PROVE  d = Parts(d)
BY DEF Engines, Parts

-----------------------------------------------------------------------------
(* The books of an engine. *)

Served(d, s) == {a \in d.pending : a[1] = s}

\* Items completed and items in the line are the items that arrived.
Accounted(d) ==
  /\ Somewhere(d) \subseteq 1..d.arrivals
  /\ d.completed + Cardinality(Somewhere(d)) = d.arrivals

\* The servers held, when c is the constraint.
ServersHeld(d, c) ==
  \A s \in Stages :
    /\ d.inService[s] = Cardinality(Served(d, s)) + (IF s = c - 1 THEN Len(d.blocked) ELSE 0)
    /\ d.inService[s] <= Workers[s]

EngineOK(d, c) ==
  /\ d \in Engines /\ NowhereTwice(d) /\ Accounted(d) /\ ServersHeld(d, c)
  /\ d.bufferTime = Cost * Len(d.buffer)
  /\ c = 1 => d.buffer = <<>> /\ d.blocked = <<>>

\* What no zero-time transition touches.
Kept(d, e) ==
  /\ e.arrivals = d.arrivals /\ e.completed = d.completed
  /\ e.bufferMaxTime = d.bufferMaxTime /\ e.diverged = d.diverged /\ e.breached = d.breached

\* Items and services are finitely many, if the books balance.
LEMMA PendingFinite ==
  ASSUME NEW d \in Engines, NowhereTwice(d), Somewhere(d) \subseteq 1..d.arrivals
  PROVE  /\ IsFiniteSet(Somewhere(d)) /\ Cardinality(Somewhere(d)) \in Nat
         /\ IsFiniteSet(d.pending)
         /\ \A s \in Stages : IsFiniteSet(Served(d, s)) /\ Cardinality(Served(d, s)) \in Nat
<1>1. d.arrivals \in Nat
  BY DEF Engines
<1>2. IsFiniteSet(Somewhere(d)) /\ Cardinality(Somewhere(d)) \in Nat
  <2>1. IsFiniteSet(1..d.arrivals)
    BY <1>1, FS_Interval
  <2>2. IsFiniteSet(Somewhere(d))
    BY <2>1, FS_Subset
  <2>3. QED
    BY <2>2, FS_CardinalityType
<1> DEFINE f == [a \in d.pending |-> a[2]]
<1>3. f \in Injection(d.pending, Somewhere(d))
  <2>1. f \in [d.pending -> Somewhere(d)]
    BY DEF Somewhere
  <2>2. \A a, b \in d.pending : f[a] = f[b] => a = b
    BY DEF NowhereTwice
  <2>3. QED
    BY <2>1, <2>2 DEF Injection, IsInjective
<1>4. IsFiniteSet(d.pending)
  BY <1>2, <1>3, FS_Injection
<1>5. ASSUME NEW s \in Stages
      PROVE  IsFiniteSet(Served(d, s)) /\ Cardinality(Served(d, s)) \in Nat
  <2>1. Served(d, s) \in SUBSET d.pending
    BY DEF Served
  <2>2. QED
    BY <1>4, <2>1, FS_Subset, FS_CardinalityType
<1>6. QED
  BY <1>2, <1>4, <1>5

\* As many more are served at each stage as start there.
LEMMA StartCounts ==
  ASSUME NEW d \in Engines, NEW e \in Engines, NowhereTwice(d), Somewhere(d) \subseteq 1..d.arrivals,
         NEW k, \A s \in Stages : k[s] \in 0..Len(d.queued[s]),
         e.pending = d.pending \cup Starts(d, k)
  PROVE  \A s \in Stages : Cardinality(Served(e, s)) = Cardinality(Served(d, s)) + k[s]
<1> SUFFICES ASSUME NEW s \in Stages
             PROVE  Cardinality(Served(e, s)) = Cardinality(Served(d, s)) + k[s]
  OBVIOUS
<1> DEFINE q == d.queued[s]
           m == k[s]
           new == {<<s, q[j]>> : j \in 1..m}
<1>1. q \in Seq(Nat) /\ m \in 0..Len(q) /\ m \in Nat
  BY DEF Engines
<1>2. At(d, s) = q /\ s \in Places
  BY AtPlace
<1>3. Apart(d)
  BY ApartIsNowhereTwice
<1>4. \A i, j \in 1..m : q[i] = q[j] => i = j
  BY <1>1, <1>2, <1>3, SMTT(30) DEF Apart, Once
<1> HIDE DEF q, m
<1> DEFINE f == [j \in 1..m |-> <<s, q[j]>>]
<1>5. IsFiniteSet(new) /\ Cardinality(new) = m
  <2>1. f \in [1..m -> new] /\ \A x \in new : \E j \in 1..m : f[j] = x
    OBVIOUS
  <2>2. \A i, j \in 1..m : f[i] = f[j] => i = j
    BY <1>4
  <2>3. f \in Bijection(1..m, new)
    BY <2>1, <2>2 DEF Bijection, Injection, Surjection, IsInjective
  <2>4. IsFiniteSet(1..m) /\ Cardinality(1..m) = m
    BY <1>1, FS_Interval
  <2>5. QED
    BY <2>3, <2>4, FS_Bijection DEF ExistsBijection
<1>6. new \cap Served(d, s) = {}
  <2>1. ASSUME NEW j \in 1..m, <<s, q[j]>> \in d.pending
        PROVE  FALSE
    <3>1. q[j] \in Items(At(d, s))
      BY <1>1, <1>2 DEF Items
    <3>2. <<s, q[j]>>[2] = q[j]
      OBVIOUS
    <3>3. QED
      BY <1>2, <1>3, <2>1, <3>1, <3>2 DEF Apart
  <2>2. QED
    BY <2>1 DEF Served
<1>7. Served(e, s) = Served(d, s) \cup new
  BY DEF Served, q, m, Starts
<1>8. IsFiniteSet(Served(d, s)) /\ Cardinality(Served(d, s)) \in Nat
  BY PendingFinite
<1> HIDE DEF new
<1>9. Cardinality(Served(d, s) \cup new)
        = Cardinality(Served(d, s)) + Cardinality(new) - Cardinality(Served(d, s) \cap new)
  BY <1>5, <1>8, FS_Union
<1>10. Cardinality(Served(d, s) \cap new) = 0
  BY <1>6, FS_EmptySet
<1>11. QED
  BY <1>1, <1>5, <1>7, <1>8, <1>9, <1>10 DEF m

-----------------------------------------------------------------------------
(* The zero-time transitions. *)

\* tryDispatch keeps the books and leaves no work to a free server.
LEMMA AfterDispatch ==
  ASSUME NEW d, NEW c, EngineOK(d, c), NEW S \in SUBSET Stages
  PROVE  LET e == TryDispatch(d, S)
         IN  /\ EngineOK(e, c) /\ Kept(d, e)
             /\ e.buffer = d.buffer /\ e.blocked = d.blocked
             /\ \A s \in S : FreeServers(e, s) > 0 => e.queued[s] = <<>>
             /\ \A s \in Stages \ S : /\ e.inService[s] = d.inService[s]
                                      /\ e.queued[s] = d.queued[s]
             /\ \A s \in Stages : d.inService[s] <= e.inService[s]
             /\ \A s \in S : d.queued[s] # <<>> => d.inService[s] < e.inService[s]
                                                   \/ FreeServers(e, s) <= 0
             /\ (\A s \in S : FreeServers(d, s) > 0 => d.queued[s] = <<>>) => e = d
<1> DEFINE k == [s \in Stages |-> IF s \in S THEN Starting(d, s) ELSE 0]
           qs == [s \in Stages |-> Rest(d.queued[s], k[s])]
           is == [s \in Stages |-> d.inService[s] + k[s]]
           ps == d.pending \cup Starts(d, k)
           e == [d EXCEPT !.queued = qs, !.inService = is, !.pending = ps]
<1>1. /\ d \in Engines /\ NowhereTwice(d) /\ Somewhere(d) \subseteq 1..d.arrivals
      /\ \A s \in Stages : d.queued[s] \in Seq(Nat) /\ d.inService[s] \in Int
      /\ \A s \in Stages : Workers[s] \in Nat
  <2>1. d \in Engines /\ NowhereTwice(d) /\ Somewhere(d) \subseteq 1..d.arrivals
    BY DEF EngineOK, Accounted
  <2>2. d.queued \in [Stages -> Seq(Nat)] /\ d.inService \in [Stages -> Int]
    BY <2>1 DEF Engines
  <2>3. \A s \in Stages : Workers[s] \in Nat
    BY ConfigAssumption DEF ValidConfig, Stages
  <2>4. QED
    BY <2>1, <2>2, <2>3
<1>2. \A s \in Stages : /\ k[s] \in 0..Len(d.queued[s])
                        /\ k[s] > 0 => k[s] <= FreeServers(d, s)
                        /\ s \notin S => k[s] = 0
                        /\ s \in S /\ FreeServers(d, s) > 0 /\ d.queued[s] # <<>> => k[s] > 0
                        /\ s \in S /\ FreeServers(d, s) > k[s] => k[s] = Len(d.queued[s])
  BY <1>1 DEF Starting, Least, FreeServers
<1>3. TryDispatch(d, S) = e
  <2>1. UNION {{<<s, d.queued[s][j]>> : j \in 1..k[s]} : s \in Stages}
          = UNION {{<<s, d.queued[s][j]>> : j \in 1..k[s]} : s \in S}
    <3> HIDE DEF k
    <3>1. \A s \in Stages \ S : {<<s, d.queued[s][j]>> : j \in 1..k[s]} = {}
      BY <1>2
    <3>2. QED
      BY <3>1
  <2> HIDE DEF k
  <2>2. QED
    BY <2>1 DEF TryDispatch, k, Starts
<1> HIDE DEF k
<1>4. /\ qs \in [Stages -> Seq(Nat)] /\ is \in [Stages -> Int]
      /\ ps \in SUBSET (Stages \X Nat)
  <2>1. qs \in [Stages -> Seq(Nat)] /\ is \in [Stages -> Int]
    BY <1>1, <1>2, CutQueue
  <2>2. \A s \in Stages : \A j \in 1..k[s] : d.queued[s][j] \in Nat
    BY <1>1, <1>2
  <2>3. d.pending \in SUBSET (Stages \X Nat)
    BY <1>1 DEF Engines
  <2>4. QED
    BY <2>1, <2>2, <2>3 DEF Starts
<1> HIDE DEF qs, is, ps
<1>5. /\ e \in Engines /\ Kept(d, e)
      /\ e.queued = qs /\ e.inService = is /\ e.pending = ps
      /\ e.backlog = d.backlog /\ e.buffer = d.buffer /\ e.blocked = d.blocked
      /\ e.bufferTime = d.bufferTime
  BY <1>1, <1>4 DEF Engines, Kept
<1>6. e.intervals = d.intervals /\ e.ropeRate = d.ropeRate /\ e.admissions = d.admissions
  BY <1>1, <1>4 DEF Engines
<1> HIDE DEF e
<1>7. \A s \in Stages : /\ e.queued[s] = Rest(d.queued[s], k[s])
                        /\ e.inService[s] = d.inService[s] + k[s]
  BY <1>5 DEF qs, is
<1>8. NowhereTwice(e) /\ Somewhere(e) = Somewhere(d)
  BY <1>1, <1>2, <1>5, <1>7, StartKeepsItems DEF ps
<1>9. \A s \in Stages : Cardinality(Served(e, s)) = Cardinality(Served(d, s)) + k[s]
  <2>1. \A s \in Stages : k[s] \in 0..Len(d.queued[s])
    BY <1>2
  <2>2. e.pending = d.pending \cup Starts(d, k)
    BY <1>5 DEF ps
  <2>3. d \in Engines /\ e \in Engines /\ NowhereTwice(d) /\ Somewhere(d) \subseteq 1..d.arrivals
    BY <1>1, <1>5
  <2> HIDE DEF e, k
  <2>4. QED
    BY <2>1, <2>2, <2>3, StartCounts
<1>10. ServersHeld(e, c)
  <2>1. SUFFICES ASSUME NEW s \in Stages
                 PROVE  /\ e.inService[s] = Cardinality(Served(e, s))
                                            + (IF s = c - 1 THEN Len(e.blocked) ELSE 0)
                        /\ e.inService[s] <= Workers[s]
    BY DEF ServersHeld
  <2>2. /\ d.inService[s] = Cardinality(Served(d, s)) + (IF s = c - 1 THEN Len(d.blocked) ELSE 0)
        /\ d.inService[s] <= Workers[s]
    BY DEF EngineOK, ServersHeld
  <2>3. Cardinality(Served(d, s)) \in Nat /\ Len(d.blocked) \in Nat
    <3>1. d.blocked \in Seq(Nat)
      BY <1>1 DEF Engines
    <3>2. Cardinality(Served(d, s)) \in Nat
      BY <1>1, PendingFinite
    <3>3. QED
      BY <3>1, <3>2
  <2>4. QED
    BY <1>1, <1>2, <1>5, <1>7, <1>9, <2>2, <2>3 DEF FreeServers
<1>11. EngineOK(e, c)
  BY <1>5, <1>8, <1>10 DEF EngineOK, Accounted, Kept
<1>12. \A s \in S : FreeServers(e, s) > 0 => e.queued[s] = <<>>
  <2>1. SUFFICES ASSUME NEW s \in S, FreeServers(e, s) > 0
                 PROVE  e.queued[s] = <<>>
    OBVIOUS
  <2>2. FreeServers(d, s) > k[s]
    BY <1>1, <1>2, <1>7, <2>1 DEF FreeServers
  <2>3. k[s] = Len(d.queued[s])
    BY <1>2, <2>2
  <2>4. Len(e.queued[s]) = 0 /\ e.queued[s] \in Seq(Nat)
    BY <1>1, <1>2, <1>7, <2>3, CutQueue
  <2>5. QED
    BY <2>4
<1>13. \A s \in Stages \ S : e.inService[s] = d.inService[s] /\ e.queued[s] = d.queued[s]
  BY <1>1, <1>2, <1>7, CutQueue
<1>14. \A s \in Stages : d.inService[s] <= e.inService[s]
  BY <1>1, <1>2, <1>7
<1>15. \A s \in S : d.queued[s] # <<>> => d.inService[s] < e.inService[s] \/ FreeServers(e, s) <= 0
  <2>1. SUFFICES ASSUME NEW s \in S, d.queued[s] # <<>>, ~(FreeServers(e, s) <= 0)
                 PROVE  d.inService[s] < e.inService[s]
    OBVIOUS
  <2>2. FreeServers(d, s) > 0
    BY <1>1, <1>2, <1>7, <2>1 DEF FreeServers
  <2>3. QED
    BY <1>1, <1>2, <1>7, <2>1, <2>2
<1>16. ASSUME \A s \in S : FreeServers(d, s) > 0 => d.queued[s] = <<>>
       PROVE  e = d
  <2>1. ASSUME NEW s \in Stages
        PROVE  k[s] = 0
    <3>1. CASE s \in S /\ FreeServers(d, s) > 0
      <4>1. Len(d.queued[s]) = 0
        BY <1>16, <3>1
      <4>2. QED
        BY <1>2, <4>1
    <3>2. CASE s \in S /\ ~(FreeServers(d, s) > 0)
      BY <1>1, <1>2, <3>2 DEF FreeServers
    <3>3. QED
      BY <1>2, <3>1, <3>2
  <2>2. e.queued = d.queued
    <3>1. \A s \in Stages : Rest(d.queued[s], 0) = d.queued[s]
      BY <1>1, CutQueue
    <3>2. \A s \in Stages : qs[s] = d.queued[s]
      BY <1>5, <1>7, <2>1, <3>1
    <3>3. d.queued \in [Stages -> Seq(Nat)]
      BY <1>1 DEF Engines
    <3>4. QED
      BY <1>4, <1>5, <3>2, <3>3
  <2>3. e.inService = d.inService
    <3>1. \A s \in Stages : is[s] = d.inService[s]
      BY <1>1, <2>1, <1>5, <1>7
    <3>2. QED
      BY <1>4, <1>5, <3>1, <1>1 DEF Engines
  <2>4. e.pending = d.pending
    BY <1>5, <2>1 DEF ps, Starts
  <2>5. Parts(e) = Parts(d)
    BY <1>5, <1>6, <2>2, <2>3, <2>4 DEF Parts, Kept
  <2>6. QED
    BY <1>1, <1>5, <2>5, EnginesParts
<1>17. QED
  BY <1>3, <1>5, <1>11, <1>12, <1>13, <1>14, <1>15, <1>16

\* The blocked items that fit are the oldest ones, as many as are counted.
LEMMA FitCount ==
  ASSUME NEW d \in Engines
  PROVE  LET k == Cardinality({j \in 1..Len(d.blocked) : Fits(d, j)})
         IN  /\ k \in 0..Len(d.blocked)
             /\ k < Len(d.blocked) => ~Fits(d, k + 1)
             /\ Len(d.blocked) > 0 /\ Fits(d, 1) => k > 0
             /\ k > 0 => Fits(d, 1)
<1> DEFINE n == Len(d.blocked)
           sizes == {j \in 1..n : Fits(d, j)}
           beyond == {j \in Nat : j + 1 \notin sizes}
<1>1. /\ n \in Nat /\ Cost \in Nat \ {0} /\ d.bufferTime \in Int /\ d.bufferMaxTime \in Nat
  BY ConfigAssumption DEF Engines, ValidConfig
<1>2. n \in beyond
  BY <1>1
<1>3. PICK m \in beyond : \A j \in beyond : m <= j
  <2>1. beyond \in SUBSET Nat /\ beyond # {}
    BY <1>2
  <2> HIDE DEF beyond
  <2>2. QED
    BY <2>1, SmallestNumber
<1>4. m \in Nat /\ m <= n
  BY <1>2, <1>3
<1>5. ASSUME NEW i \in 1..n, NEW j \in 1..n, i <= j, Fits(d, j)
      PROVE  Fits(d, i)
  <2>1. i * Cost <= j * Cost
    BY <1>1, <1>5
  <2>2. i * Cost \in Int /\ j * Cost \in Int
    BY <1>1
  <2>3. QED
    BY <1>1, <1>5, <2>1, <2>2 DEF Fits
<1>6. \A j \in 1..m : j \in sizes
  <2>1. SUFFICES ASSUME NEW j \in 1..m, j \notin sizes
                 PROVE  FALSE
    OBVIOUS
  <2>2. j - 1 \in Nat /\ (j - 1) + 1 = j
    BY <1>4, <2>1
  <2>3. j - 1 \in beyond
    BY <2>1, <2>2
  <2>4. QED
    BY <1>3, <1>4, <2>1, <2>3
<1>7. \A j \in sizes : j \in 1..m
  <2>1. SUFFICES ASSUME NEW j \in sizes, j > m
                 PROVE  FALSE
    BY <1>4
  <2>2. m + 1 \in 1..n /\ m + 1 <= j /\ j \in 1..n /\ Fits(d, j)
    BY <1>4, <1>1, <2>1
  <2>3. m + 1 \in sizes
    BY <1>5, <2>2
  <2>4. QED
    BY <1>3, <2>3
<1>8. sizes = 1..m
  BY <1>6, <1>7
<1>9. Cardinality(sizes) = m
  <2>1. Cardinality(1..m) = m
    BY <1>4, FS_Interval
  <2>2. QED
    BY <1>8, <2>1
<1>10. m < n => ~Fits(d, m + 1)
  BY <1>3, <1>4, <1>1
<1>11. n > 0 /\ Fits(d, 1) => m > 0
  <2>1. SUFFICES ASSUME n > 0, Fits(d, 1), m = 0
                 PROVE  FALSE
    BY <1>4
  <2>2. 1 \in sizes
    BY <1>1, <2>1
  <2>3. QED
    BY <1>3, <2>1, <2>2
<1>12. m > 0 => Fits(d, 1)
  BY <1>4, <1>6
<1>13. QED
  BY <1>1, <1>4, <1>9, <1>10, <1>11, <1>12

\* The parts of an engine whose buffer takes the items of q.
LEMMA IntoBufferParts ==
  ASSUME NEW d \in Engines, NEW q \in Seq(Nat), PreConstraint \in Stages
  PROVE  LET e == IntoBuffer(d, q)
         IN  /\ e \in Engines /\ Kept(d, e)
             /\ e.inService = [d.inService EXCEPT ![PreConstraint] = @ - Len(q)]
             /\ e.buffer = d.buffer \o q /\ e.bufferTime = d.bufferTime + Cost * Len(q)
             /\ e.backlog = d.backlog /\ e.queued = d.queued /\ e.pending = d.pending
             /\ e.blocked = d.blocked
<1> DEFINE is == [d.inService EXCEPT ![PreConstraint] = @ - Len(q)]
           b  == d.buffer \o q
           t  == d.bufferTime + Cost * Len(q)
           e  == [d EXCEPT !.inService = is, !.buffer = b, !.bufferTime = t]
<1>1. IntoBuffer(d, q) = e
  BY DEF IntoBuffer
<1>2. d.inService \in [Stages -> Int] /\ d.buffer \in Seq(Nat) /\ d.bufferTime \in Int
  BY DEF Engines
<1>3. Cost * Len(q) \in Int
  BY ConfigAssumption DEF ValidConfig
<1>4. is \in [Stages -> Int] /\ b \in Seq(Nat) /\ t \in Int
  BY <1>2, <1>3
<1> HIDE DEF is, b, t
<1>5. /\ e \in Engines /\ Kept(d, e)
      /\ e.inService = is /\ e.buffer = b /\ e.bufferTime = t
      /\ e.backlog = d.backlog /\ e.queued = d.queued /\ e.pending = d.pending
      /\ e.blocked = d.blocked
  BY <1>4 DEF Engines, Kept
<1>6. QED
  BY <1>1, <1>5 DEF is, b, t

\* A buffer's time is the sum of its items' times.
LEMMA CostOfMore ==
  ASSUME NEW a \in Nat, NEW b \in Nat
  PROVE  /\ Cost * a + Cost * b = Cost * (a + b)
         /\ a * Cost = Cost * a
         /\ Cost * a \in Nat
         /\ a > 0 => Cost * a >= Cost
         /\ Cost * 0 = 0 /\ 1 * Cost = Cost
<1>1. Cost \in Nat /\ Cost > 0
  BY ConfigAssumption DEF ValidConfig
<1>2. Cost * a + Cost * b = Cost * (a + b) /\ a * Cost = Cost * a /\ Cost * a \in Nat
  BY <1>1
<1>3. a > 0 => Cost * a >= Cost
  BY <1>1
<1>4. Cost * 0 = 0 /\ 1 * Cost = Cost
  BY <1>1
<1>5. QED
  BY <1>2, <1>3, <1>4

\* unblockIntoBuffer keeps the books, and stops at the first item that does
\* not fit.
LEMMA AfterUnblock ==
  ASSUME NEW d, EngineOK(d, constraint), constraint \in Stages
  PROVE  LET e == UnblockIntoBuffer(d)
         IN  /\ EngineOK(e, constraint) /\ Kept(d, e)
             /\ e.queued = d.queued
             /\ e.inService[constraint] = d.inService[constraint]
             /\ e = d \/ Len(e.blocked) < Len(d.blocked)
             /\ e.blocked # <<>> => ~Fits(e, 1)
             /\ (d.blocked # <<>> => ~Fits(d, 1)) => e = d
<1> DEFINE k == Cardinality({j \in 1..Len(d.blocked) : Fits(d, j)})
           front == SubSeq(d.blocked, 1, k)
           rest == Rest(d.blocked, k)
           m == [d EXCEPT !.blocked = rest]
           e == IntoBuffer(m, front)
<1>1. /\ d \in Engines /\ NowhereTwice(d) /\ Accounted(d) /\ ServersHeld(d, constraint)
      /\ d.bufferTime = Cost * Len(d.buffer)
      /\ constraint = 1 => d.buffer = <<>> /\ d.blocked = <<>>
  BY DEF EngineOK
<1>2. /\ d.blocked \in Seq(Nat) /\ d.buffer \in Seq(Nat) /\ d.bufferMaxTime \in Nat
      /\ d.inService \in [Stages -> Int] /\ Len(d.blocked) \in Nat /\ Len(d.buffer) \in Nat
      /\ d.bufferTime \in Int
  BY <1>1 DEF Engines
<1>3. /\ k \in 0..Len(d.blocked)
      /\ k < Len(d.blocked) => ~Fits(d, k + 1)
      /\ Len(d.blocked) > 0 /\ Fits(d, 1) => k > 0
      /\ k > 0 => Fits(d, 1)
  BY <1>1, FitCount
<1>4. UnblockIntoBuffer(d) = IF constraint = 1 \/ k = 0 THEN d ELSE e
  BY DEF UnblockIntoBuffer
<1> HIDE DEF k
<1>5. CASE constraint = 1 \/ k = 0
  <2>1. UnblockIntoBuffer(d) = d /\ Kept(d, d)
    BY <1>4, <1>5 DEF Kept
  <2>2. d.blocked # <<>> => ~Fits(d, 1)
    BY <1>1, <1>2, <1>3, <1>5
  <2>3. QED
    BY <2>1, <2>2
<1>6. CASE constraint # 1 /\ k > 0
  <2>1. PreConstraint \in Stages /\ PreConstraint # constraint /\ PreConstraint = constraint - 1
    BY <1>6, AtPlace, <1>1 DEF PreConstraint, Stages
  <2>2. /\ front \in Seq(Nat) /\ rest \in Seq(Nat)
        /\ Len(front) = k /\ Len(rest) = Len(d.blocked) - k
    BY <1>2, <1>3, CutQueue
  <2>3. /\ m \in Engines /\ Kept(d, m) /\ m.blocked = rest
        /\ m.buffer = d.buffer /\ m.backlog = d.backlog /\ m.queued = d.queued
        /\ m.pending = d.pending /\ m.inService = d.inService /\ m.bufferTime = d.bufferTime
    <3> HIDE DEF rest
    <3>1. QED
      BY <1>1, <2>2 DEF Engines, Kept
  <2> HIDE DEF m, front, rest
  <2>4. /\ e \in Engines /\ Kept(m, e)
        /\ e.inService = [m.inService EXCEPT ![PreConstraint] = @ - Len(front)]
        /\ e.buffer = m.buffer \o front /\ e.bufferTime = m.bufferTime + Cost * Len(front)
        /\ e.backlog = m.backlog /\ e.queued = m.queued /\ e.pending = m.pending
        /\ e.blocked = m.blocked
    BY <2>1, <2>2, <2>3, IntoBufferParts
  <2> HIDE DEF e
  <2>5. Kept(d, e) /\ e.queued = d.queued
    BY <2>3, <2>4 DEF Kept
  <2>6. NowhereTwice(e) /\ Somewhere(e) = Somewhere(d)
    <3>1. /\ Places = {Backlog, Buffer, Blocked} \cup Stages
          /\ At(d, Backlog) = d.backlog /\ At(d, Buffer) = d.buffer /\ At(d, Blocked) = d.blocked
          /\ \A s \in Stages : At(d, s) = d.queued[s]
      BY <1>1, AtPlace
    <3>2. /\ At(e, Backlog) = e.backlog /\ At(e, Buffer) = e.buffer /\ At(e, Blocked) = e.blocked
          /\ \A s \in Stages : At(e, s) = e.queued[s]
      BY <2>4, AtPlace
    <3>3. /\ Blocked \in Places /\ Buffer \in Places /\ Blocked # Buffer
          /\ k \in 0..Len(At(d, Blocked))
      BY <1>3, <3>1 DEF Blocked, Buffer
    <3>4. /\ At(e, Blocked) = Rest(At(d, Blocked), k)
          /\ At(e, Buffer) = At(d, Buffer) \o SubSeq(At(d, Blocked), 1, k)
      BY <2>3, <2>4, <3>1, <3>2 DEF rest, front
    <3>5. \A r \in Places \ {Blocked, Buffer} : At(e, r) = At(d, r)
      BY <2>3, <2>4, <3>1, <3>2
    <3>6. e.pending = d.pending
      BY <2>3, <2>4
    <3>7. d \in Engines /\ e \in Engines /\ NowhereTwice(d)
      BY <1>1, <2>4
    <3>8. QED
      BY <3>3, <3>4, <3>5, <3>6, <3>7, MoveKeepsItems
  <2>7. Len(e.blocked) = Len(d.blocked) - k /\ Len(e.buffer) = Len(d.buffer) + k
    <3>1. e.blocked = rest /\ e.buffer = d.buffer \o front
      BY <2>3, <2>4
    <3>2. Len(d.buffer \o front) = Len(d.buffer) + Len(front)
      BY <1>2, <2>2, ConcatItems
    <3>3. QED
      BY <2>2, <3>1, <3>2
  <2>8. e.bufferTime = Cost * Len(e.buffer)
    <3>1. e.bufferTime = Cost * Len(d.buffer) + Cost * k
      BY <1>1, <2>2, <2>3, <2>4
    <3>2. Len(d.buffer) \in Nat /\ k \in Nat
      BY <1>2, <1>3
    <3>3. Cost * Len(d.buffer) + Cost * k = Cost * (Len(d.buffer) + k)
      BY <3>2, CostOfMore
    <3>4. QED
      BY <2>7, <3>1, <3>3
  <2>9. ServersHeld(e, constraint)
    <3>1. \A s \in Stages : Served(e, s) = Served(d, s)
      BY <2>3, <2>4 DEF Served
    <3>2. /\ e.inService[PreConstraint] = d.inService[PreConstraint] - k
          /\ \A s \in Stages \ {PreConstraint} : e.inService[s] = d.inService[s]
      BY <1>2, <2>1, <2>2, <2>3, <2>4
    <3>3. \A s \in Stages : Cardinality(Served(d, s)) \in Nat
      BY <1>1, PendingFinite DEF Accounted
    <3>4. \A s \in Stages : Workers[s] \in Nat
      BY ConfigAssumption DEF ValidConfig, Stages
    <3>5. ASSUME NEW s \in Stages
          PROVE  /\ e.inService[s] = Cardinality(Served(e, s))
                                     + (IF s = constraint - 1 THEN Len(e.blocked) ELSE 0)
                 /\ e.inService[s] <= Workers[s]
      <4>1. /\ d.inService[s] = Cardinality(Served(d, s))
                                + (IF s = constraint - 1 THEN Len(d.blocked) ELSE 0)
            /\ d.inService[s] <= Workers[s]
        BY <1>1 DEF ServersHeld
      <4>2. Cardinality(Served(d, s)) \in Nat /\ Served(e, s) = Served(d, s) /\ Workers[s] \in Nat
        BY <3>1, <3>3, <3>4
      <4>3. CASE s = PreConstraint
        <5>1. e.inService[s] = d.inService[s] - k /\ s = constraint - 1
          BY <4>3, <2>1, <3>2
        <5>2. k \in Nat /\ Len(e.blocked) = Len(d.blocked) - k /\ Len(d.blocked) \in Nat
          BY <1>2, <1>3, <2>7
        <5>3. d.inService[s] = Cardinality(Served(d, s)) + Len(d.blocked)
          BY <4>1, <5>1
        <5>4. e.inService[s] = Cardinality(Served(e, s)) + Len(e.blocked)
          BY <4>2, <5>1, <5>2, <5>3
        <5>5. e.inService[s] <= Workers[s]
          BY <4>1, <4>2, <5>1, <5>2, <5>3
        <5>6. QED
          BY <5>1, <5>4, <5>5
      <4>4. CASE s # PreConstraint
        BY <4>1, <4>2, <4>4, <2>1, <3>2
      <4>5. QED
        BY <4>3, <4>4
    <3>6. QED
      BY <3>5 DEF ServersHeld
  <2>10. EngineOK(e, constraint)
    BY <1>1, <1>6, <2>4, <2>5, <2>6, <2>8, <2>9 DEF EngineOK, Accounted, Kept
  <2>11. e.inService[constraint] = d.inService[constraint]
    BY <1>2, <2>1, <2>3, <2>4
  <2>12. e.blocked # <<>> => ~Fits(e, 1)
    <3>1. SUFFICES ASSUME e.blocked # <<>>
                   PROVE  ~Fits(e, 1)
      OBVIOUS
    <3>2. Len(e.blocked) > 0
      BY <2>2, <2>3, <2>4, <3>1
    <3>3. ~Fits(d, k + 1)
      BY <1>2, <1>3, <2>7, <3>2
    <3>4. e.bufferMaxTime = d.bufferMaxTime /\ e.bufferTime = d.bufferTime + Cost * k
      BY <2>2, <2>3, <2>4, <2>5 DEF Kept
    <3>5. Cost * k + 1 * Cost = (k + 1) * Cost /\ Cost * k \in Nat /\ 1 * Cost \in Nat
      BY <1>3, ConfigAssumption DEF ValidConfig
    <3>6. QED
      BY <1>2, <3>3, <3>4, <3>5 DEF Fits
  <2>13. d.blocked # <<>> /\ Fits(d, 1)
    BY <1>2, <1>3, <1>6
  <2>14. QED
    BY <1>2, <1>3, <1>4, <1>6, <2>5, <2>7, <2>10, <2>11, <2>12, <2>13
<1>7. QED
  BY <1>3, <1>5, <1>6

\* The parts of an engine whose stage s takes the items of q into its queue.
LEMMA AdmitParts ==
  ASSUME NEW d \in Engines, NEW s \in Stages, NEW q \in Seq(Nat)
  PROVE  LET e == AdmitToStage(d, s, q)
         IN  /\ e \in Engines /\ Kept(d, e)
             /\ e.queued = [d.queued EXCEPT ![s] = @ \o q]
             /\ e.backlog = d.backlog /\ e.buffer = d.buffer /\ e.blocked = d.blocked
             /\ e.pending = d.pending /\ e.inService = d.inService
             /\ e.bufferTime = d.bufferTime
<1> DEFINE qs == [d.queued EXCEPT ![s] = @ \o q]
           e == [d EXCEPT !.queued = qs]
<1>1. AdmitToStage(d, s, q) = e
  BY DEF AdmitToStage
<1>2. qs \in [Stages -> Seq(Nat)]
  BY DEF Engines
<1> HIDE DEF qs
<1>3. /\ e \in Engines /\ Kept(d, e) /\ e.queued = qs
      /\ e.backlog = d.backlog /\ e.buffer = d.buffer /\ e.blocked = d.blocked
      /\ e.pending = d.pending /\ e.inService = d.inService
      /\ e.bufferTime = d.bufferTime
  BY <1>2 DEF Engines, Kept
<1>4. QED
  BY <1>1, <1>3 DEF qs

\* feedConstraintFromBuffer keeps the books, and empties the buffer unless the
\* constraint has no server to spare.
LEMMA AfterFeed ==
  ASSUME NEW d, EngineOK(d, constraint), constraint \in Stages
  PROVE  LET e == FeedConstraint(d)
         IN  /\ EngineOK(e, constraint) /\ Kept(d, e)
             /\ e.blocked = d.blocked /\ e.inService = d.inService
             /\ e.buffer # <<>> => FreeServers(e, constraint) <= 0
             /\ FreeServers(d, constraint) > 0 /\ d.buffer # <<>> => e.queued[constraint] # <<>>
             /\ FreeServers(d, constraint) <= 0 \/ d.buffer = <<>> => e = d
<1>0. PICK c \in Stages : c = constraint
  OBVIOUS
<1> DEFINE m == [d EXCEPT !.buffer = <<>>, !.bufferTime = @ - Cost * Len(d.buffer)]
           e == AdmitToStage(m, c, d.buffer)
<1>1. /\ d \in Engines /\ NowhereTwice(d) /\ Accounted(d) /\ ServersHeld(d, c)
      /\ d.bufferTime = Cost * Len(d.buffer)
      /\ c = 1 => d.buffer = <<>> /\ d.blocked = <<>>
  BY <1>0 DEF EngineOK
<1>2. /\ d.buffer \in Seq(Nat) /\ Len(d.buffer) \in Nat /\ d.inService \in [Stages -> Int]
      /\ d.queued \in [Stages -> Seq(Nat)] /\ d.bufferTime \in Int
  BY <1>1, SMTT(30) DEF Engines
<1>3. \A s \in Stages : Workers[s] \in Nat
  BY ConfigAssumption DEF ValidConfig, Stages
<1>4. FeedConstraint(d) = IF c = 1 \/ FreeServers(d, c) <= 0 THEN d ELSE e
  BY <1>0 DEF FeedConstraint
<1>5. CASE c = 1 \/ FreeServers(d, c) <= 0
  <2>1. FeedConstraint(d) = d /\ Kept(d, d)
    BY <1>4, <1>5 DEF Kept
  <2>2. FreeServers(d, c) \in Int
    BY <1>2, <1>3 DEF FreeServers
  <2>3. QED
    BY <1>0, <1>1, <1>5, <2>1, <2>2
<1>6. CASE c # 1 /\ FreeServers(d, c) > 0
  <2>1. /\ m \in Engines /\ Kept(d, m) /\ m.buffer = <<>> /\ m.bufferTime = 0
        /\ m.backlog = d.backlog /\ m.queued = d.queued /\ m.blocked = d.blocked
        /\ m.pending = d.pending /\ m.inService = d.inService
    <3>1. d.bufferTime - Cost * Len(d.buffer) = 0
      BY <1>1, <1>2
    <3>2. PICK q \in Seq(Nat), z \in Int : q = <<>> /\ z = 0
      <4>1. <<>> \in Seq(Nat)
        OBVIOUS
      <4>2. 0 \in Int
        OBVIOUS
      <4>3. QED
        BY <4>1, <4>2
    <3> DEFINE n == [d EXCEPT !.buffer = q, !.bufferTime = z]
    <3>3. m = n
      BY <3>1, <3>2
    <3>4. /\ n \in Engines /\ Kept(d, n) /\ n.buffer = q /\ n.bufferTime = z
          /\ n.backlog = d.backlog /\ n.queued = d.queued /\ n.blocked = d.blocked
          /\ n.pending = d.pending /\ n.inService = d.inService
      BY <1>1 DEF Engines, Kept
    <3> HIDE DEF n, m
    <3>5. QED
      BY <3>2, <3>3, <3>4
  <2>2. m.intervals = d.intervals /\ m.ropeRate = d.ropeRate /\ m.admissions = d.admissions
    BY <1>1 DEF Engines
  <2> HIDE DEF m
  <2>3. /\ e \in Engines /\ Kept(m, e)
        /\ e.queued = [m.queued EXCEPT ![c] = @ \o d.buffer]
        /\ e.backlog = m.backlog /\ e.buffer = m.buffer /\ e.blocked = m.blocked
        /\ e.pending = m.pending /\ e.inService = m.inService
        /\ e.bufferTime = m.bufferTime
    BY <1>2, <2>1, AdmitParts
  <2>4. Kept(d, e)
    BY <2>1, <2>3 DEF Kept
  <2>5. /\ FeedConstraint(d) = e
        /\ e.queued[c] = d.queued[c] \o d.buffer
        /\ \A s \in Stages \ {c} : e.queued[s] = d.queued[s]
    <3>1. FeedConstraint(d) = e
      <4>1. ~(FreeServers(d, c) <= 0)
        BY <1>2, <1>3, <1>6 DEF FreeServers
      <4>2. QED
        BY <1>4, <1>6, <4>1
    <3> HIDE DEF e
    <3>2. QED
      BY <1>2, <2>1, <2>3, <3>1
  <2>6. d.buffer = <<>> => e = d
    <3>1. SUFFICES ASSUME d.buffer = <<>>
                   PROVE  e = d
      OBVIOUS
    <3>2. d.queued[c] \o d.buffer = d.queued[c]
      BY <1>2, <3>1
    <3>3. \A s \in Stages : e.queued[s] = d.queued[s]
      BY <2>5, <3>2
    <3>4. e.queued = d.queued
      BY <1>2, <2>1, <2>3, <3>3
    <3>5. Len(d.buffer) = 0 /\ d.bufferTime = 0
      BY <1>1, <3>1, CostOfMore
    <3>6. e = [m EXCEPT !.queued[c] = @ \o d.buffer]
      BY DEF AdmitToStage
    <3>7. e.intervals = m.intervals /\ e.ropeRate = m.ropeRate /\ e.admissions = m.admissions
      BY <2>1, <3>6 DEF Engines
    <3>8. Parts(e) = Parts(d)
      BY <2>1, <2>2, <2>3, <2>4, <3>1, <3>4, <3>5, <3>7 DEF Parts, Kept
    <3>9. QED
      BY <1>1, <2>3, <3>8, EnginesParts
  <2> HIDE DEF e
  <2>7. NowhereTwice(e) /\ Somewhere(e) = Somewhere(d)
    <3>1. /\ Places = {Backlog, Buffer, Blocked} \cup Stages
          /\ {Backlog, Buffer, Blocked} \cap Stages = {}
          /\ At(d, Backlog) = d.backlog /\ At(d, Buffer) = d.buffer /\ At(d, Blocked) = d.blocked
          /\ \A s \in Stages : At(d, s) = d.queued[s]
      BY <1>1, AtPlace
    <3>2. /\ At(e, Backlog) = e.backlog /\ At(e, Buffer) = e.buffer /\ At(e, Blocked) = e.blocked
          /\ \A s \in Stages : At(e, s) = e.queued[s]
      BY <2>3, AtPlace
    <3>3. PICK k \in 0..Len(d.buffer) : k = Len(d.buffer)
      BY <1>2
    <3>4. Rest(d.buffer, k) = <<>> /\ SubSeq(d.buffer, 1, k) = d.buffer
      <4>1. Rest(d.buffer, k) \in Seq(Nat) /\ Len(Rest(d.buffer, k)) = Len(d.buffer) - k
        BY <1>2, CutQueue
      <4>2. QED
        BY <1>2, <3>3, <4>1
    <3>5. Buffer \in Places /\ c \in Places /\ Buffer # c /\ k \in 0..Len(At(d, Buffer))
      BY <1>2, <3>1
    <3>6. At(e, Buffer) = Rest(At(d, Buffer), k)
      BY <2>1, <2>3, <3>1, <3>2, <3>4
    <3>7. At(e, c) = At(d, c) \o SubSeq(At(d, Buffer), 1, k)
      BY <2>5, <3>1, <3>2, <3>4
    <3>8. \A r \in Places \ {Buffer, c} : At(e, r) = At(d, r)
      <4>1. e.backlog = d.backlog /\ e.blocked = d.blocked
        BY <2>1, <2>3
      <4>2. \A s \in Stages : s # c => At(e, s) = At(d, s)
        BY <2>5, <3>1, <3>2
      <4>3. QED
        BY <3>1, <3>2, <4>1, <4>2
    <3>9. d \in Engines /\ e \in Engines /\ NowhereTwice(d) /\ e.pending = d.pending
      BY <1>1, <2>1, <2>3
    <3>10. QED
      BY <3>5, <3>6, <3>7, <3>8, <3>9, MoveKeepsItems
  <2>8. e.bufferTime = Cost * Len(e.buffer)
    BY <2>1, <2>3, CostOfMore
  <2>9. ServersHeld(e, c)
    <3>1. \A s \in Stages : Served(e, s) = Served(d, s)
      BY <2>1, <2>3 DEF Served
    <3>2. QED
      BY <1>1, <2>1, <2>3, <3>1 DEF ServersHeld
  <2>10. EngineOK(e, c)
    BY <1>1, <1>6, <2>3, <2>4, <2>7, <2>8, <2>9 DEF EngineOK, Accounted, Kept
  <2>11. d.buffer # <<>> => e.queued[c] # <<>>
    <3>1. SUFFICES ASSUME Len(d.buffer) > 0
                   PROVE  e.queued[c] # <<>>
      BY <1>2
    <3>2. Len(e.queued[c]) = Len(d.queued[c]) + Len(d.buffer)
          /\ Len(d.queued[c]) \in Nat
      BY <1>2, <2>5, ConcatItems
    <3>3. \A a, b \in Nat : b > 0 => a + b > 0
      OBVIOUS
    <3>4. Len(e.queued[c]) > 0
      BY <1>2, <3>1, <3>2, <3>3
    <3>5. QED
      BY <3>4
  <2>12. e.blocked = d.blocked /\ e.inService = d.inService /\ e.buffer = <<>>
    BY <2>1, <2>3
  <2>13. FreeServers(d, c) \in Int
    BY <1>2, <1>3 DEF FreeServers
  <2>14. QED
    BY <1>0, <1>6, <2>4, <2>5, <2>6, <2>10, <2>11, <2>12, <2>13
<1>7. QED
  <2>1. FreeServers(d, c) \in Int
    BY <1>2, <1>3 DEF FreeServers
  <2>2. QED
    BY <1>0, <1>5, <1>6, <2>1

\* No free server has work of its own before it, when c is the constraint.
Rested(d, c) ==
  /\ \A s \in Stages : FreeServers(d, s) > 0 => d.queued[s] = <<>>
  /\ d.buffer # <<>> => FreeServers(d, c) <= 0

\* No lap makes progress from where nobody is idle and nobody can be unblocked.
LEMMA RestedStays ==
  ASSUME NEW d, EngineOK(d, constraint), constraint \in Stages, Rested(d, constraint),
         UnblockIntoBuffer(d) = d
  PROVE  Lap(d) = d
<1>1. FeedConstraint(d) = d
  BY AfterFeed DEF Rested
<1>2. TryDispatch(d, Stages) = d
  BY AfterDispatch DEF Rested
<1>3. QED
  BY <1>1, <1>2 DEF Lap

\* What a lap does.
LEMMA AfterLap ==
  ASSUME NEW d, EngineOK(d, constraint), constraint \in Stages
  PROVE  LET e == Lap(d)
         IN  /\ EngineOK(e, constraint) /\ Kept(d, e) /\ Rested(e, constraint)
             /\ Len(e.blocked) <= Len(d.blocked)
             /\ Rested(d, constraint) /\ e # d => Len(e.blocked) < Len(d.blocked)
<1> DEFINE u == UnblockIntoBuffer(d)
           f == FeedConstraint(u)
           e == TryDispatch(f, Stages)
<1>1. /\ EngineOK(u, constraint) /\ Kept(d, u)
      /\ u = d \/ Len(u.blocked) < Len(d.blocked)
  BY AfterUnblock
<1> HIDE DEF u
<1>2. /\ EngineOK(f, constraint) /\ Kept(u, f) /\ f.blocked = u.blocked
      /\ f.buffer # <<>> => FreeServers(f, constraint) <= 0
  BY <1>1, AfterFeed
<1> HIDE DEF f
<1>3. /\ EngineOK(e, constraint) /\ Kept(f, e) /\ e.buffer = f.buffer /\ e.blocked = f.blocked
      /\ \A s \in Stages : FreeServers(e, s) > 0 => e.queued[s] = <<>>
      /\ \A s \in Stages : f.inService[s] <= e.inService[s]
  BY <1>2, AfterDispatch
<1>4. Lap(d) = e
  BY DEF Lap, u, f
<1> HIDE DEF e
<1>5. Kept(d, e)
  BY <1>1, <1>2, <1>3 DEF Kept
<1>6. e.buffer # <<>> => FreeServers(e, constraint) <= 0
  <2>1. /\ f.inService[constraint] \in Int /\ e.inService[constraint] \in Int
        /\ Workers[constraint] \in Int
    <3>1. f \in Engines /\ e \in Engines
      BY <1>2, <1>3 DEF EngineOK
    <3>2. f.inService \in [Stages -> Int] /\ e.inService \in [Stages -> Int]
      BY <3>1 DEF Engines
    <3>3. Workers[constraint] \in Int
      BY ConfigAssumption DEF ValidConfig, Stages
    <3>4. QED
      BY <3>2, <3>3
  <2>2. f.inService[constraint] <= e.inService[constraint]
    BY <1>3
  <2>3. QED
    BY <1>2, <1>3, <2>1, <2>2 DEF FreeServers
<1>7. Rested(e, constraint)
  BY <1>3, <1>6 DEF Rested
<1>8. Len(e.blocked) = Len(u.blocked) /\ Len(u.blocked) <= Len(d.blocked)
      /\ (u # d => Len(e.blocked) < Len(d.blocked))
  <2>1. d \in Engines
    BY DEF EngineOK
  <2>2. d.blocked \in Seq(Nat)
    BY <2>1 DEF Engines
  <2>3. Len(d.blocked) \in Nat
    BY <2>2
  <2>4. u \in Engines
    BY <1>1 DEF EngineOK
  <2>5. u.blocked \in Seq(Nat)
    BY <2>4 DEF Engines
  <2>6. Len(u.blocked) \in Nat
    BY <2>5
  <2>7. QED
    BY <1>1, <1>2, <1>3, <2>3, <2>6
<1>9. Rested(d, constraint) /\ u = d => e = d
  BY <1>4, RestedStays DEF u
<1>10. QED
  BY <1>3, <1>4, <1>5, <1>7, <1>8, <1>9

\* Where the constraint is busy if anything is blocked: a lap keeps this, and
\* a second one does nothing.
LEMMA BusyLap ==
  ASSUME NEW d, EngineOK(d, constraint), constraint \in Stages, Rested(d, constraint),
         d.blocked # <<>> => FreeServers(d, constraint) <= 0
  PROVE  LET e == Lap(d)
         IN  /\ Lap(e) = e
             /\ e.blocked # <<>> => FreeServers(e, constraint) <= 0
<1> DEFINE u == UnblockIntoBuffer(d)
           e == Lap(d)
<1>1. /\ EngineOK(u, constraint) /\ Kept(d, u)
      /\ u.inService[constraint] = d.inService[constraint]
      /\ u = d \/ Len(u.blocked) < Len(d.blocked)
      /\ u.blocked # <<>> => ~Fits(u, 1)
  BY AfterUnblock
<1>2. EngineOK(e, constraint) /\ Rested(e, constraint)
  BY AfterLap
<1>3. CASE d.blocked = <<>>
  <2>1. u.blocked \in Seq(Nat)
    <3>1. u \in Engines
      BY <1>1 DEF EngineOK
    <3>2. QED
      BY <3>1 DEF Engines
  <2>2. ~(Len(u.blocked) < Len(d.blocked))
    BY <1>3, <2>1
  <2>3. u = d
    BY <1>1, <2>2
  <2>4. e = d
    BY <2>3, RestedStays
  <2>5. QED
    BY <1>3, <2>4
<1>4. CASE d.blocked # <<>>
  <2>1. FreeServers(u, constraint) <= 0
    BY <1>1, <1>4 DEF FreeServers
  <2> HIDE DEF u
  <2>2. FeedConstraint(u) = u
    BY <1>1, <2>1, AfterFeed
  <2>3. e = TryDispatch(u, Stages)
    BY <2>2 DEF Lap, u
  <2> HIDE DEF e
  <2>4. /\ e.buffer = u.buffer /\ e.blocked = u.blocked /\ Kept(u, e)
        /\ u.inService[constraint] <= e.inService[constraint]
    BY <1>1, <2>3, AfterDispatch
  <2>5. e.bufferTime = u.bufferTime /\ e.bufferMaxTime = u.bufferMaxTime
    BY <1>1, <1>2, <2>4 DEF EngineOK, Kept
  <2>6. e.blocked # <<>> => ~Fits(e, 1)
    BY <1>1, <2>4, <2>5 DEF Fits
  <2>7. UnblockIntoBuffer(e) = e
    BY <1>2, <2>6, AfterUnblock
  <2>8. Lap(e) = e
    BY <1>2, <2>7, RestedStays
  <2>9. FreeServers(e, constraint) <= 0
    <3>1. /\ u.inService[constraint] \in Int /\ e.inService[constraint] \in Int
          /\ Workers[constraint] \in Int
      <4>1. u \in Engines /\ e \in Engines
        BY <1>1, <1>2 DEF EngineOK
      <4>2. u.inService \in [Stages -> Int] /\ e.inService \in [Stages -> Int]
        BY <4>1 DEF Engines
      <4>3. Workers[constraint] \in Int
        BY ConfigAssumption DEF ValidConfig, Stages
      <4>4. QED
        BY <4>2, <4>3
    <3>2. QED
      BY <2>1, <2>4, <3>1 DEF FreeServers
  <2>10. QED
    BY <2>8, <2>9 DEF e
<1>5. QED
  BY <1>3, <1>4

\* When one server of the constraint has just become free, the first lap
\* takes it again if anything stays blocked.
LEMMA FirstLap ==
  ASSUME NEW d, EngineOK(d, constraint), constraint \in Stages, Cost <= d.bufferMaxTime,
         d.blocked # <<>> => FreeServers(d, constraint) <= 1
  PROVE  Lap(d).blocked # <<>> => FreeServers(Lap(d), constraint) <= 0
<1> DEFINE u == UnblockIntoBuffer(d)
           f == FeedConstraint(u)
           e == TryDispatch(f, Stages)
<1>1. /\ EngineOK(u, constraint) /\ Kept(d, u)
      /\ u.inService[constraint] = d.inService[constraint]
      /\ u = d \/ Len(u.blocked) < Len(d.blocked)
      /\ u.blocked # <<>> => ~Fits(u, 1)
  BY AfterUnblock
<1> HIDE DEF u
<1>2. /\ EngineOK(f, constraint) /\ f.blocked = u.blocked /\ f.inService = u.inService
      /\ FreeServers(u, constraint) > 0 /\ u.buffer # <<>> => f.queued[constraint] # <<>>
  BY <1>1, AfterFeed
<1> HIDE DEF f
<1>3. /\ EngineOK(e, constraint) /\ e.blocked = f.blocked
      /\ f.inService[constraint] <= e.inService[constraint]
      /\ f.queued[constraint] # <<>> => \/ f.inService[constraint] < e.inService[constraint]
                                        \/ FreeServers(e, constraint) <= 0
  BY <1>2, AfterDispatch
<1>4. Lap(d) = e
  BY DEF Lap, u, f
<1> HIDE DEF e
<1>5. /\ u \in Engines /\ f \in Engines /\ e \in Engines /\ d \in Engines
      /\ u.bufferTime = Cost * Len(u.buffer)
  BY <1>1, <1>2, <1>3 DEF EngineOK
<1>6. /\ u.inService[constraint] \in Int /\ e.inService[constraint] \in Int
      /\ Workers[constraint] \in Int
  <2>1. u.inService \in [Stages -> Int] /\ e.inService \in [Stages -> Int]
    BY <1>5 DEF Engines
  <2>2. Workers[constraint] \in Int
    BY ConfigAssumption DEF ValidConfig, Stages
  <2>3. QED
    BY <2>1, <2>2
<1>7. SUFFICES ASSUME u.blocked # <<>>
               PROVE  FreeServers(e, constraint) <= 0
  BY <1>2, <1>3, <1>4
<1>8. d.blocked # <<>>
  <2>1. u.blocked \in Seq(Nat) /\ d.blocked \in Seq(Nat)
    BY <1>5 DEF Engines
  <2>2. Len(u.blocked) > 0
    BY <1>7, <2>1
  <2>3. Len(d.blocked) > 0
    BY <1>1, <2>1, <2>2
  <2>4. QED
    BY <2>3
<1>9. u.buffer # <<>>
  <2>1. SUFFICES ASSUME u.buffer = <<>>
                 PROVE  FALSE
    OBVIOUS
  <2>2. u.bufferTime = 0 /\ 1 * Cost = Cost
    BY <1>5, <2>1, CostOfMore
  <2>3. u.bufferMaxTime = d.bufferMaxTime
    BY <1>1 DEF Kept
  <2>4. Cost \in Int
    BY ConfigAssumption DEF ValidConfig
  <2>5. QED
    BY <1>1, <1>7, <2>2, <2>3, <2>4 DEF Fits
<1>10. FreeServers(u, constraint) <= 1
  BY <1>1, <1>8 DEF FreeServers
<1>11. QED
  BY <1>2, <1>3, <1>6, <1>9, <1>10 DEF FreeServers

-----------------------------------------------------------------------------
(* Items that leave service, and items that arrive. *)

\* An item that leaves service is nowhere.
LEMMA LeaveService ==
  ASSUME NEW d \in Engines, NEW e \in Engines, NowhereTwice(d), NEW a \in d.pending,
         \A r \in Places : At(e, r) = At(d, r), e.pending = d.pending \ {a}
  PROVE  NowhereTwice(e) /\ Somewhere(e) = Somewhere(d) \ {a[2]}
<1>1. Apart(d)
  BY ApartIsNowhereTwice
<1>2. Apart(e)
  BY <1>1 DEF Apart
<1>3. ASSUME NEW x
      PROVE  x \in Somewhere(e) <=> x \in Somewhere(d) /\ x # a[2]
  <2>1. x \in Somewhere(d) <=> \/ \E b \in d.pending : x = b[2]
                               \/ \E r \in Places : x \in Items(At(d, r))
    BY DEF Somewhere
  <2>2. x \in Somewhere(e) <=> \/ \E b \in d.pending : b # a /\ x = b[2]
                               \/ \E r \in Places : x \in Items(At(d, r))
    BY DEF Somewhere
  <2>3. \A b \in d.pending : b[2] = a[2] => b = a
    BY <1>1 DEF Apart
  <2>4. \A r \in Places : a[2] \notin Items(At(d, r))
    BY <1>1 DEF Apart
  <2>5. QED
    BY <2>1, <2>2, <2>3, <2>4
<1>4. QED
  BY <1>2, <1>3, ApartIsNowhereTwice

\* An item that is nowhere joins a queue.
LEMMA JoinQueue ==
  ASSUME NEW d \in Engines, NEW e \in Engines, NowhereTwice(d), NEW i \in Nat, i \notin Somewhere(d),
         NEW q \in Places, At(e, q) = At(d, q) \o <<i>>,
         \A r \in Places \ {q} : At(e, r) = At(d, r), e.pending = d.pending
  PROVE  NowhereTwice(e) /\ Somewhere(e) = Somewhere(d) \cup {i}
<1>1. Apart(d)
  BY ApartIsNowhereTwice
<1>2. /\ \A r \in Places : i \notin Items(At(d, r))
      /\ \A a \in d.pending : a[2] # i
  BY DEF Somewhere
<1>3. Items(At(e, q)) = Items(At(d, q)) \cup {i} /\ Once(At(e, q))
  <2> DEFINE before == At(d, q)
  <2>1. before \in Seq(Nat) /\ Once(before) /\ i \notin Items(before)
    BY <1>1, <1>2, AtPlace DEF Apart
  <2> HIDE DEF before
  <2>2. <<i>> \in Seq(Nat) /\ Items(<<i>>) = {i} /\ Once(<<i>>)
    BY DEF Items, Once
  <2>3. Items(before \o <<i>>) = Items(before) \cup {i} /\ Once(before \o <<i>>)
    BY <2>1, <2>2, ConcatItems, ConcatOnce
  <2>4. QED
    BY <2>3 DEF before
<1>4. \A r \in Places : Once(At(e, r))
  BY <1>1, <1>3 DEF Apart
<1>5. ASSUME NEW a \in Places, NEW b \in Places, a # b, NEW x,
             x \in Items(At(e, a)), x \in Items(At(e, b))
      PROVE  FALSE
  <2>1. \A r \in Places : x \in Items(At(e, r)) => x \in Items(At(d, r)) \/ (x = i /\ r = q)
    BY <1>3
  <2>2. x \in Items(At(d, a)) /\ x \in Items(At(d, b)) => a = b
    BY <1>1 DEF Apart
  <2>3. QED
    BY <1>2, <1>5, <2>1, <2>2
<1>6. \A a \in e.pending, r \in Places : a[2] \notin Items(At(e, r))
  <2>1. SUFFICES ASSUME NEW a \in d.pending, NEW r \in Places, a[2] \in Items(At(e, r))
                 PROVE  FALSE
    OBVIOUS
  <2>2. a[2] \in Items(At(d, r)) \/ a[2] = i
    BY <1>3, <2>1
  <2>3. QED
    BY <1>1, <1>2, <2>2 DEF Apart
<1>7. Apart(e)
  BY <1>1, <1>4, <1>5, <1>6 DEF Apart
<1>8. ASSUME NEW x
      PROVE  x \in Somewhere(e) <=> x \in Somewhere(d) \/ x = i
  <2>1. x \in Somewhere(d) <=> \/ \E b \in d.pending : x = b[2]
                               \/ \E r \in Places : x \in Items(At(d, r))
    BY DEF Somewhere
  <2>2. x \in Somewhere(e) <=> \/ \E b \in d.pending : x = b[2]
                               \/ \E r \in Places : x \in Items(At(e, r))
    BY DEF Somewhere
  <2>3. (\E r \in Places : x \in Items(At(e, r)))
          <=> x = i \/ \E r \in Places : x \in Items(At(d, r))
    BY <1>3
  <2>4. QED
    BY <2>1, <2>2, <2>3
<1>9. QED
  BY <1>7, <1>8, ApartIsNowhereTwice

-----------------------------------------------------------------------------
(* Steps that move nothing. *)

SameLine(d, e) ==
  /\ e.backlog = d.backlog /\ e.queued = d.queued /\ e.pending = d.pending
  /\ e.inService = d.inService /\ e.blocked = d.blocked
  /\ e.buffer = d.buffer /\ e.bufferTime = d.bufferTime
  /\ e.arrivals = d.arrivals /\ e.completed = d.completed

\* The books are about the line alone.
LEMMA SameLineOK ==
  ASSUME NEW d, NEW c, EngineOK(d, c), NEW e \in Engines, SameLine(d, e)
  PROVE  EngineOK(e, c) /\ (Rested(d, c) => Rested(e, c))
<1>1. d \in Engines
  BY DEF EngineOK
<1>2. \A p \in Places : At(e, p) = At(d, p)
  <2>1. /\ Places = {Backlog, Buffer, Blocked} \cup Stages
        /\ At(d, Backlog) = d.backlog /\ At(d, Buffer) = d.buffer /\ At(d, Blocked) = d.blocked
        /\ \A s \in Stages : At(d, s) = d.queued[s]
    BY <1>1, AtPlace
  <2>2. /\ At(e, Backlog) = e.backlog /\ At(e, Buffer) = e.buffer /\ At(e, Blocked) = e.blocked
        /\ \A s \in Stages : At(e, s) = e.queued[s]
    BY AtPlace
  <2>3. QED
    BY <2>1, <2>2 DEF SameLine
<1>3. NowhereTwice(e) /\ Somewhere(e) = Somewhere(d)
  BY <1>2 DEF EngineOK, NowhereTwice, Somewhere, SameLine
<1>4. \A s \in Stages : Served(e, s) = Served(d, s)
  BY DEF Served, SameLine
<1>5. EngineOK(e, c)
  BY <1>3, <1>4 DEF EngineOK, Accounted, ServersHeld, SameLine
<1>6. Rested(d, c) => Rested(e, c)
  BY DEF Rested, FreeServers, SameLine
<1>7. QED
  BY <1>5, <1>6

-----------------------------------------------------------------------------
(* The backlog. *)

\* drainSourceBacklog keeps the books, and dispatches what it releases.
LEMMA AfterDrain ==
  ASSUME NEW d, NEW c \in Stages, EngineOK(d, c)
  PROVE  LET e == DrainSourceBacklog(d)
         IN  /\ EngineOK(e, c) /\ Kept(d, e)
             /\ e.blocked = d.blocked /\ d.inService[c] <= e.inService[c]
             /\ Rested(d, c) => Rested(e, c)
<1> DEFINE k == Least(d.ropeRate - d.admissions, Len(d.backlog))
           rest == Rest(d.backlog, k)
           front == SubSeq(d.backlog, 1, k)
           m == [d EXCEPT !.backlog = rest, !.admissions = @ + k]
           a == IF k <= 0 THEN d ELSE AdmitToStage(m, 1, front)
           e == TryDispatch(a, {1})
<1>1. /\ d \in Engines /\ NowhereTwice(d) /\ Accounted(d) /\ ServersHeld(d, c)
      /\ d.bufferTime = Cost * Len(d.buffer)
      /\ c = 1 => d.buffer = <<>> /\ d.blocked = <<>>
  BY DEF EngineOK
<1>2. /\ d.backlog \in Seq(Nat) /\ d.ropeRate \in Nat /\ d.admissions \in Nat
      /\ Len(d.backlog) \in Nat /\ d.queued \in [Stages -> Seq(Nat)]
      /\ d.inService \in [Stages -> Int]
  BY <1>1 DEF Engines
<1>3. 1 \in Stages
  BY <1>1, AtPlace
<1>4. DrainSourceBacklog(d) = e
  BY DEF DrainSourceBacklog
<1>5. k \in Int /\ k <= Len(d.backlog)
  BY <1>2 DEF Least
<1> HIDE DEF k
<1>6. /\ EngineOK(a, c) /\ Kept(d, a) /\ a.blocked = d.blocked /\ a.buffer = d.buffer
      /\ a.inService = d.inService
      /\ \A s \in Stages \ {1} : a.queued[s] = d.queued[s]
  <2>1. CASE k <= 0
    BY <2>1 DEF Kept
  <2>2. CASE k > 0
    <3>1. k \in 0..Len(d.backlog) /\ k \in Nat
      BY <1>2, <1>5, <2>2
    <3>2. rest \in Seq(Nat) /\ front \in Seq(Nat)
      BY <1>2, <3>1, CutQueue
    <3> HIDE DEF rest, front
    <3>3. /\ m \in Engines /\ Kept(d, m) /\ m.backlog = rest
          /\ m.queued = d.queued /\ m.pending = d.pending /\ m.inService = d.inService
          /\ m.blocked = d.blocked /\ m.buffer = d.buffer /\ m.bufferTime = d.bufferTime
      <4>1. PICK n \in Nat : n = d.admissions + k
        BY <1>2, <3>1
      <4> DEFINE x == [d EXCEPT !.backlog = rest, !.admissions = n]
      <4>2. /\ x \in Engines /\ Kept(d, x) /\ x.backlog = rest
            /\ x.queued = d.queued /\ x.pending = d.pending /\ x.inService = d.inService
            /\ x.blocked = d.blocked /\ x.buffer = d.buffer /\ x.bufferTime = d.bufferTime
        BY <1>1, <3>2 DEF Engines, Kept
      <4>3. m = x
        BY <4>1
      <4> HIDE DEF m, x
      <4>4. QED
        BY <4>2, <4>3
    <3> HIDE DEF m
    <3>4. a = AdmitToStage(m, 1, front)
      BY <1>5, <2>2
    <3> HIDE DEF a
    <3>5. /\ a \in Engines /\ Kept(m, a)
          /\ a.queued = [m.queued EXCEPT ![1] = @ \o front]
          /\ a.backlog = m.backlog /\ a.buffer = m.buffer /\ a.blocked = m.blocked
          /\ a.pending = m.pending /\ a.inService = m.inService
          /\ a.bufferTime = m.bufferTime
      <4>1. PICK s \in Stages : s = 1
        BY <1>3
      <4>2. a = AdmitToStage(m, s, front)
        BY <3>4, <4>1
      <4>3. /\ a \in Engines /\ Kept(m, a)
            /\ a.queued = [m.queued EXCEPT ![s] = @ \o front]
            /\ a.backlog = m.backlog /\ a.buffer = m.buffer /\ a.blocked = m.blocked
            /\ a.pending = m.pending /\ a.inService = m.inService
            /\ a.bufferTime = m.bufferTime
        BY <3>2, <3>3, <4>2, AdmitParts, ZenonT(60)
      <4>4. QED
        BY <4>1, <4>3
    <3>6. /\ Kept(d, a) /\ a.blocked = d.blocked /\ a.buffer = d.buffer
          /\ a.inService = d.inService /\ a.pending = d.pending /\ a.bufferTime = d.bufferTime
          /\ a.backlog = rest
      BY <3>3, <3>5 DEF Kept
    <3>7. /\ a.queued[1] = d.queued[1] \o front
          /\ \A s \in Stages \ {1} : a.queued[s] = d.queued[s]
      BY <1>2, <1>3, <3>3, <3>5
    <3>8. NowhereTwice(a) /\ Somewhere(a) = Somewhere(d)
      <4>1. /\ Places = {Backlog, Buffer, Blocked} \cup Stages
            /\ {Backlog, Buffer, Blocked} \cap Stages = {}
            /\ At(d, Backlog) = d.backlog /\ At(d, Buffer) = d.buffer /\ At(d, Blocked) = d.blocked
            /\ \A s \in Stages : At(d, s) = d.queued[s]
        BY <1>1, AtPlace
      <4>2. /\ At(a, Backlog) = a.backlog /\ At(a, Buffer) = a.buffer /\ At(a, Blocked) = a.blocked
            /\ \A s \in Stages : At(a, s) = a.queued[s]
        BY <3>5, AtPlace
      <4>3. Backlog \in Places /\ 1 \in Places /\ Backlog # 1 /\ k \in 0..Len(At(d, Backlog))
        BY <1>3, <3>1, <4>1
      <4>4. At(a, Backlog) = Rest(At(d, Backlog), k)
        BY <3>6, <4>1, <4>2 DEF rest
      <4>5. At(a, 1) = At(d, 1) \o SubSeq(At(d, Backlog), 1, k)
        BY <1>3, <3>7, <4>1, <4>2 DEF front
      <4>6. \A r \in Places \ {Backlog, 1} : At(a, r) = At(d, r)
        BY <3>6, <3>7, <4>1, <4>2
      <4>7. d \in Engines /\ a \in Engines /\ NowhereTwice(d) /\ a.pending = d.pending
        BY <1>1, <3>5, <3>6
      <4>8. QED
        BY <4>3, <4>4, <4>5, <4>6, <4>7, MoveKeepsItems
    <3>9. ServersHeld(a, c)
      <4>1. \A s \in Stages : Served(a, s) = Served(d, s)
        BY <3>6 DEF Served
      <4>2. QED
        BY <1>1, <3>6, <4>1 DEF ServersHeld
    <3>10. EngineOK(a, c)
      BY <1>1, <3>5, <3>6, <3>8, <3>9 DEF EngineOK, Accounted, Kept
    <3>11. QED
      BY <3>6, <3>7, <3>10
  <2>3. QED
    BY <1>5, <2>1, <2>2
<1> HIDE DEF a
<1>7. /\ EngineOK(e, c) /\ Kept(a, e) /\ e.buffer = a.buffer /\ e.blocked = a.blocked
      /\ FreeServers(e, 1) > 0 => e.queued[1] = <<>>
      /\ \A s \in Stages \ {1} : e.inService[s] = a.inService[s] /\ e.queued[s] = a.queued[s]
      /\ \A s \in Stages : a.inService[s] <= e.inService[s]
  BY <1>3, <1>6, AfterDispatch
<1> HIDE DEF e
<1>8. Kept(d, e)
  BY <1>6, <1>7 DEF Kept
<1>9. Rested(d, c) => Rested(e, c)
  <2>1. SUFFICES ASSUME Rested(d, c)
                 PROVE  Rested(e, c)
    OBVIOUS
  <2>2. \A s \in Stages : FreeServers(e, s) > 0 => e.queued[s] = <<>>
    BY <1>6, <1>7, <2>1 DEF Rested, FreeServers
  <2>3. SUFFICES ASSUME e.buffer # <<>>
                 PROVE  FreeServers(e, c) <= 0
    BY <2>2 DEF Rested
  <2>4. FreeServers(d, c) <= 0
    BY <1>6, <1>7, <2>1, <2>3 DEF Rested
  <2>5. d.inService[c] \in Int /\ e.inService[c] \in Int /\ Workers[c] \in Int
    <3>1. e.inService \in [Stages -> Int]
      BY <1>7 DEF EngineOK, Engines
    <3>2. Workers[c] \in Int
      BY ConfigAssumption DEF ValidConfig, Stages
    <3>3. QED
      BY <1>2, <3>1, <3>2
  <2>6. QED
    BY <1>6, <1>7, <2>4, <2>5 DEF FreeServers
<1>10. QED
  BY <1>4, <1>6, <1>7, <1>8, <1>9

\* An arrival gets the next number and is in the backlog.
LEMMA AfterArrival ==
  ASSUME NEW d, NEW c \in Stages, EngineOK(d, c)
  PROVE  LET e == [d EXCEPT !.arrivals = @ + 1, !.backlog = Append(@, d.arrivals + 1)]
         IN  /\ EngineOK(e, c) /\ e.diverged = d.diverged /\ e.bufferMaxTime = d.bufferMaxTime
             /\ e.blocked = d.blocked /\ e.inService = d.inService
             /\ Rested(d, c) => Rested(e, c)
<1>1. /\ d \in Engines /\ NowhereTwice(d) /\ Accounted(d) /\ ServersHeld(d, c)
      /\ d.bufferTime = Cost * Len(d.buffer)
      /\ c = 1 => d.buffer = <<>> /\ d.blocked = <<>>
  BY DEF EngineOK
<1>2. d.backlog \in Seq(Nat) /\ d.arrivals \in Nat /\ d.completed \in Nat
  BY <1>1 DEF Engines
<1>3. PICK i \in Nat : i = d.arrivals + 1
  BY <1>2
<1>4. PICK q \in Seq(Nat) : q = d.backlog \o <<i>> /\ q = Append(d.backlog, i)
  <2> DEFINE b == d.backlog
  <2>1. Append(b, i) \in Seq(Nat) /\ Append(b, i) = b \o <<i>>
    <3>1. b \in Seq(Nat)
      BY <1>2
    <3> HIDE DEF b
    <3>2. QED
      BY <3>1
  <2>2. QED
    BY <2>1
<1> DEFINE e == [d EXCEPT !.arrivals = i, !.backlog = q]
<1>5. /\ e \in Engines /\ e.arrivals = i /\ e.backlog = q
      /\ e.diverged = d.diverged /\ e.bufferMaxTime = d.bufferMaxTime
      /\ e.queued = d.queued /\ e.pending = d.pending /\ e.inService = d.inService
      /\ e.blocked = d.blocked /\ e.buffer = d.buffer /\ e.bufferTime = d.bufferTime
      /\ e.completed = d.completed
  BY <1>1 DEF Engines
<1>6. [d EXCEPT !.arrivals = @ + 1, !.backlog = Append(@, d.arrivals + 1)] = e
  BY <1>3, <1>4
<1> HIDE DEF e
<1>7. i \notin Somewhere(d)
  BY <1>1, <1>2, <1>3 DEF Accounted
<1>8. NowhereTwice(e) /\ Somewhere(e) = Somewhere(d) \cup {i}
  <2>1. /\ Places = {Backlog, Buffer, Blocked} \cup Stages
        /\ {Backlog, Buffer, Blocked} \cap Stages = {}
        /\ At(d, Backlog) = d.backlog /\ At(d, Buffer) = d.buffer /\ At(d, Blocked) = d.blocked
        /\ \A s \in Stages : At(d, s) = d.queued[s]
    BY <1>1, AtPlace
  <2>2. /\ At(e, Backlog) = e.backlog /\ At(e, Buffer) = e.buffer /\ At(e, Blocked) = e.blocked
        /\ \A s \in Stages : At(e, s) = e.queued[s]
    BY <1>5, AtPlace
  <2>3. At(e, Backlog) = At(d, Backlog) \o <<i>>
    BY <1>4, <1>5, <2>1, <2>2
  <2>4. \A r \in Places \ {Backlog} : At(e, r) = At(d, r)
    BY <1>5, <2>1, <2>2
  <2>5. Backlog \in Places /\ d \in Engines /\ e \in Engines /\ NowhereTwice(d) /\ e.pending = d.pending
    BY <1>1, <1>5, <2>1
  <2>6. PICK p \in Places : p = Backlog
    BY <2>5
  <2>7. At(e, p) = At(d, p) \o <<i>> /\ \A r \in Places \ {p} : At(e, r) = At(d, r)
    BY <2>3, <2>4, <2>6
  <2>8. QED
    BY <1>7, <2>5, <2>7, JoinQueue
<1>9. Accounted(e)
  <2>1. /\ IsFiniteSet(Somewhere(d)) /\ Cardinality(Somewhere(d)) \in Nat
        /\ d.completed + Cardinality(Somewhere(d)) = d.arrivals
        /\ Somewhere(d) \subseteq 1..d.arrivals
    BY <1>1, PendingFinite DEF Accounted
  <2>2. Cardinality(Somewhere(e)) = Cardinality(Somewhere(d)) + 1
    BY <1>7, <1>8, <2>1, FS_AddElement
  <2>3. Somewhere(e) \subseteq 1..e.arrivals
    BY <1>2, <1>3, <1>5, <1>8, <2>1
  <2>4. QED
    BY <1>2, <1>3, <1>5, <2>1, <2>2, <2>3 DEF Accounted
<1>10. ServersHeld(e, c)
  <2>1. \A s \in Stages : Served(e, s) = Served(d, s)
    BY <1>5 DEF Served
  <2>2. QED
    BY <1>1, <1>5, <2>1 DEF ServersHeld
<1>11. EngineOK(e, c)
  BY <1>1, <1>5, <1>8, <1>9, <1>10 DEF EngineOK
<1>12. Rested(d, c) => Rested(e, c)
  BY <1>5 DEF Rested, FreeServers
<1>13. QED
  BY <1>5, <1>6, <1>11, <1>12

\* checkSafety only raises a flag.
LEMMA AfterCheck ==
  ASSUME NEW d, NEW c, EngineOK(d, c)
  PROVE  LET e == CheckSafety(d)
         IN  /\ EngineOK(e, c) /\ e.diverged = d.diverged /\ e.bufferMaxTime = d.bufferMaxTime
             /\ e.blocked = d.blocked /\ e.inService = d.inService
             /\ Rested(d, c) => Rested(e, c)
<1> DEFINE e == [d EXCEPT !.breached = TRUE]
<1>1. d \in Engines
  BY DEF EngineOK
<1>2. /\ e \in Engines /\ SameLine(d, e)
      /\ e.diverged = d.diverged /\ e.bufferMaxTime = d.bufferMaxTime
      /\ e.blocked = d.blocked /\ e.inService = d.inService
  BY <1>1 DEF Engines, SameLine
<1>3. CheckSafety(d) = d \/ CheckSafety(d) = e
  BY DEF CheckSafety
<1> HIDE DEF e
<1>4. EngineOK(e, c) /\ (Rested(d, c) => Rested(e, c))
  BY <1>2, SameLineOK
<1>5. QED
  BY <1>2, <1>3, <1>4

\* The engine without the completion that is handled: the item is nowhere, and
\* its server is one too many in the books.
LEMMA TakePending ==
  ASSUME NEW d, NEW c \in Stages, EngineOK(d, c), NEW s \in Stages, NEW i, <<s, i>> \in d.pending
  PROVE  LET m == [d EXCEPT !.pending = @ \ {<<s, i>>}]
         IN  /\ i \in Nat /\ i \in 1..d.arrivals
             /\ m \in Engines /\ Kept(d, m) /\ NowhereTwice(m)
             /\ Somewhere(m) = Somewhere(d) \ {i} /\ i \in Somewhere(d)
             /\ m.pending = d.pending \ {<<s, i>>}
             /\ \A t \in Stages : Cardinality(Served(m, t))
                                    = Cardinality(Served(d, t)) - (IF t = s THEN 1 ELSE 0)
             /\ m.backlog = d.backlog /\ m.queued = d.queued /\ m.inService = d.inService
             /\ m.blocked = d.blocked /\ m.buffer = d.buffer /\ m.bufferTime = d.bufferTime
<1> DEFINE p == d.pending \ {<<s, i>>}
           m == [d EXCEPT !.pending = p]
<1>1. /\ d \in Engines /\ NowhereTwice(d) /\ Accounted(d)
      /\ d.pending \in SUBSET (Stages \X Nat)
  BY DEF EngineOK, Engines
<1>2. p \in SUBSET (Stages \X Nat) /\ i \in Nat
  BY <1>1
<1> HIDE DEF p
<1>3. /\ m \in Engines /\ Kept(d, m) /\ m.pending = p
      /\ m.backlog = d.backlog /\ m.queued = d.queued /\ m.inService = d.inService
      /\ m.blocked = d.blocked /\ m.buffer = d.buffer /\ m.bufferTime = d.bufferTime
  BY <1>1, <1>2 DEF Engines, Kept
<1> HIDE DEF m
<1>4. PICK a \in d.pending : a = <<s, i>> /\ a[2] = i /\ a[1] = s
  OBVIOUS
<1>5. \A r \in Places : At(m, r) = At(d, r)
  <2>1. /\ Places = {Backlog, Buffer, Blocked} \cup Stages
        /\ At(d, Backlog) = d.backlog /\ At(d, Buffer) = d.buffer /\ At(d, Blocked) = d.blocked
        /\ \A t \in Stages : At(d, t) = d.queued[t]
    BY <1>1, AtPlace
  <2>2. /\ At(m, Backlog) = m.backlog /\ At(m, Buffer) = m.buffer /\ At(m, Blocked) = m.blocked
        /\ \A t \in Stages : At(m, t) = m.queued[t]
    BY <1>3, AtPlace
  <2>3. QED
    BY <1>3, <2>1, <2>2
<1>6. NowhereTwice(m) /\ Somewhere(m) = Somewhere(d) \ {i}
  <2>1. m.pending = d.pending \ {a}
    BY <1>3, <1>4 DEF p
  <2>2. NowhereTwice(m) /\ Somewhere(m) = Somewhere(d) \ {a[2]}
    BY <1>1, <1>3, <1>5, <2>1, LeaveService
  <2>3. QED
    BY <1>4, <2>2
<1>7. i \in Somewhere(d)
  BY <1>4 DEF Somewhere
<1>8. ASSUME NEW t \in Stages
      PROVE  Cardinality(Served(m, t)) = Cardinality(Served(d, t)) - (IF t = s THEN 1 ELSE 0)
  <2>1. IsFiniteSet(Served(d, t)) /\ Cardinality(Served(d, t)) \in Nat
    BY <1>1, PendingFinite DEF Accounted
  <2>2. Served(m, t) = Served(d, t) \ {a}
    BY <1>3, <1>4 DEF Served, p
  <2>3. a \in Served(d, t) <=> t = s
    BY <1>4 DEF Served
  <2>4. Cardinality(Served(d, t) \ {a})
          = IF a \in Served(d, t) THEN Cardinality(Served(d, t)) - 1 ELSE Cardinality(Served(d, t))
    BY <2>1, FS_RemoveElement
  <2>5. CASE t = s
    BY <2>2, <2>3, <2>4, <2>5
  <2>6. CASE t # s
    BY <2>1, <2>2, <2>3, <2>4, <2>6
  <2>7. QED
    BY <2>5, <2>6
<1>9. i \in 1..d.arrivals
  BY <1>1, <1>7 DEF Accounted
<1>10. QED
  BY <1>2, <1>3, <1>6, <1>7, <1>8, <1>9 DEF m, p
\* m is d without the completion <<s, i>>: the item is nowhere, and its server
\* is one too many in the books.
Taken(d, m, s, i) ==
  /\ i \in Nat /\ i \in 1..d.arrivals
  /\ m \in Engines /\ Kept(d, m) /\ NowhereTwice(m)
  /\ Somewhere(m) = Somewhere(d) \ {i} /\ i \in Somewhere(d)
  /\ \A t \in Stages : Cardinality(Served(m, t))
                         = Cardinality(Served(d, t)) - (IF t = s THEN 1 ELSE 0)
  /\ m.backlog = d.backlog /\ m.queued = d.queued /\ m.inService = d.inService
  /\ m.blocked = d.blocked /\ m.buffer = d.buffer /\ m.bufferTime = d.bufferTime

\* The item is back in the line, in one queue.
LEMMA Rejoin ==
  ASSUME NEW d, NEW c, EngineOK(d, c), NEW m, NEW s, NEW i, Taken(d, m, s, i),
         NEW e \in Engines, e.arrivals = d.arrivals, e.completed = d.completed,
         NEW q \in Places, At(e, q) = At(m, q) \o <<i>>,
         \A r \in Places \ {q} : At(e, r) = At(m, r), e.pending = m.pending
  PROVE  NowhereTwice(e) /\ Accounted(e)
<1>1. /\ i \in Nat /\ i \notin Somewhere(m) /\ m \in Engines /\ NowhereTwice(m)
      /\ Somewhere(m) = Somewhere(d) \ {i} /\ i \in Somewhere(d)
  BY DEF Taken
<1>2. NowhereTwice(e) /\ Somewhere(e) = Somewhere(m) \cup {i}
  BY <1>1, JoinQueue
<1>3. Somewhere(e) = Somewhere(d)
  BY <1>1, <1>2
<1>4. QED
  BY <1>2, <1>3 DEF EngineOK, Accounted

\* The server is given back.
LEMMA GiveBack ==
  ASSUME NEW d, NEW c \in Stages, EngineOK(d, c), NEW m, NEW s \in Stages, NEW i,
         Taken(d, m, s, i),
         NEW e \in Engines, e.pending = m.pending, e.blocked = m.blocked,
         e.inService = [m.inService EXCEPT ![s] = @ - 1]
  PROVE  ServersHeld(e, c) /\ d.inService[c] - 1 <= e.inService[c]
<1>1. d \in Engines /\ NowhereTwice(d) /\ Somewhere(d) \subseteq 1..d.arrivals /\ ServersHeld(d, c)
  BY DEF EngineOK, Accounted
<1>2. d.inService \in [Stages -> Int] /\ d.blocked \in Seq(Nat)
  BY <1>1 DEF Engines
<1>3. e.blocked = d.blocked /\ e.inService = [d.inService EXCEPT ![s] = @ - 1]
  BY DEF Taken
<1>4. Len(d.blocked) \in Nat
  BY <1>2
<1>5. ASSUME NEW t \in Stages
      PROVE  /\ e.inService[t] = Cardinality(Served(e, t))
                                 + (IF t = c - 1 THEN Len(e.blocked) ELSE 0)
             /\ e.inService[t] <= Workers[t]
             /\ d.inService[t] - 1 <= e.inService[t]
  <2> DEFINE n == Cardinality(Served(d, t))
             held == IF t = c - 1 THEN Len(d.blocked) ELSE 0
             gone == IF t = s THEN 1 ELSE 0
  <2>1. Workers[t] \in Nat
    BY ConfigAssumption DEF ValidConfig, Stages
  <2>2. n \in Nat
    BY <1>1, PendingFinite
  <2>3. d.inService[t] = n + held /\ d.inService[t] <= Workers[t]
    BY <1>1 DEF ServersHeld
  <2>4. Cardinality(Served(m, t)) = n - gone
    BY DEF Taken
  <2>5. Served(e, t) = Served(m, t)
    BY DEF Served
  <2>6. e.inService[t] = d.inService[t] - gone
    BY <1>2, <1>3
  <2>7. held \in Nat /\ gone \in Nat /\ gone <= 1 /\ d.inService[t] \in Int
    BY <1>2, <1>4
  <2>8. (IF t = c - 1 THEN Len(e.blocked) ELSE 0) = held
    BY <1>3
  <2> HIDE DEF n, held, gone
  <2>9. QED
    BY <2>1, <2>2, <2>3, <2>4, <2>5, <2>6, <2>7, <2>8
<1>6. QED
  BY <1>5 DEF ServersHeld

\* What holds of e once the completion taken from d is handled: the constraint
\* gave back one server at most, and an item is blocked only if it does not fit.
Ended(d, e, c) ==
  /\ EngineOK(e, c)
  /\ e.diverged = d.diverged /\ e.bufferMaxTime = d.bufferMaxTime
  /\ d.inService[c] - 1 <= e.inService[c]
  /\ e.blocked = d.blocked \/ ~Fits(d, 1)

\* At the last stage the item leaves the line.
LEMMA EndsLast ==
  ASSUME NEW d, NEW c \in Stages, EngineOK(d, c), NEW m, NEW s \in Stages, NEW i,
         Taken(d, m, s, i)
  PROVE  Ended(d, [m EXCEPT !.inService[s] = @ - 1, !.completed = @ + 1], c)
<1>1. m \in Engines /\ m.inService \in [Stages -> Int] /\ m.completed \in Nat
  BY DEF Taken, Engines
<1>2. PICK is \in [Stages -> Int] : is = [m.inService EXCEPT ![s] = @ - 1]
  <2>1. [m.inService EXCEPT ![s] = @ - 1] \in [Stages -> Int]
    BY <1>1
  <2>2. QED
    BY <2>1
<1>3. PICK z \in Nat : z = m.completed + 1
  BY <1>1
<1> DEFINE e == [m EXCEPT !.inService = is, !.completed = z]
<1>4. [m EXCEPT !.inService[s] = @ - 1, !.completed = @ + 1] = e
  BY <1>1, <1>2, <1>3
<1>5. /\ e \in Engines /\ e.inService = is /\ e.completed = z
      /\ e.arrivals = m.arrivals /\ e.diverged = m.diverged /\ e.bufferMaxTime = m.bufferMaxTime
      /\ e.backlog = m.backlog /\ e.queued = m.queued /\ e.pending = m.pending
      /\ e.blocked = m.blocked /\ e.buffer = m.buffer /\ e.bufferTime = m.bufferTime
  BY <1>1 DEF Engines
<1> HIDE DEF e
<1>6. NowhereTwice(e) /\ Somewhere(e) = Somewhere(m)
  <2>1. \A p \in Places : At(e, p) = At(m, p)
    <3>1. /\ Places = {Backlog, Buffer, Blocked} \cup Stages
          /\ At(m, Backlog) = m.backlog /\ At(m, Buffer) = m.buffer /\ At(m, Blocked) = m.blocked
          /\ \A t \in Stages : At(m, t) = m.queued[t]
      BY <1>1, AtPlace
    <3>2. /\ At(e, Backlog) = e.backlog /\ At(e, Buffer) = e.buffer /\ At(e, Blocked) = e.blocked
          /\ \A t \in Stages : At(e, t) = e.queued[t]
      BY <1>5, AtPlace
    <3>3. QED
      BY <1>5, <3>1, <3>2
  <2>2. NowhereTwice(m)
    BY DEF Taken
  <2>3. QED
    BY <1>5, <2>1, <2>2 DEF NowhereTwice, Somewhere
<1>7. Accounted(e)
  <2>1. d \in Engines /\ NowhereTwice(d) /\ Accounted(d)
    BY DEF EngineOK
  <2>2. Somewhere(d) \subseteq 1..d.arrivals /\ d.completed + Cardinality(Somewhere(d)) = d.arrivals
    BY <2>1 DEF Accounted
  <2>3. IsFiniteSet(Somewhere(d)) /\ Cardinality(Somewhere(d)) \in Nat
    BY <2>1, <2>2, PendingFinite
  <2>4. /\ Somewhere(m) = Somewhere(d) \ {i} /\ i \in Somewhere(d)
        /\ m.completed = d.completed /\ m.arrivals = d.arrivals
    BY DEF Taken, Kept
  <2>5. Cardinality(Somewhere(m)) = Cardinality(Somewhere(d)) - 1
    BY <2>3, <2>4, FS_RemoveElement
  <2>6. e.completed + Cardinality(Somewhere(e)) = e.arrivals
    BY <1>1, <1>3, <1>5, <1>6, <2>2, <2>3, <2>4, <2>5
  <2>7. QED
    BY <1>5, <1>6, <2>2, <2>4, <2>6 DEF Accounted
<1>8. ServersHeld(e, c) /\ d.inService[c] - 1 <= e.inService[c]
  BY <1>2, <1>5, GiveBack
<1>9. EngineOK(e, c)
  BY <1>5, <1>6, <1>7, <1>8 DEF EngineOK, Taken
<1>10. e.diverged = d.diverged /\ e.bufferMaxTime = d.bufferMaxTime /\ e.blocked = d.blocked
  BY <1>5 DEF Taken, Kept
<1>11. QED
  BY <1>4, <1>8, <1>9, <1>10 DEF Ended

\* Before the constraint the item goes into the buffer, where it fits.
LEMMA EndsIntoBuffer ==
  ASSUME NEW d, constraint \in Stages, EngineOK(d, constraint), NEW m, NEW s \in Stages, NEW i,
         Taken(d, m, s, i), s = PreConstraint
  PROVE  Ended(d, IntoBuffer(m, <<i>>), constraint)
<1>1. m \in Engines /\ i \in Nat /\ m.inService \in [Stages -> Int] /\ m.buffer \in Seq(Nat)
  BY DEF Taken, Engines
<1>2. PICK q \in Seq(Nat) : q = <<i>> /\ Len(q) = 1
  <2>1. <<i>> \in Seq(Nat) /\ Len(<<i>>) = 1
    BY <1>1
  <2>2. QED
    BY <2>1
<1> DEFINE e == IntoBuffer(m, q)
<1>3. /\ e \in Engines /\ Kept(m, e)
      /\ e.inService = [m.inService EXCEPT ![PreConstraint] = @ - Len(q)]
      /\ e.buffer = m.buffer \o q /\ e.bufferTime = m.bufferTime + Cost * Len(q)
      /\ e.backlog = m.backlog /\ e.queued = m.queued /\ e.pending = m.pending
      /\ e.blocked = m.blocked
  BY <1>1, IntoBufferParts
<1> HIDE DEF e
<1>4. e.arrivals = d.arrivals /\ e.completed = d.completed
  BY <1>3 DEF Taken, Kept
<1>5. NowhereTwice(e) /\ Accounted(e)
  <2>1. /\ Places = {Backlog, Buffer, Blocked} \cup Stages
        /\ {Backlog, Buffer, Blocked} \cap Stages = {}
        /\ At(m, Backlog) = m.backlog /\ At(m, Buffer) = m.buffer /\ At(m, Blocked) = m.blocked
        /\ \A t \in Stages : At(m, t) = m.queued[t]
    BY <1>1, AtPlace
  <2>2. /\ At(e, Backlog) = e.backlog /\ At(e, Buffer) = e.buffer /\ At(e, Blocked) = e.blocked
        /\ \A t \in Stages : At(e, t) = e.queued[t]
    BY <1>3, AtPlace
  <2>3. At(e, Buffer) = At(m, Buffer) \o <<i>>
    BY <1>2, <1>3, <2>1, <2>2
  <2>4. \A r \in Places \ {Buffer} : At(e, r) = At(m, r)
    BY <1>3, <2>1, <2>2
  <2>5. Buffer \in Places
    BY <2>1
  <2>6. e \in Engines /\ e.pending = m.pending
    BY <1>3
  <2>7. QED
    BY <1>4, <2>3, <2>4, <2>5, <2>6, Rejoin, SMTT(40)
<1>6. ServersHeld(e, constraint) /\ d.inService[constraint] - 1 <= e.inService[constraint]
  <2>1. e.inService = [m.inService EXCEPT ![s] = @ - 1]
    BY <1>2, <1>3
  <2>2. e \in Engines /\ e.pending = m.pending /\ e.blocked = m.blocked
    BY <1>3
  <2>3. QED
    BY <2>1, <2>2, GiveBack
<1>7. e.bufferTime = Cost * Len(e.buffer)
  <2>1. Len(m.buffer) \in Nat /\ Len(e.buffer) = Len(m.buffer) + 1
    BY <1>1, <1>2, <1>3, ConcatItems
  <2>2. Cost * Len(m.buffer) + Cost * 1 = Cost * (Len(m.buffer) + 1)
    BY <2>1, CostOfMore
  <2>3. m.bufferTime = Cost * Len(m.buffer)
    BY DEF EngineOK, Taken
  <2>4. QED
    BY <1>2, <1>3, <2>1, <2>2, <2>3
<1>8. constraint # 1
  <2>1. constraint \in Int /\ s # 0
    BY DEF Stages
  <2>2. QED
    BY <2>1 DEF PreConstraint
<1>9. EngineOK(e, constraint)
  BY <1>3, <1>5, <1>6, <1>7, <1>8 DEF EngineOK
<1>10. e.diverged = d.diverged /\ e.bufferMaxTime = d.bufferMaxTime /\ e.blocked = d.blocked
  BY <1>3 DEF Taken, Kept
<1>11. IntoBuffer(m, <<i>>) = e
  BY <1>2 DEF e
<1>12. QED
  BY <1>6, <1>9, <1>10, <1>11 DEF Ended

\* An item at the end of a queue.
LEMMA AppendItem ==
  ASSUME NEW q \in Seq(Nat), NEW i \in Nat
  PROVE  /\ Append(q, i) \in Seq(Nat) /\ Append(q, i) = q \o <<i>>
         /\ Len(Append(q, i)) = Len(q) + 1
<1>1. Append(q, i) \in Seq(Nat) /\ Append(q, i) = q \o <<i>>
  OBVIOUS
<1>2. Len(Append(q, i)) = Len(q) + 1
  OBVIOUS
<1>3. QED
  BY <1>1, <1>2

\* Where it does not fit, the item is blocked and keeps its server.
LEMMA EndsBlocked ==
  ASSUME NEW d, NEW c \in Stages, EngineOK(d, c), NEW m, NEW s \in Stages, NEW i,
         Taken(d, m, s, i), s = PreConstraint, c = constraint, ~Fits(d, 1)
  PROVE  Ended(d, [m EXCEPT !.blocked = Append(@, i)], c)
<1>1. /\ m \in Engines /\ i \in Nat /\ m.inService \in [Stages -> Int] /\ m.blocked \in Seq(Nat)
      /\ m.blocked = d.blocked /\ m.inService = d.inService
  BY DEF Taken, Engines
<1>2. PICK q \in Seq(Nat) : q = Append(m.blocked, i) /\ q = m.blocked \o <<i>> /\ Len(q) = Len(m.blocked) + 1
  BY <1>1, AppendItem
<1> DEFINE e == [m EXCEPT !.blocked = q]
<1>3. [m EXCEPT !.blocked = Append(@, i)] = e
  BY <1>1, <1>2
<1>4. /\ e \in Engines /\ e.blocked = q /\ e.inService = m.inService /\ e.completed = m.completed
      /\ e.arrivals = m.arrivals /\ e.diverged = m.diverged /\ e.bufferMaxTime = m.bufferMaxTime
      /\ e.backlog = m.backlog /\ e.queued = m.queued /\ e.pending = m.pending
      /\ e.buffer = m.buffer /\ e.bufferTime = m.bufferTime
  BY <1>1 DEF Engines
<1> HIDE DEF e
<1>5. e.arrivals = d.arrivals /\ e.completed = d.completed
  BY <1>4 DEF Taken, Kept
<1>6. NowhereTwice(e) /\ Accounted(e)
  <2>1. /\ Places = {Backlog, Buffer, Blocked} \cup Stages
        /\ {Backlog, Buffer, Blocked} \cap Stages = {}
        /\ At(m, Backlog) = m.backlog /\ At(m, Buffer) = m.buffer /\ At(m, Blocked) = m.blocked
        /\ \A t \in Stages : At(m, t) = m.queued[t]
    BY <1>1, AtPlace
  <2>2. /\ At(e, Backlog) = e.backlog /\ At(e, Buffer) = e.buffer /\ At(e, Blocked) = e.blocked
        /\ \A t \in Stages : At(e, t) = e.queued[t]
    BY <1>4, AtPlace
  <2>3. Blocked \in Places /\ At(e, Blocked) = At(m, Blocked) \o <<i>>
    BY <1>2, <1>4, <2>1, <2>2
  <2>4. \A r \in Places \ {Blocked} : At(e, r) = At(m, r)
    BY <1>4, <2>1, <2>2
  <2>5. e \in Engines /\ e.pending = m.pending
    BY <1>4
  <2>6. PICK p \in Places : /\ At(e, p) = At(m, p) \o <<i>>
                            /\ \A r \in Places \ {p} : At(e, r) = At(m, r)
    BY <2>3, <2>4
  <2>7. QED
    BY <1>5, <2>5, <2>6, Rejoin, SMTT(60)
<1>7. ServersHeld(e, c)
  <2>1. d \in Engines /\ NowhereTwice(d) /\ Somewhere(d) \subseteq 1..d.arrivals /\ ServersHeld(d, c)
    BY DEF EngineOK, Accounted
  <2>2. ASSUME NEW t \in Stages
        PROVE  /\ e.inService[t] = Cardinality(Served(e, t))
                                   + (IF t = c - 1 THEN Len(e.blocked) ELSE 0)
               /\ e.inService[t] <= Workers[t]
    <3> DEFINE n == Cardinality(Served(d, t))
               len == Len(d.blocked)
    <3>1. n \in Nat /\ len \in Nat
      <4>1. n \in Nat
        BY <2>1, PendingFinite
      <4>2. len \in Nat
        BY <1>1
      <4>3. QED
        BY <4>1, <4>2
    <3>2. /\ d.inService[t] = n + (IF t = c - 1 THEN len ELSE 0)
          /\ d.inService[t] <= Workers[t]
      BY <2>1 DEF ServersHeld
    <3>3. Cardinality(Served(m, t)) = n - (IF t = s THEN 1 ELSE 0)
      BY DEF Taken
    <3>4. Served(e, t) = Served(m, t)
      BY <1>4 DEF Served
    <3>5. e.inService[t] = d.inService[t] /\ Len(e.blocked) = len + 1
      BY <1>1, <1>2, <1>4
    <3> HIDE DEF n, len
    <3>6. CASE t = s
      BY <3>1, <3>2, <3>3, <3>4, <3>5, <3>6 DEF PreConstraint
    <3>7. CASE t # s
      BY <3>1, <3>2, <3>3, <3>4, <3>5, <3>7 DEF PreConstraint
    <3>8. QED
      BY <3>6, <3>7
  <2>3. QED
    BY <2>2 DEF ServersHeld
<1>8. c # 1
  BY DEF Stages, PreConstraint
<1>9. e.bufferTime = Cost * Len(e.buffer)
  BY <1>4 DEF EngineOK, Taken
<1>10. EngineOK(e, c)
  BY <1>4, <1>6, <1>7, <1>8, <1>9 DEF EngineOK
<1>11. e.diverged = d.diverged /\ e.bufferMaxTime = d.bufferMaxTime
  BY <1>4 DEF Taken, Kept
<1>12. d.inService[c] - 1 <= e.inService[c]
  BY <1>1, <1>4
<1>13. QED
  BY <1>3, <1>10, <1>11, <1>12 DEF Ended

\* Elsewhere the item is queued at the next stage.
LEMMA EndsInQueue ==
  ASSUME NEW d, NEW c \in Stages, EngineOK(d, c), NEW m, NEW s \in Stages, NEW i,
         Taken(d, m, s, i), s + 1 \in Stages
  PROVE  Ended(d, AdmitToStage([m EXCEPT !.inService[s] = @ - 1], s + 1, <<i>>), c)
<1>1. m \in Engines /\ i \in Nat /\ m.inService \in [Stages -> Int] /\ m.queued \in [Stages -> Seq(Nat)]
  BY DEF Taken, Engines
<1>2. PICK is \in [Stages -> Int] : is = [m.inService EXCEPT ![s] = @ - 1]
  <2>1. [m.inService EXCEPT ![s] = @ - 1] \in [Stages -> Int]
    BY <1>1
  <2>2. QED
    BY <2>1
<1>3. PICK q \in Seq(Nat) : q = <<i>>
  <2>1. <<i>> \in Seq(Nat)
    BY <1>1
  <2>2. QED
    BY <2>1
<1>4. PICK t \in Stages : t = s + 1
  OBVIOUS
<1> DEFINE y == [m EXCEPT !.inService = is]
           e == AdmitToStage(y, t, q)
<1>5. /\ y \in Engines /\ Kept(m, y) /\ y.inService = is
      /\ y.backlog = m.backlog /\ y.queued = m.queued /\ y.pending = m.pending
      /\ y.blocked = m.blocked /\ y.buffer = m.buffer /\ y.bufferTime = m.bufferTime
  BY <1>1 DEF Engines, Kept
<1>6. [m EXCEPT !.inService[s] = @ - 1] = y
  BY <1>1, <1>2
<1>7. AdmitToStage([m EXCEPT !.inService[s] = @ - 1], s + 1, <<i>>) = e
  BY <1>3, <1>4, <1>6
<1> HIDE DEF y
<1>8. /\ e \in Engines /\ Kept(y, e)
      /\ e.queued = [y.queued EXCEPT ![t] = @ \o q]
      /\ e.backlog = y.backlog /\ e.buffer = y.buffer /\ e.blocked = y.blocked
      /\ e.pending = y.pending /\ e.inService = y.inService
      /\ e.bufferTime = y.bufferTime
  BY <1>5, AdmitParts
<1> HIDE DEF e
<1>9. /\ e.queued = [m.queued EXCEPT ![t] = @ \o <<i>>]
      /\ e.backlog = m.backlog /\ e.buffer = m.buffer /\ e.blocked = m.blocked
      /\ e.pending = m.pending /\ e.inService = [m.inService EXCEPT ![s] = @ - 1]
      /\ e.bufferTime = m.bufferTime
  BY <1>2, <1>3, <1>5, <1>8
<1>10. /\ e.arrivals = d.arrivals /\ e.completed = d.completed
       /\ e.diverged = d.diverged /\ e.bufferMaxTime = d.bufferMaxTime
  BY <1>5, <1>8 DEF Taken, Kept
<1>11. NowhereTwice(e) /\ Accounted(e)
  <2>1. /\ Places = {Backlog, Buffer, Blocked} \cup Stages
        /\ {Backlog, Buffer, Blocked} \cap Stages = {}
        /\ At(m, Backlog) = m.backlog /\ At(m, Buffer) = m.buffer /\ At(m, Blocked) = m.blocked
        /\ \A r \in Stages : At(m, r) = m.queued[r]
    BY <1>1, AtPlace
  <2>2. /\ At(e, Backlog) = e.backlog /\ At(e, Buffer) = e.buffer /\ At(e, Blocked) = e.blocked
        /\ \A r \in Stages : At(e, r) = e.queued[r]
    BY <1>8, AtPlace
  <2>3. e.queued[t] = m.queued[t] \o <<i>> /\ \A r \in Stages \ {t} : e.queued[r] = m.queued[r]
    BY <1>1, <1>9
  <2>4. At(e, t) = At(m, t) \o <<i>>
    BY <2>1, <2>2, <2>3
  <2>5. \A r \in Places \ {t} : At(e, r) = At(m, r)
    BY <1>9, <2>1, <2>2, <2>3
  <2>6. t \in Places
    BY <2>1
  <2>7. e \in Engines /\ e.pending = m.pending
    BY <1>8, <1>9
  <2>8. QED
    BY <1>10, <2>4, <2>5, <2>6, <2>7, Rejoin, SMTT(40)
<1>12. ServersHeld(e, c) /\ d.inService[c] - 1 <= e.inService[c]
  <2>1. /\ e \in Engines /\ e.pending = m.pending /\ e.blocked = m.blocked
        /\ e.inService = [m.inService EXCEPT ![s] = @ - 1]
    BY <1>8, <1>9
  <2>2. QED
    BY <2>1, GiveBack
<1>13. EngineOK(e, c)
  BY <1>8, <1>9, <1>11, <1>12 DEF EngineOK, Taken
<1>14. e.blocked = d.blocked
  BY <1>9 DEF Taken
<1>15. QED
  BY <1>7, <1>10, <1>12, <1>13, <1>14 DEF Ended

\* A completion is handled: the item leaves the line at its last stage, and
\* before that it is queued, buffered or blocked.
LEMMA AfterServiceEnds ==
  ASSUME EngineOK(des, constraint), constraint \in Stages, NEW s \in Stages, NEW i,
         <<s, i>> \in des.pending
  PROVE  Ended(des, ServiceEnds(s, i), constraint)
<1> DEFINE m == [des EXCEPT !.pending = @ \ {<<s, i>>}]
           N == Len(Workers)
<1>1. Taken(des, m, s, i)
  BY TakePending DEF Taken
<1>2. Fits(m, 1) <=> Fits(des, 1)
  BY <1>1 DEF Fits, Taken, Kept
<1>3. ServiceEnds(s, i) =
        CASE s = N -> [m EXCEPT !.inService[s] = @ - 1, !.completed = @ + 1]
          [] s < N /\ s = PreConstraint ->
               IF Fits(m, 1) THEN IntoBuffer(m, <<i>>) ELSE [m EXCEPT !.blocked = Append(@, i)]
          [] OTHER -> AdmitToStage([m EXCEPT !.inService[s] = @ - 1], s + 1, <<i>>)
  BY DEF ServiceEnds
<1> HIDE DEF m
<1>4. N \in Nat /\ s \in 1..N /\ Stages = 1..N
  BY ConfigAssumption DEF ValidConfig, Stages
<1>5. CASE s = N
  <2>1. Ended(des, [m EXCEPT !.inService[s] = @ - 1, !.completed = @ + 1], constraint)
    BY <1>1, EndsLast
  <2>2. QED
    BY <1>3, <1>5, <2>1
<1>6. CASE s # N /\ s = PreConstraint /\ Fits(m, 1)
  <2>1. Ended(des, IntoBuffer(m, <<i>>), constraint)
    BY <1>1, <1>6, EndsIntoBuffer
  <2>2. s < N
    BY <1>4, <1>6
  <2>3. QED
    BY <1>3, <1>6, <2>1, <2>2
<1>7. CASE s # N /\ s = PreConstraint /\ ~Fits(m, 1)
  <2>1. Ended(des, [m EXCEPT !.blocked = Append(@, i)], constraint)
    BY <1>1, <1>2, <1>7, EndsBlocked
  <2>2. s < N
    BY <1>4, <1>7
  <2>3. QED
    BY <1>3, <1>7, <2>1, <2>2
<1>8. CASE s # N /\ s # PreConstraint
  <2>1. s + 1 \in Stages
    BY <1>4, <1>8
  <2>2. Ended(des, AdmitToStage([m EXCEPT !.inService[s] = @ - 1], s + 1, <<i>>), constraint)
    BY <1>1, <2>1, EndsInQueue
  <2>3. QED
    BY <1>3, <1>8, <2>2
<1>9. QED
  BY <1>5, <1>6, <1>7, <1>8

\* The constraint has one free server at most while anything is blocked, if it
\* had none and one item fits an empty buffer.
LEMMA EndedBusy ==
  ASSUME NEW d, NEW e, NEW c \in Stages, EngineOK(d, c), Rested(d, c), Ended(d, e, c),
         Cost <= d.bufferMaxTime, d.blocked # <<>> => FreeServers(d, c) <= 0, e.blocked # <<>>
  PROVE  FreeServers(e, c) <= 1
<1>1. d \in Engines /\ e \in Engines /\ d.bufferTime = Cost * Len(d.buffer)
  BY DEF Ended, EngineOK
<1>2. FreeServers(d, c) <= 0
  <2>1. CASE e.blocked = d.blocked
    BY <2>1
  <2>2. CASE ~Fits(d, 1)
    <3>1. d.buffer # <<>>
      <4>1. SUFFICES ASSUME d.buffer = <<>>
                     PROVE  Fits(d, 1)
        BY <2>2
      <4>2. d.bufferTime = 0 /\ 1 * Cost = Cost
        BY <1>1, <4>1, CostOfMore
      <4>3. Cost \in Int
        BY ConfigAssumption DEF ValidConfig
      <4>4. QED
        BY <4>2, <4>3 DEF Fits
    <3>2. QED
      BY <3>1 DEF Rested
  <2>3. QED
    BY <2>1, <2>2 DEF Ended
<1>3. d.inService \in [Stages -> Int] /\ e.inService \in [Stages -> Int]
  BY <1>1 DEF Engines
<1>4. Workers[c] \in Int
  BY ConfigAssumption DEF ValidConfig, Stages
<1>5. d.inService[c] - 1 <= e.inService[c]
  BY DEF Ended
<1>6. QED
  BY <1>2, <1>3, <1>4, <1>5 DEF FreeServers

-----------------------------------------------------------------------------
(* Settling. *)

\* What a lap does when n more are allowed and f settles what it leaves.
SettleStep(f, n) == [e \in Engines |->
  IF Lap(e) = e THEN DrainSourceBacklog(e)
  ELSE IF n = 0 THEN [Lap(e) EXCEPT !.diverged = TRUE]
  ELSE f[Lap(e)]]

\* g settles with up to m laps more.
SettlesUp(g, m) == g = [n \in 0..m |-> [e \in Engines |->
  IF Lap(e) = e THEN DrainSourceBacklog(e)
  ELSE IF n = 0 THEN [Lap(e) EXCEPT !.diverged = TRUE]
  ELSE g[n - 1][Lap(e)]]]

\* The two ways to say it agree.
LEMMA SettlesBySteps ==
  ASSUME NEW g, NEW m \in Nat
  PROVE  SettlesUp(g, m) <=> g = [n \in 0..m |-> SettleStep(g[n - 1], n)]
BY DEF SettlesUp, SettleStep

\* For any number of laps there is a function that settles.
LEMMA SettlingExists ==
  ASSUME NEW m \in Nat
  PROVE  \E g : SettlesUp(g, m)
<1> DEFINE B == {k \in Nat : ~\E g : SettlesUp(g, k)}
<1>1. SUFFICES ASSUME B # {}
               PROVE  FALSE
  OBVIOUS
<1>2. PICK k \in B : \A j \in B : k <= j
  BY <1>1, SmallestNumber
<1>3. k \in Nat /\ ~\E g : SettlesUp(g, k)
  BY <1>2
<1>4. CASE k = 0
  <2> DEFINE g == [n \in 0..0 |-> SettleStep(<<>>, 0)]
  <2>1. g = [n \in 0..0 |-> SettleStep(g[n - 1], n)]
    <3>1. SettleStep(g[0 - 1], 0) = SettleStep(<<>>, 0)
      BY DEF SettleStep
    <3>2. \A n \in 0..0 : n = 0
      OBVIOUS
    <3>3. QED
      BY <3>1, <3>2
  <2> HIDE DEF g
  <2>2. SettlesUp(g, 0)
    BY <2>1, SettlesBySteps
  <2>3. QED
    BY <1>3, <1>4, <2>2
<1>5. CASE k # 0
  <2>1. k - 1 \in Nat /\ k - 1 \notin B
    BY <1>2, <1>3, <1>5
  <2>2. PICK h : SettlesUp(h, k - 1)
    BY <2>1
  <2>3. h = [n \in 0..(k - 1) |-> SettleStep(h[n - 1], n)]
    BY <2>1, <2>2, SettlesBySteps
  <2> DEFINE g == [n \in 0..k |-> SettleStep(h[n - 1], n)]
  <2>4. ASSUME NEW n \in 0..k
        PROVE  SettleStep(g[n - 1], n) = SettleStep(h[n - 1], n)
    <3>1. CASE n = 0
      BY <3>1 DEF SettleStep
    <3>2. CASE n # 0
      <4>1. n - 1 \in 0..k /\ n - 1 \in 0..(k - 1)
        BY <1>3, <3>2
      <4>2. g[n - 1] = SettleStep(h[(n - 1) - 1], n - 1)
        BY <4>1
      <4>3. h[n - 1] = SettleStep(h[(n - 1) - 1], n - 1)
        BY <2>3, <4>1
      <4>4. QED
        BY <4>2, <4>3
    <3>3. QED
      BY <3>1, <3>2
  <2>5. g = [n \in 0..k |-> SettleStep(g[n - 1], n)]
    BY <2>4
  <2> HIDE DEF g
  <2>6. SettlesUp(g, k)
    BY <1>3, <2>5, SettlesBySteps
  <2>7. QED
    BY <1>3, <2>6
<1>6. QED
  BY <1>4, <1>5

\* Lap after lap until one makes no progress.
LEMMA SettlingEquation ==
  ASSUME NEW n \in 0..MaxIter, NEW e \in Engines
  PROVE  Settling[n][e] = IF Lap(e) = e THEN DrainSourceBacklog(e)
                          ELSE IF n = 0 THEN [Lap(e) EXCEPT !.diverged = TRUE]
                          ELSE Settling[n - 1][Lap(e)]
<1>1. MaxIter \in Nat
  BY ConfigAssumption DEF ValidConfig, MaxIter
<1>2. \E g : SettlesUp(g, MaxIter)
  BY <1>1, SettlingExists
<1>3. Settling = CHOOSE g : SettlesUp(g, MaxIter)
  BY DEF Settling, SettlesUp
<1>4. SettlesUp(Settling, MaxIter)
  BY <1>2, <1>3
<1>5. Settling[n] = SettleStep(Settling[n - 1], n)
  BY <1>1, <1>4, SettlesBySteps
<1>6. QED
  BY <1>5 DEF SettleStep

\* Of an engine whose last lap made progress only a flag is raised.
LEMMA AfterDiverging ==
  ASSUME NEW d, NEW c, EngineOK(d, c)
  PROVE  LET e == [d EXCEPT !.diverged = TRUE]
         IN  EngineOK(e, c) /\ e.diverged /\ e.bufferMaxTime = d.bufferMaxTime
<1> DEFINE e == [d EXCEPT !.diverged = TRUE]
<1>1. d \in Engines
  BY DEF EngineOK
<1>2. /\ e \in Engines /\ SameLine(d, e)
      /\ e.diverged /\ e.bufferMaxTime = d.bufferMaxTime
  BY <1>1 DEF Engines, SameLine
<1> HIDE DEF e
<1>3. EngineOK(e, c)
  BY <1>2, SameLineOK
<1>4. QED
  BY <1>2, <1>3 DEF e

\* What settling keeps, and how it leaves the line when it ends.
SettlesWell(n, d) ==
  LET e == Settling[n][d]
  IN  /\ EngineOK(e, constraint) /\ e.bufferMaxTime = d.bufferMaxTime
      /\ ~e.diverged => Rested(e, constraint)

\* Settling keeps the books, and unless it gives up it leaves no free server
\* with work before it.
LEMMA SettlingOK ==
  ASSUME constraint \in Stages, NEW n \in 0..MaxIter, NEW d, EngineOK(d, constraint)
  PROVE  SettlesWell(n, d)
<1> DEFINE B == {k \in 0..MaxIter : \E e : EngineOK(e, constraint) /\ ~SettlesWell(k, e)}
<1>1. SUFFICES ASSUME B # {}
               PROVE  FALSE
  OBVIOUS
<1>2. PICK k \in B : \A j \in B : k <= j
  <2>1. B \in SUBSET Nat
    BY ConfigAssumption DEF ValidConfig, MaxIter
  <2>2. QED
    BY <1>1, <2>1, SmallestNumber
<1>3. PICK e : EngineOK(e, constraint) /\ ~SettlesWell(k, e)
  BY <1>2
<1>4. k \in 0..MaxIter /\ MaxIter \in Nat /\ e \in Engines
  BY <1>2, <1>3, ConfigAssumption DEF ValidConfig, MaxIter, EngineOK
<1>5. PICK lap : lap = Lap(e)
  OBVIOUS
<1>6. EngineOK(lap, constraint) /\ Kept(e, lap) /\ Rested(lap, constraint)
  BY <1>3, <1>5, AfterLap
<1>7. Settling[k][e] = IF lap = e THEN DrainSourceBacklog(e)
                       ELSE IF k = 0 THEN [lap EXCEPT !.diverged = TRUE]
                       ELSE Settling[k - 1][lap]
  BY <1>4, <1>5, SettlingEquation
<1>8. CASE lap = e
  <2>1. EngineOK(DrainSourceBacklog(e), constraint) /\ Kept(e, DrainSourceBacklog(e))
        /\ Rested(DrainSourceBacklog(e), constraint)
    BY <1>3, <1>6, <1>8, AfterDrain
  <2>2. QED
    BY <1>3, <1>7, <1>8, <2>1 DEF SettlesWell, Kept
<1>9. CASE lap # e /\ k = 0
  <2> DEFINE r == [lap EXCEPT !.diverged = TRUE]
  <2>1. EngineOK(r, constraint) /\ r.diverged /\ r.bufferMaxTime = lap.bufferMaxTime
    BY <1>6, AfterDiverging
  <2> HIDE DEF r
  <2>2. Settling[k][e] = r
    BY <1>7, <1>9 DEF r
  <2>3. QED
    BY <1>3, <1>6, <2>1, <2>2 DEF SettlesWell, Kept
<1>10. CASE lap # e /\ k # 0
  <2>1. k - 1 \in 0..MaxIter /\ ~(k <= k - 1)
    BY <1>4, <1>10
  <2>2. SettlesWell(k - 1, lap)
    BY <1>2, <1>6, <2>1
  <2>3. Settling[k][e] = Settling[k - 1][lap]
    BY <1>7, <1>10
  <2>4. QED
    BY <1>3, <1>6, <2>2, <2>3 DEF SettlesWell, Kept
<1>11. QED
  BY <1>8, <1>9, <1>10

\* A rested line has a lap for each blocked item, and settles in so many.
LEMMA SettlesInTime ==
  ASSUME constraint \in Stages, NEW n \in 0..MaxIter, NEW d, EngineOK(d, constraint),
         Rested(d, constraint), Len(d.blocked) <= n
  PROVE  Settling[n][d].diverged = d.diverged
<1> DEFINE Slow(k, e) == /\ EngineOK(e, constraint) /\ Rested(e, constraint) /\ Len(e.blocked) <= k
                         /\ Settling[k][e].diverged # e.diverged
           B == {k \in 0..MaxIter : \E e : Slow(k, e)}
<1>1. SUFFICES ASSUME B # {}
               PROVE  FALSE
  OBVIOUS
<1>2. PICK k \in B : \A j \in B : k <= j
  <2>1. B \in SUBSET Nat
    BY ConfigAssumption DEF ValidConfig, MaxIter
  <2>2. QED
    BY <1>1, <2>1, SmallestNumber
<1>3. PICK e : Slow(k, e)
  BY <1>2
<1>4. k \in 0..MaxIter /\ MaxIter \in Nat /\ e \in Engines
  BY <1>2, <1>3, ConfigAssumption DEF ValidConfig, MaxIter, EngineOK
<1>5. PICK lap : lap = Lap(e)
  OBVIOUS
<1>6. /\ EngineOK(lap, constraint) /\ Kept(e, lap) /\ Rested(lap, constraint)
      /\ lap # e => Len(lap.blocked) < Len(e.blocked)
  BY <1>3, <1>5, AfterLap
<1>7. Settling[k][e] = IF lap = e THEN DrainSourceBacklog(e)
                       ELSE IF k = 0 THEN [lap EXCEPT !.diverged = TRUE]
                       ELSE Settling[k - 1][lap]
  BY <1>4, <1>5, SettlingEquation
<1>8. lap # e
  <2>1. SUFFICES ASSUME lap = e
                 PROVE  FALSE
    OBVIOUS
  <2>2. Kept(e, DrainSourceBacklog(e))
    BY <1>3, AfterDrain
  <2>3. QED
    BY <1>3, <1>7, <2>1, <2>2 DEF Kept
<1>9. Len(lap.blocked) \in Nat /\ Len(e.blocked) \in Nat
  <2>1. lap.blocked \in Seq(Nat) /\ e.blocked \in Seq(Nat)
    BY <1>4, <1>6 DEF EngineOK, Engines
  <2>2. QED
    BY <2>1
<1>10. k # 0 /\ Len(lap.blocked) <= k - 1
  BY <1>3, <1>4, <1>6, <1>8, <1>9
<1>11. k - 1 \in 0..MaxIter /\ ~(k <= k - 1)
  BY <1>4, <1>10
<1>12. ~Slow(k - 1, lap)
  BY <1>2, <1>11
<1>13. Settling[k - 1][lap].diverged = e.diverged
  BY <1>6, <1>10, <1>12 DEF Kept
<1>14. QED
  BY <1>3, <1>7, <1>8, <1>10, <1>13

\* Where nothing is blocked behind an idle constraint, but for one server
\* that has just become free, two laps are enough and leave nothing so.
LEMMA SettlesBusy ==
  ASSUME constraint \in Stages, NEW n \in 2..MaxIter, NEW d, EngineOK(d, constraint),
         Cost <= d.bufferMaxTime, d.blocked # <<>> => FreeServers(d, constraint) <= 1
  PROVE  LET e == Settling[n][d]
         IN  /\ e.diverged = d.diverged
             /\ e.blocked # <<>> => FreeServers(e, constraint) <= 0
<1> DEFINE Good(e) == /\ e.diverged = d.diverged
                      /\ e.blocked # <<>> => FreeServers(e, constraint) <= 0
<1>1. PICK one, two : one = Lap(d) /\ two = Lap(one)
  OBVIOUS
<1>2. /\ EngineOK(one, constraint) /\ Kept(d, one) /\ Rested(one, constraint)
      /\ one.blocked # <<>> => FreeServers(one, constraint) <= 0
  BY <1>1, AfterLap, FirstLap
<1>3. /\ EngineOK(two, constraint) /\ Kept(one, two)
      /\ Lap(two) = two
      /\ two.blocked # <<>> => FreeServers(two, constraint) <= 0
  BY <1>1, <1>2, AfterLap, BusyLap
<1>4. Good(one) /\ Good(two) /\ one \in Engines /\ two \in Engines /\ d \in Engines
  BY <1>2, <1>3 DEF Kept, EngineOK
<1>5. ASSUME NEW x, EngineOK(x, constraint), Good(x)
      PROVE  Good(DrainSourceBacklog(x))
  <2>1. PICK y : y = DrainSourceBacklog(x)
    OBVIOUS
  <2>2. /\ EngineOK(y, constraint) /\ Kept(x, y) /\ y.blocked = x.blocked
        /\ x.inService[constraint] <= y.inService[constraint]
    BY <1>5, <2>1, AfterDrain
  <2>3. x.inService[constraint] \in Int /\ y.inService[constraint] \in Int
    <3>1. x.inService \in [Stages -> Int] /\ y.inService \in [Stages -> Int]
      BY <1>5, <2>2 DEF EngineOK, Engines
    <3>2. QED
      BY <3>1
  <2>4. Workers[constraint] \in Int
    BY ConfigAssumption DEF ValidConfig, Stages
  <2>5. FreeServers(x, constraint) <= 0 => FreeServers(y, constraint) <= 0
    BY <2>2, <2>3, <2>4 DEF FreeServers
  <2>6. QED
    BY <1>5, <2>1, <2>2, <2>5 DEF Kept
<1>6. /\ n \in 0..MaxIter /\ n - 1 \in 0..MaxIter /\ n - 2 \in 0..MaxIter
      /\ n # 0 /\ n - 1 # 0 /\ (n - 1) - 1 = n - 2
  BY ConfigAssumption DEF ValidConfig, MaxIter
<1>7. Settling[n][d] = IF one = d THEN DrainSourceBacklog(d) ELSE Settling[n - 1][one]
  BY <1>1, <1>4, <1>6, SettlingEquation
<1>8. Settling[n - 1][one] = IF two = one THEN DrainSourceBacklog(one) ELSE Settling[n - 2][two]
  BY <1>1, <1>4, <1>6, SettlingEquation, ZenonT(40)
<1>9. Settling[n - 2][two] = DrainSourceBacklog(two)
  BY <1>3, <1>4, <1>6, SettlingEquation
<1> HIDE DEF Good
<1>10. Good(Settling[n][d])
  BY <1>2, <1>3, <1>4, <1>5, <1>7, <1>8, <1>9
<1>11. QED
  BY <1>10 DEF Good

-----------------------------------------------------------------------------
(* The steps of the environment. *)

\* A configuration names a stage as its constraint, and settle has laps to spare.
LEMMA Configured ==
  Constraints \subseteq Stages /\ MaxIter \in Nat /\ MaxIter >= 12
<1>1. Len(Workers) \in Nat /\ Len(Workers) # 0
  BY ConfigAssumption DEF ValidConfig
<1>2. QED
  BY <1>1, ConfigAssumption DEF ValidConfig, Stages, MaxIter

\* The books of a new engine balance, and nothing waits in it.
LEMMA NewEngine ==
  ASSUME NEW c \in Stages
  PROVE  /\ EngineOK(NewDES, c) /\ Rested(NewDES, c)
         /\ ~NewDES.diverged /\ NewDES.blocked = <<>>
<1> DEFINE d == NewDES
<1>1. /\ d \in Engines /\ d.pending = {} /\ d.arrivals = 0 /\ d.completed = 0
      /\ d.backlog = <<>> /\ d.buffer = <<>> /\ d.blocked = <<>> /\ d.bufferTime = 0
      /\ \A s \in Stages : d.queued[s] = <<>> /\ d.inService[s] = 0
      /\ ~d.diverged
  <2>1. <<>> \in Seq(Nat)
    OBVIOUS
  <2>2. [s \in Stages |-> <<>>] \in [Stages -> Seq(Nat)] /\ [s \in Stages |-> 0] \in [Stages -> Int]
    BY <2>1
  <2>3. QED
    BY <2>1, <2>2 DEF NewDES, Engines
<1> HIDE DEF d
<1>2. \A p \in Places : At(d, p) = <<>>
  <2>1. /\ Places = {Backlog, Buffer, Blocked} \cup Stages
        /\ At(d, Backlog) = d.backlog /\ At(d, Buffer) = d.buffer /\ At(d, Blocked) = d.blocked
        /\ \A s \in Stages : At(d, s) = d.queued[s]
    BY <1>1, AtPlace
  <2>2. QED
    BY <1>1, <2>1
<1>3. Items(<<>>) = {} /\ Once(<<>>)
  BY DEF Items, Once
<1>4. NowhereTwice(d)
  BY <1>1, <1>2, <1>3, ApartIsNowhereTwice DEF Apart
<1>5. Somewhere(d) = {}
  BY <1>1, <1>2, <1>3 DEF Somewhere
<1>6. Cardinality({}) = 0
  BY FS_EmptySet
<1>7. Accounted(d)
  BY <1>1, <1>5, <1>6 DEF Accounted
<1>8. ServersHeld(d, c)
  <2>1. \A s \in Stages : Served(d, s) = {} /\ Workers[s] \in Nat
    BY <1>1, ConfigAssumption DEF Served, ValidConfig, Stages
  <2>2. Len(d.blocked) = 0
    BY <1>1
  <2>3. ASSUME NEW s \in Stages
        PROVE  /\ d.inService[s] = Cardinality(Served(d, s)) + (IF s = c - 1 THEN Len(d.blocked) ELSE 0)
               /\ d.inService[s] <= Workers[s]
    <3>1. d.inService[s] = 0 /\ Cardinality(Served(d, s)) = 0 /\ Workers[s] \in Nat
      BY <1>1, <1>6, <2>1
    <3>2. QED
      BY <2>2, <3>1
  <2>4. QED
    BY <2>3 DEF ServersHeld
<1>9. d.bufferTime = Cost * Len(d.buffer)
  BY <1>1, CostOfMore
<1>10. EngineOK(d, c)
  BY <1>1, <1>4, <1>7, <1>8, <1>9 DEF EngineOK
<1>11. Rested(d, c)
  BY <1>1 DEF Rested
<1>12. QED
  BY <1>1, <1>10, <1>11 DEF d

\* An arrival is released into the line or waits in the backlog.
LEMMA ArrivalStep ==
  ASSUME EngineOK(des, constraint), constraint \in Stages, HandleArrival
  PROVE  /\ EngineOK(des', constraint) /\ (Rested(des, constraint) => Rested(des', constraint))
         /\ des'.diverged = des.diverged /\ des'.bufferMaxTime = des.bufferMaxTime
         /\ des'.blocked = des.blocked /\ des.inService[constraint] <= des'.inService[constraint]
<1>1. PICK a : a = [des EXCEPT !.arrivals = @ + 1, !.backlog = Append(@, des.arrivals + 1)]
  OBVIOUS
<1>2. /\ EngineOK(a, constraint) /\ a.diverged = des.diverged
      /\ a.bufferMaxTime = des.bufferMaxTime
      /\ a.blocked = des.blocked /\ a.inService = des.inService
      /\ Rested(des, constraint) => Rested(a, constraint)
  BY <1>1, AfterArrival
<1>3. PICK b : b = DrainSourceBacklog(a)
  OBVIOUS
<1>4. /\ EngineOK(b, constraint) /\ Kept(a, b)
      /\ b.blocked = a.blocked /\ a.inService[constraint] <= b.inService[constraint]
      /\ Rested(a, constraint) => Rested(b, constraint)
  BY <1>2, <1>3, AfterDrain
<1>5. des' = CheckSafety(b)
  BY <1>1, <1>3 DEF HandleArrival
<1>6. /\ EngineOK(des', constraint) /\ des'.diverged = b.diverged
      /\ des'.bufferMaxTime = b.bufferMaxTime
      /\ des'.blocked = b.blocked /\ des'.inService = b.inService
      /\ Rested(b, constraint) => Rested(des', constraint)
  BY <1>4, <1>5, AfterCheck
<1>7. QED
  BY <1>2, <1>4, <1>6 DEF Kept

\* A completion is handled, and the line settles.
LEMMA CompleteStep ==
  ASSUME EngineOK(des, constraint), constraint \in Stages,
         NEW s \in Stages, HandleServiceComplete(s)
  PROVE  \E e : Ended(des, e, constraint) /\ des' = Settling[MaxIter - 1][e]
<1>1. PICK p \in des.pending : p[1] = s /\ des' = Settle(ServiceEnds(s, p[2]))
  BY DEF HandleServiceComplete
<1>2. p = <<s, p[2]>>
  <2>1. des.pending \subseteq Stages \X Nat
    BY DEF EngineOK, Engines
  <2>2. QED
    BY <1>1, <2>1
<1>3. <<s, p[2]>> \in des.pending
  BY <1>2
<1>4. Ended(des, ServiceEnds(s, p[2]), constraint)
  BY <1>3, AfterServiceEnds
<1>5. QED
  BY <1>1, <1>4 DEF Settle

\* The beginning and the end of an interval touch no item.
LEMMA BoundaryStep ==
  ASSUME EngineOK(des, constraint),
         EndStep \/ \E rope \in RopeRates, cap \in BufferCaps : BeginStep(rope, cap)
  PROVE  /\ EngineOK(des', constraint) /\ (Rested(des, constraint) => Rested(des', constraint))
         /\ des'.diverged = des.diverged /\ SameLine(des, des')
<1>1. des \in Engines
  BY DEF EngineOK
<1>2. des' \in Engines /\ SameLine(des, des') /\ des'.diverged = des.diverged
  <2>1. CASE EndStep
    <3>1. PICK t \in Nat : des' = [des EXCEPT !.intervals = t]
      <4>1. des.intervals + 1 \in Nat
        BY <1>1 DEF Engines
      <4>2. QED
        BY <2>1, <4>1 DEF EndStep
    <3>2. QED
      BY <1>1, <3>1 DEF Engines, SameLine
  <2>2. ASSUME NEW rope \in RopeRates, NEW cap \in BufferCaps, BeginStep(rope, cap)
        PROVE  des' \in Engines /\ SameLine(des, des') /\ des'.diverged = des.diverged
    <3>1. rope \in Nat /\ cap \in Nat
      BY ConfigAssumption DEF ValidConfig
    <3>2. des' = [des EXCEPT !.ropeRate = rope, !.bufferMaxTime = cap, !.admissions = 0]
      BY <2>2 DEF BeginStep
    <3>3. QED
      BY <1>1, <3>1, <3>2 DEF Engines, SameLine
  <2>3. QED
    BY <2>1, <2>2
<1>3. QED
  BY <1>2, SameLineOK

-----------------------------------------------------------------------------
(* The environment. *)

\* The books balance, and a line that settled leaves no free server with work
\* before it.
EnvInv ==
  /\ constraint \in Constraints
  /\ EngineOK(des, constraint)
  /\ ~des.diverged => Rested(des, constraint)

\* It holds of a new environment.
LEMMA EnvInvAtFirst ==
  ASSUME EnvInit
  PROVE  EnvInv /\ ~des.diverged /\ des.blocked = <<>>
BY NewEngine, Configured DEF EnvInit, EnvInv

\* Every step keeps it, and what a completion does to it is as SettlesWell says.
LEMMA EnvInvKept ==
  ASSUME EnvInv, [EnvNext]_envVars
  PROVE  EnvInv'
<1>1. constraint \in Stages /\ EngineOK(des, constraint) /\ constraint \in Constraints
  BY Configured DEF EnvInv
<1>2. SUFFICES /\ constraint' = constraint
               /\ EngineOK(des', constraint) /\ (~des'.diverged => Rested(des', constraint))
  BY <1>1 DEF EnvInv
<1>3. CASE HandleArrival
  BY <1>1, <1>3, ArrivalStep DEF EnvInv, HandleArrival
<1>4. ASSUME NEW s \in Stages, HandleServiceComplete(s)
      PROVE  /\ constraint' = constraint
             /\ EngineOK(des', constraint) /\ (~des'.diverged => Rested(des', constraint))
  <2>1. PICK e : Ended(des, e, constraint) /\ des' = Settling[MaxIter - 1][e]
    BY <1>1, <1>4, CompleteStep
  <2>2. MaxIter - 1 \in 0..MaxIter /\ EngineOK(e, constraint)
    BY <2>1, Configured DEF Ended
  <2>3. SettlesWell(MaxIter - 1, e)
    BY <1>1, <2>2, SettlingOK
  <2>4. constraint' = constraint
    BY <1>4 DEF HandleServiceComplete
  <2>5. QED
    BY <2>1, <2>3, <2>4 DEF SettlesWell
<1>5. CASE EndStep \/ \E rope \in RopeRates, cap \in BufferCaps : BeginStep(rope, cap)
  BY <1>1, <1>5, BoundaryStep DEF EnvInv, BeginStep, EndStep
<1>6. CASE Reset
  BY <1>1, <1>6, NewEngine DEF Reset
<1>7. CASE UNCHANGED envVars
  BY <1>1, <1>7 DEF EnvInv, envVars
<1>8. QED
  BY <1>3, <1>4, <1>5, <1>6, <1>7 DEF EnvNext

\* The books say that nothing is lost.
LEMMA BooksConserve ==
  ASSUME EnvInv
  PROVE  ItemsConserved
<1>1. EngineOK(des, constraint)
  BY DEF EnvInv
<1>2. \A s \in Stages : Served(des, s) = {e \in des.pending : e[1] = s}
  BY DEF Served
<1>3. PreConstraint = constraint - 1
  BY DEF PreConstraint
<1>4. QED
  BY <1>1, <1>2, <1>3 DEF EngineOK, Accounted, ServersHeld, ItemsConserved

\* No item is lost, duplicated or served without a server, whatever the line,
\* the rope and the caps, and even if settling gives up.
THEOREM ItemsAreConserved == EnvSpec => []ItemsConserved
<1>1. EnvInit => EnvInv
  BY EnvInvAtFirst
<1>2. EnvInv /\ [EnvNext]_envVars => EnvInv'
  BY EnvInvKept
<1>3. EnvInv => ItemsConserved
  BY BooksConserve
<1>4. QED
  BY <1>1, <1>2, <1>3, PTL DEF EnvSpec

\* Where the books balance, no stage has fewer servers than it uses.
LEMMA ServersToSpare ==
  ASSUME NEW d, NEW c \in Stages, EngineOK(d, c), NEW s \in Stages
  PROVE  FreeServers(d, s) \in Nat
<1>1. d.inService[s] <= Workers[s]
  BY DEF EngineOK, ServersHeld
<1>2. d.inService \in [Stages -> Int]
  BY DEF EngineOK, Engines
<1>3. Workers[s] \in Int
  BY ConfigAssumption DEF ValidConfig, Stages
<1>4. QED
  BY <1>1, <1>2, <1>3 DEF FreeServers

\* A line that settled conserves work.
LEMMA RestedConserves ==
  ASSUME EnvInv, ~des.diverged
  PROVE  SettledIsWorkConserving
<1>1. constraint \in Stages /\ EngineOK(des, constraint) /\ Rested(des, constraint)
  BY Configured DEF EnvInv
<1>2. FreeServers(des, constraint) \in Nat
  BY <1>1, ServersToSpare
<1>3. QED
  BY <1>1, <1>2 DEF Rested, SettledIsWorkConserving

\* The items blocked hold servers of the stage before the constraint.
LEMMA BlockedHaveServers ==
  ASSUME NEW d, NEW c \in Stages, EngineOK(d, c), c > 1
  PROVE  Len(d.blocked) \in Nat /\ Len(d.blocked) <= Workers[c - 1]
<1>1. d \in Engines /\ NowhereTwice(d) /\ Somewhere(d) \subseteq 1..d.arrivals /\ ServersHeld(d, c)
  BY DEF EngineOK, Accounted
<1>2. PICK s \in Stages : s = c - 1
  <2>1. Len(Workers) \in Nat
    BY ConfigAssumption DEF ValidConfig
  <2>2. c - 1 \in Stages
    BY <2>1 DEF Stages
  <2>3. QED
    BY <2>2
<1>3. d.inService[s] = Cardinality(Served(d, s)) + Len(d.blocked) /\ d.inService[s] <= Workers[s]
  BY <1>1, <1>2 DEF ServersHeld
<1>4. Cardinality(Served(d, s)) \in Nat
  BY <1>1, PendingFinite
<1>5. Len(d.blocked) \in Nat
  <2>1. d.blocked \in Seq(Nat)
    BY <1>1 DEF Engines
  <2>2. QED
    BY <2>1
<1>6. Workers[s] \in Nat
  BY ConfigAssumption DEF ValidConfig, Stages
<1>7. QED
  BY <1>2, <1>3, <1>4, <1>5, <1>6

\* With as few servers before the constraint as settle has laps to spare, it
\* never gives up, whatever the caps.
THEOREM FewServersSettle ==
  ASSUME \A c \in Constraints : c > 1 => Workers[c - 1] <= MaxIter - 2
  PROVE  EnvSpec => []SettledIsWorkConserving
<1> DEFINE Inv == EnvInv /\ ~des.diverged
<1>1. EnvInit => Inv
  BY EnvInvAtFirst
<1>2. ASSUME Inv, [EnvNext]_envVars
      PROVE  Inv'
  <2>1. EnvInv' /\ constraint \in Stages /\ EngineOK(des, constraint) /\ constraint \in Constraints
    BY <1>2, EnvInvKept, Configured DEF EnvInv
  <2>2. SUFFICES ~des'.diverged
    BY <2>1
  <2>3. CASE HandleArrival
    BY <1>2, <2>1, <2>3, ArrivalStep
  <2>4. ASSUME NEW s \in Stages, HandleServiceComplete(s)
        PROVE  ~des'.diverged
    <3>1. PICK e : Ended(des, e, constraint) /\ des' = Settling[MaxIter - 1][e]
      BY <2>1, <2>4, CompleteStep
    <3>2. /\ EngineOK(e, constraint) /\ e \in Engines /\ ~e.diverged
          /\ MaxIter - 1 \in 0..MaxIter /\ MaxIter - 2 \in 0..MaxIter
          /\ MaxIter - 1 # 0 /\ (MaxIter - 1) - 1 = MaxIter - 2
      BY <1>2, <3>1, Configured DEF Ended, EngineOK
    <3>3. Len(e.blocked) \in Nat /\ Len(e.blocked) <= MaxIter - 2
      <4>1. CASE constraint = 1
        <5>1. e.blocked = <<>>
          BY <3>2, <4>1 DEF EngineOK
        <5>2. QED
          BY <5>1, Configured
      <4>2. CASE constraint # 1
        <5>1. constraint > 1 /\ constraint \in Int
          BY <2>1, <4>2 DEF Stages
        <5>2. Workers[constraint - 1] <= MaxIter - 2
          BY <2>1, <5>1
        <5>3. Len(e.blocked) \in Nat /\ Len(e.blocked) <= Workers[constraint - 1]
          BY <2>1, <3>2, <5>1, BlockedHaveServers
        <5>4. Workers[constraint - 1] \in Nat
          <6>1. constraint - 1 \in Stages
            BY <2>1, <5>1 DEF Stages
          <6>2. QED
            BY <6>1, ConfigAssumption DEF ValidConfig, Stages
        <5>5. QED
          BY <5>2, <5>3, <5>4, Configured
      <4>3. QED
        BY <4>1, <4>2
    <3>4. PICK lap : lap = Lap(e)
      OBVIOUS
    <3>5. /\ EngineOK(lap, constraint) /\ Kept(e, lap) /\ Rested(lap, constraint)
          /\ Len(lap.blocked) <= Len(e.blocked)
      BY <2>1, <3>2, <3>4, AfterLap
    <3>6. des' = IF lap = e THEN DrainSourceBacklog(e) ELSE Settling[MaxIter - 2][lap]
      BY <3>1, <3>2, <3>4, SettlingEquation, ZenonT(40)
    <3>7. CASE lap = e
      <4>1. Kept(e, DrainSourceBacklog(e))
        BY <2>1, <3>2, AfterDrain
      <4>2. QED
        BY <3>2, <3>6, <3>7, <4>1 DEF Kept
    <3>8. CASE lap # e
      <4>1. Len(lap.blocked) \in Nat
        <5>1. lap.blocked \in Seq(Nat)
          BY <3>5 DEF EngineOK, Engines
        <5>2. QED
          BY <5>1
      <4>2. Len(lap.blocked) <= MaxIter - 2
        BY <3>3, <3>5, <4>1, Configured
      <4>3. Settling[MaxIter - 2][lap].diverged = lap.diverged
        BY <2>1, <3>2, <3>5, <4>2, SettlesInTime
      <4>4. QED
        BY <3>2, <3>5, <3>6, <3>8, <4>3 DEF Kept
    <3>9. QED
      BY <3>7, <3>8
  <2>5. CASE EndStep \/ \E rope \in RopeRates, cap \in BufferCaps : BeginStep(rope, cap)
    BY <1>2, <2>1, <2>5, BoundaryStep
  <2>6. CASE Reset
    BY <2>1, <2>6, NewEngine DEF Reset
  <2>7. CASE UNCHANGED envVars
    BY <1>2, <2>7 DEF envVars
  <2>8. QED
    BY <1>2, <2>3, <2>4, <2>5, <2>6, <2>7 DEF EnvNext
<1>3. Inv => SettledIsWorkConserving
  BY RestedConserves
<1>4. QED
  BY <1>1, <1>2, <1>3, PTL DEF EnvSpec

-----------------------------------------------------------------------------
(* Caps that leave room for one item. *)

\* While no cap was too tight: an interval has room for one item, settling
\* did not give up, and nothing is blocked behind an idle constraint.
RoomInv ==
  /\ EnvInv
  /\ done => ~running
  /\ ~tooTight => /\ running => Cost <= des.bufferMaxTime
                  /\ ~des.diverged
                  /\ des.blocked # <<>> => FreeServers(des, constraint) <= 0

\* A step from there, when no cap of the episode has been too tight after it.
RoomAfter ==
  /\ done' => ~running'
  /\ running' => Cost <= des'.bufferMaxTime
  /\ ~des'.diverged
  /\ des'.blocked # <<>> => FreeServers(des', constraint) <= 0

\* An arrival takes servers and frees none.
LEMMA RoomAfterArrival ==
  ASSUME RoomInv, ~tooTight, HandleArrival
  PROVE  RoomAfter
<1>1. constraint \in Stages /\ EngineOK(des, constraint)
  BY Configured DEF RoomInv, EnvInv
<1>2. /\ EngineOK(des', constraint)
      /\ des'.diverged = des.diverged /\ des'.bufferMaxTime = des.bufferMaxTime
      /\ des'.blocked = des.blocked /\ des.inService[constraint] <= des'.inService[constraint]
  BY <1>1, ArrivalStep
<1>3. des.inService[constraint] \in Int /\ des'.inService[constraint] \in Int
  <2>1. des.inService \in [Stages -> Int] /\ des'.inService \in [Stages -> Int]
    BY <1>1, <1>2 DEF EngineOK, Engines
  <2>2. QED
    BY <1>1, <2>1
<1>4. Workers[constraint] \in Int
  BY <1>1, ConfigAssumption DEF ValidConfig, Stages
<1>5. FreeServers(des, constraint) <= 0 => FreeServers(des', constraint) <= 0
  BY <1>2, <1>3, <1>4 DEF FreeServers
<1>6. running' = running /\ done' = done
  BY DEF HandleArrival
<1>7. QED
  BY <1>2, <1>5, <1>6 DEF RoomInv, RoomAfter

\* A completion frees one server of the constraint at most, and settling
\* takes it again.
LEMMA RoomAfterComplete ==
  ASSUME RoomInv, ~tooTight, NEW s \in Stages, HandleServiceComplete(s)
  PROVE  RoomAfter
<1>1. constraint \in Stages /\ EngineOK(des, constraint)
  BY Configured DEF RoomInv, EnvInv
<1>2. PICK e : Ended(des, e, constraint) /\ des' = Settling[MaxIter - 1][e]
  BY <1>1, CompleteStep
<1>3. running /\ running' = running /\ done' = done
  BY DEF HandleServiceComplete, Simulating
<1>4. /\ ~des.diverged /\ Rested(des, constraint) /\ Cost <= des.bufferMaxTime
      /\ des.blocked # <<>> => FreeServers(des, constraint) <= 0
  BY <1>3 DEF RoomInv, EnvInv
<1>5. e.blocked # <<>> => FreeServers(e, constraint) <= 1
  BY <1>1, <1>2, <1>4, EndedBusy
<1>6. EngineOK(e, constraint) /\ e.bufferMaxTime = des.bufferMaxTime /\ e.diverged = des.diverged
  BY <1>2 DEF Ended
<1>7. MaxIter - 1 \in 2..MaxIter /\ MaxIter - 1 \in 0..MaxIter
  BY Configured
<1>8. /\ Settling[MaxIter - 1][e].diverged = e.diverged
      /\ Settling[MaxIter - 1][e].blocked # <<>>
           => FreeServers(Settling[MaxIter - 1][e], constraint) <= 0
  BY <1>1, <1>4, <1>5, <1>6, <1>7, SettlesBusy
<1>9. des'.bufferMaxTime = des.bufferMaxTime
  BY <1>1, <1>2, <1>6, <1>7, SettlingOK DEF SettlesWell
<1>10. QED
  BY <1>2, <1>3, <1>4, <1>6, <1>8, <1>9 DEF RoomInv, RoomAfter

\* The boundaries of an interval move nothing, and its cap has room.
LEMMA RoomAfterBoundary ==
  ASSUME RoomInv, ~tooTight, tooTight' = (~Reset /\ (tooTight \/ des'.bufferMaxTime \in 1..Cost - 1)),
         ~tooTight', ~Reset, EndStep \/ \E rope \in RopeRates, cap \in BufferCaps : BeginStep(rope, cap)
  PROVE  RoomAfter
<1>1. constraint \in Stages /\ EngineOK(des, constraint)
  BY Configured DEF RoomInv, EnvInv
<1>2. des'.diverged = des.diverged /\ SameLine(des, des')
  BY <1>1, BoundaryStep
<1>3. ~des'.diverged /\ (des'.blocked # <<>> => FreeServers(des', constraint) <= 0)
  BY <1>2 DEF RoomInv, SameLine, FreeServers
<1>4. CASE EndStep
  BY <1>3, <1>4 DEF EndStep, RoomAfter
<1>5. ASSUME NEW rope \in RopeRates, NEW cap \in BufferCaps, BeginStep(rope, cap)
      PROVE  RoomAfter
  <2>1. cap \in Nat \ {0} /\ Cost \in Nat
    BY ConfigAssumption DEF ValidConfig
  <2>2. des'.bufferMaxTime = cap
    <3>1. des \in Engines
      BY <1>1 DEF EngineOK
    <3>2. QED
      BY <1>5, <3>1 DEF BeginStep, Engines
  <2>3. ~done /\ done' = done
    BY <1>5 DEF BeginStep
  <2>4. cap \notin 1..Cost - 1
    BY <2>2
  <2>5. Cost <= cap
    BY <2>1, <2>4
  <2>6. QED
    BY <1>3, <2>2, <2>3, <2>5 DEF RoomAfter
<1>6. QED
  BY <1>4, <1>5

\* The invariant is kept.
LEMMA RoomInvKept ==
  ASSUME RoomInv, [MCNext]_<<envVars, tooTight>>
  PROVE  RoomInv'
<1>1. CASE UNCHANGED <<envVars, tooTight>>
  BY <1>1 DEF RoomInv, EnvInv, envVars
<1>2. CASE MCNext
  <2>1. EnvNext /\ tooTight' = (~Reset /\ (tooTight \/ des'.bufferMaxTime \in 1..Cost - 1))
    BY <1>2 DEF MCNext
  <2>2. EnvInv'
    BY <2>1, EnvInvKept DEF RoomInv
  <2>3. constraint \in Stages /\ constraint' = constraint
    BY <2>1, Configured DEF RoomInv, EnvInv, EnvNext, HandleArrival, HandleServiceComplete,
       BeginStep, EndStep, Reset
  <2>4. CASE Reset
    <3>1. /\ des' = NewDES /\ ~done' /\ ~NewDES.diverged /\ NewDES.blocked = <<>>
          /\ ~running'
      BY <2>3, <2>4, NewEngine DEF Reset
    <3>2. QED
      BY <2>2, <3>1 DEF RoomInv
  <2>5. CASE ~Reset
    <3>1. ~done
      BY <2>1, <2>5 DEF RoomInv, EnvNext, HandleArrival, HandleServiceComplete, Simulating,
         BeginStep, EndStep
    <3>2. done' => ~running'
      BY <2>1, <2>5, <3>1 DEF EnvNext, HandleArrival, HandleServiceComplete, BeginStep, EndStep
    <3>3. ASSUME ~tooTight'
          PROVE  RoomAfter
      <4>1. ~tooTight
        BY <2>1, <2>5, <3>3
      <4>2. QED
        BY <2>1, <2>5, <3>3, <4>1, RoomAfterArrival, RoomAfterComplete, RoomAfterBoundary DEF EnvNext
    <3>4. QED
      BY <2>2, <2>3, <3>2, <3>3 DEF RoomInv, RoomAfter, FreeServers
  <2>6. QED
    BY <2>4, <2>5
<1>3. QED
  BY <1>1, <1>2

\* It holds at first.
LEMMA RoomInvAtFirst ==
  ASSUME MCInit
  PROVE  RoomInv
BY EnvInvAtFirst DEF MCInit, EnvInit, RoomInv

\* Finished work never stands blocked in front of an idle constraint while the
\* caps leave room for one item, with any number of servers anywhere.
THEOREM ConstraintIsNeverStarved == MCSpec => []ConstraintNeverStarved
<1>1. ASSUME RoomInv
      PROVE  ConstraintNeverStarved
  <2>1. FreeServers(des, constraint) \in Nat
    BY <1>1, ServersToSpare, Configured DEF RoomInv, EnvInv
  <2>2. QED
    BY <1>1, <2>1 DEF RoomInv, ConstraintNeverStarved
<1>2. QED
  BY <1>1, RoomInvAtFirst, RoomInvKept, PTL DEF MCSpec

\* And then settling never gives up, with any number of servers anywhere.
THEOREM RoomSettles == MCSpec => [](~tooTight => SettledIsWorkConserving)
<1>1. RoomInv => (~tooTight => SettledIsWorkConserving)
  BY RestedConserves DEF RoomInv
<1>2. QED
  BY <1>1, RoomInvAtFirst, RoomInvKept, PTL DEF MCSpec
=============================================================================
