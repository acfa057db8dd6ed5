---------------------------- MODULE NetworkProofs ----------------------------
(***************************************************************************)
(* The operators of the network, for every input, every batch size,        *)
(* threshold and weight function, whenever the context is cancelled and    *)
(* whatever the combining function does: what they lose they report, what  *)
(* they receive they send, count or drop, and without a cancellation       *)
(* nothing is missing.                                                     *)
(*                                                                         *)
(* The argument is per operator.  A step of an operator only takes from    *)
(* its sources and only sends on its outputs (Acts), so the channels stay  *)
(* well formed and every other operator keeps its invariant.  The          *)
(* invariant of an operator relates its counters and its place in the      *)
(* code to the logs of its channels: what it has received is on its way    *)
(* out, in its hands, or counted as lost.                                  *)
(***************************************************************************)
EXTENDS Network, Lemmas

Names == {"s1", "s2", "m", "t1", "t2", "b1", "b2", "out"}
ItemChannels == {"s1", "s2", "m", "t1", "t2"}
ChannelFields == {"st", "val", "log"}

\* What the batchers and the Join send.
BatchResults == [ok : {TRUE}, of : Seq(Values)] \cup [ok : {FALSE}, of : Values]
Outcomes == [ok : BOOLEAN, of : [{"A", "B"} -> BatchResults]]
Carries(c) == IF c \in ItemChannels THEN Results
              ELSE IF c = "out" THEN Outcomes ELSE BatchResults

ChannelsOk ==
  /\ DOMAIN ch = Names
  /\ \A c \in Names :
       /\ DOMAIN ch[c] = ChannelFields
       /\ ch[c].st \in {"idle", "offer", "taken", "closed"}
       /\ ch[c].st \in {"offer", "taken"} => ch[c].val \in Carries(c)
       /\ ch[c].log \in Seq(Carries(c))
  /\ canceled \in BOOLEAN

\* A sender is busy with its output, and with nothing else, while it sends.
Busy(c) == ch[c].st \in {"offer", "taken"}
One(p) == IF p THEN 1 ELSE 0

FromInv ==
  /\ from1 \in Seq(Values)
  /\ Busy("s1") => from1 # <<>>

PipeFields == {"pc", "cur", "worker", "job", "failed", "received", "submitted", "forwarded", "dropped"}
PipeInv ==
  /\ DOMAIN pipe = PipeFields
  /\ from2 \in Seq(Results)
  /\ pipe.pc \in {"recv", "blocked", "submit", "send", "gone"}
  /\ pipe.worker \in {"idle", "fn", "blocked", "send"}
  /\ pipe.failed \in BOOLEAN
  /\ pipe.received \in Nat /\ pipe.submitted \in Nat
  /\ pipe.forwarded \in Nat /\ pipe.dropped \in Nat
  /\ pipe.pc \in {"blocked", "submit", "send"} => pipe.cur \in Results
  /\ pipe.worker # "idle" => pipe.job \in Results
  /\ pipe.received = pipe.submitted + pipe.forwarded + pipe.dropped
                       + One(pipe.pc \in {"blocked", "submit", "send"})
  /\ pipe.dropped > 0 => canceled \/ pipe.failed
  /\ ~(pipe.pc = "send" /\ pipe.worker = "send")
  /\ Busy("s2") <=> pipe.pc = "send" \/ pipe.worker = "send"
  /\ Shut("s2") => pipe.pc = "gone" /\ pipe.worker = "idle"
  /\ Len(Log("s2")) + One(pipe.worker \in {"fn", "blocked"} \/ (pipe.worker = "send" /\ Ready("s2")))
       = pipe.submitted + pipe.forwarded + One(pipe.pc = "send" /\ Taken("s2"))

MergeFields == {"pc", "cur", "ctxErr", "closed", "received", "forwarded", "dropped"}
Two == {1, 2}
Delivered(i) == merge.forwarded[i] + One(merge.pc[i] = "send" /\ Taken("m"))
MergeForwarder(i) ==
  /\ merge.pc[i] \in {"recv", "blocked", "send", "drain", "gone"}
  /\ merge.received[i] \in Nat /\ merge.forwarded[i] \in Nat /\ merge.dropped[i] \in Nat
  /\ merge.received[i] = merge.forwarded[i] + merge.dropped[i]
                           + One(merge.pc[i] \in {"blocked", "send"})
  /\ merge.received[i] = Len(Log(<<"s1", "s2">>[i]))
  /\ merge.pc[i] \in {"blocked", "send"} =>
       /\ merge.cur[i] = Log(<<"s1", "s2">>[i])[Len(Log(<<"s1", "s2">>[i]))]
  /\ merge.pc[i] = "send" => Busy("m") /\ merge.cur[i] = Value("m")
  /\ merge.dropped[i] > 0 => merge.ctxErr /\ merge.pc[i] \in {"drain", "gone"}
  /\ merge.pc[i] = "drain" => merge.dropped[i] > 0
MergeInv ==
  /\ DOMAIN merge = MergeFields
  /\ DOMAIN merge.pc = Two /\ DOMAIN merge.cur = Two /\ DOMAIN merge.received = Two
  /\ DOMAIN merge.forwarded = Two /\ DOMAIN merge.dropped = Two
  /\ merge.ctxErr \in BOOLEAN /\ merge.closed \in BOOLEAN
  /\ \A i \in Two : MergeForwarder(i)
  /\ merge.ctxErr => canceled /\ \E i \in Two : merge.dropped[i] > 0
  /\ ~(merge.pc[1] = "send" /\ merge.pc[2] = "send")
  /\ Busy("m") => merge.pc[1] = "send" \/ merge.pc[2] = "send"
  /\ merge.closed => \A i \in Two : merge.pc[i] = "gone"
  /\ Shut("m") <=> merge.closed
MergeOrder ==
  \E from \in [1..Len(Log("m")) -> Two] :
    /\ Interleaves(from)
    /\ \A i \in Two : CountTo(from, i, Len(Log("m"))) = Delivered(i)

MergeTotal == Len(Log("m")) = Delivered(1) + Delivered(2)

TeeFields == {"pc", "next", "ctxErr", "received", "fully", "partially", "undelivered", "branch"}
TeeInv ==
  /\ DOMAIN tee = TeeFields /\ DOMAIN tee.branch = Two
  /\ tee.pc \in {"recv", "send", "drain", "exited"}
  /\ tee.ctxErr \in BOOLEAN
  /\ tee.received \in Nat /\ tee.fully \in Nat
  /\ tee.partially \in Nat /\ tee.undelivered \in Nat
  /\ tee.pc = "send" => tee.next \in {1, 2}
  /\ tee.pc = "drain" => T!Lost > 0
  /\ T!Lost > 0 => canceled /\ tee.pc \in {"drain", "exited"}
  /\ tee.ctxErr => tee.pc = "exited"
  /\ tee.pc = "exited" => (tee.ctxErr <=> T!Lost > 0)
  /\ tee.received = tee.fully + T!Lost + One(tee.pc = "send")
  /\ tee.branch[1] = tee.fully + tee.partially + One(tee.pc = "send" /\ tee.next = 2)
  /\ tee.branch[2] = tee.fully
  /\ tee.partially <= 1

Serves(k) == tee.pc = "send" /\ tee.next = k
TeeCopies ==
  LET m == Log("m")
      t1 == Log("t1")
      t2 == Log("t2")
  IN  /\ Busy("t1") <=> Serves(1)
      /\ Busy("t2") <=> Serves(2)
      /\ Shut("t1") \/ Shut("t2") => tee.pc = "exited"
      /\ tee.pc = "exited" => Shut("t1") /\ Shut("t2")
      /\ T!Lost = 0 /\ ~Serves(1) /\ ~Serves(2) => t1 = m /\ t2 = m
      /\ Serves(1) => /\ m = Append(t2, Value("t1"))
                      /\ t1 = IF Taken("t1") THEN m ELSE t2
      /\ Serves(2) => /\ t1 = m
                      /\ IF Taken("t2") THEN t2 = m ELSE m = Append(t2, Value("t2"))
      /\ T!Lost > 0 => IsPrefix(t1, m) /\ (t1 = t2 \/ \E x \in Results : t1 = Append(t2, x))

BatcherFields == {"pc", "buf", "cur", "ctxErr", "received", "emitted", "forwarded", "dropped", "batchCount"}
BatcherCounts(s, cn) ==
  /\ DOMAIN s = BatcherFields
  /\ s.pc \in {"recv", "batch", "flush", "error", "last", "drain", "exited"}
  /\ s.ctxErr \in BOOLEAN /\ s.buf \in Seq(Values)
  /\ s.received \in Nat /\ s.emitted \in Nat /\ s.forwarded \in Nat /\ s.dropped \in Nat
  /\ s.pc \in {"batch", "flush", "last"} => s.buf # <<>>
  /\ s.pc \in {"error", "drain", "exited"} => s.buf = <<>>
  /\ s.pc \in {"flush", "error"} => s.cur \in Results /\ ~s.cur.ok
  /\ s.received = s.emitted + s.forwarded + s.dropped + Len(s.buf)
                    + One(s.pc \in {"flush", "error"})
  /\ s.pc = "drain" => s.dropped > 0
  /\ s.dropped > 0 => cn /\ s.pc \in {"drain", "exited"}
  /\ s.ctxErr => s.pc = "exited"
  /\ s.pc = "exited" => (s.ctxErr <=> s.dropped > 0)
BatcherSends(s, o) ==
  /\ o.st \in {"offer", "taken"} <=> s.pc \in {"batch", "flush", "error", "last"}
  /\ o.st = "closed" <=> s.pc = "exited"
  /\ s.pc \in {"batch", "flush", "last"} /\ o.st = "offer" => o.val = Ok(s.buf)
  /\ s.pc = "error" /\ o.st = "offer" => o.val = s.cur

\* What of the items received is not on the output yet.
Pending(s, o) ==
  IF s.pc = "flush" THEN IF o.st = "offer" THEN Append(s.buf, s.cur.of) ELSE <<s.cur.of>>
  ELSE IF s.pc = "error" THEN IF o.st = "offer" THEN <<s.cur.of>> ELSE <<>>
  ELSE IF s.pc \in {"batch", "last"} /\ o.st = "taken" THEN <<>>
  ELSE s.buf

BatcherOrder(s, o, src) ==
  /\ Unbatch(o.log) \in Seq(Values)
  /\ s.dropped = 0 => Items(src) = Unbatch(o.log) \o Pending(s, o)
  /\ s.dropped > 0 => IsPrefix(Unbatch(o.log), Items(src))
  /\ \A k \in DOMAIN o.log : o.log[k].ok => o.log[k].of # <<>>

WeightsInv ==
  /\ DOMAIN weights = {"received", "emitted", "dropped"}
  /\ weights.received \in Nat /\ weights.emitted \in Nat /\ weights.dropped \in Nat
  /\ weights.received = weights.emitted + weights.dropped + W!WeightOf(weighted.buf)

JoinFields == {"pc", "side", "first", "ctxErr", "received", "discarded", "extra", "combined", "errors"}
Sides == {"A", "B"}
JoinSide(x) ==
  /\ join.side[x] \in {"open", "gotFirst", "closedEmpty", "closed"}
  /\ join.first[x] \in BatchResults
  /\ join.received[x] \in Nat /\ join.discarded[x] \in Nat /\ join.extra[x] \in Nat
  /\ join.received[x] = join.extra[x] + (IF join.pc = "collect" THEN One(J!HasItem(x))
                                         ELSE join.combined + join.discarded[x])
  /\ join.pc \in {"collect", "emit", "send"} /\ join.errors = 0 => join.discarded[x] = 0
  /\ join.side[x] = "open" /\ join.pc = "collect" => Log([A |-> "b1", B |-> "b2"][x]) = <<>>
  /\ join.side[x] = "closedEmpty" => Log([A |-> "b1", B |-> "b2"][x]) = <<>> /\ Shut([A |-> "b1", B |-> "b2"][x])
JoinInv ==
  /\ DOMAIN join = JoinFields
  /\ DOMAIN join.side = Sides /\ join.first \in [Sides -> BatchResults] /\ DOMAIN join.received = Sides
  /\ DOMAIN join.discarded = Sides /\ DOMAIN join.extra = Sides
  /\ join.pc \in {"collect", "emit", "send", "discard", "extras", "exited"}
  /\ join.ctxErr \in BOOLEAN /\ join.combined \in Nat /\ join.errors \in Nat
  /\ \A x \in Sides : JoinSide(x)
  /\ join.combined + join.errors <= 1
  /\ join.ctxErr => canceled
  /\ join.combined = 1 => \A x \in Sides : J!HasItem(x)
  /\ join.pc = "collect" => join.combined + join.errors = 0 /\ ~join.ctxErr
  /\ join.pc \in {"emit", "send"} => join.combined + join.errors = 1 /\ ~join.ctxErr
  /\ join.pc \in {"extras", "discard", "exited"} /\ ~join.ctxErr /\ join.combined + join.errors = 0 =>
       \A x \in Sides : join.side[x] = "closedEmpty"
  /\ join.pc = "discard" => join.ctxErr /\ join.combined = 0
  /\ Busy("out") <=> join.pc = "send"
  /\ Shut("out") => join.pc = "exited"
  /\ Len(Log("out")) = IF join.pc \in {"collect", "emit"} \/ (join.pc = "send" /\ Ready("out")) THEN 0
                       ELSE join.combined + join.errors

NetInv ==
  /\ ChannelsOk /\ FromInv /\ PipeInv
  /\ MergeInv /\ MergeOrder /\ MergeTotal
  /\ TeeInv /\ TeeCopies
  /\ BatcherCounts(batcher, canceled) /\ BatcherSends(batcher, ch["b1"]) /\ BatcherOrder(batcher, ch["b1"], Log("t1"))
  /\ BatcherCounts(weighted, canceled) /\ BatcherSends(weighted, ch["b2"]) /\ BatcherOrder(weighted, ch["b2"], Log("t2"))
  /\ WeightsInv /\ JoinInv

-------------------------------------------------------------------------------
Shaped(f) == DOMAIN f = Names /\ \A c \in Names : DOMAIN f[c] = ChannelFields

\* What a step does to a channel.
Took(c) ==
  /\ ch[c].st = "offer" /\ ch'[c].st = "taken"
  /\ ch'[c].val = ch[c].val /\ ch'[c].log = Append(ch[c].log, ch[c].val)
Offered(c, v) == ch'[c].st = "offer" /\ ch'[c].val = v /\ ch'[c].log = ch[c].log
Cleared(c) == ch'[c].st = "idle" /\ ch'[c].log = ch[c].log
Closed(c) == ch'[c].st = "closed" /\ ch'[c].log = ch[c].log
OnlyOn(C) == \A c \in Names \ C : ch'[c] = ch[c]

\* The receivers and the senders of the channels they use.
Takes(c) == ch'[c] = ch[c] \/ Took(c)
Sends(c) ==
  \/ ch'[c] = ch[c]
  \/ /\ ch[c].st # "closed"
     /\ ch'[c].st \in {"idle", "offer", "closed"}
     /\ ch'[c].st = "offer" => ch'[c].val \in Carries(c)
     /\ ch'[c].log = ch[c].log
Acts(from, to) ==
  /\ Shaped(ch')
  /\ \A c \in from : Takes(c)
  /\ \A c \in to : Sends(c)
  /\ OnlyOn(from \cup to)

\* A receiver takes the item that is offered.
LEMMA TakeDoes ==
  ASSUME NEW c \in Names, Shaped(ch), Ready(c), ch' = Take(ch, c)
  PROVE  Shaped(ch') /\ Took(c) /\ OnlyOn({c})
BY DEF Shaped, Took, OnlyOn, Take, Ready, ChannelFields

\* A sender offers an item.
LEMMA PutDoes ==
  ASSUME NEW c \in Names, NEW v, Shaped(ch), ch' = Put(ch, c, v)
  PROVE  Shaped(ch') /\ Offered(c, v) /\ OnlyOn({c})
BY DEF Shaped, Offered, OnlyOn, Put, ChannelFields

\* A sender has sent, or takes its offer back.
LEMMA ClearDoes ==
  ASSUME NEW c \in Names, Shaped(ch), ch' = Clear(ch, c)
  PROVE  Shaped(ch') /\ Cleared(c) /\ OnlyOn({c})
BY DEF Shaped, Cleared, OnlyOn, Clear, ChannelFields

\* A sender closes channels.
LEMMA CloseDoes ==
  ASSUME NEW C \in SUBSET Names, Shaped(ch), ch' = Close(ch, C)
  PROVE  Shaped(ch') /\ (\A c \in C : Closed(c)) /\ OnlyOn(C)
BY DEF Shaped, Closed, OnlyOn, Close, ChannelFields

\* An operator takes an item and offers one in the same step.
LEMMA TakePutDoes ==
  ASSUME NEW c \in Names, NEW d \in Names, c # d, NEW v,
         Shaped(ch), Ready(c), ch' = Put(Take(ch, c), d, v)
  PROVE  Shaped(ch') /\ Took(c) /\ Offered(d, v) /\ OnlyOn({c, d})
<1>. DEFINE f == Take(ch, c)
<1>1. /\ Shaped(f) /\ f[c].st = "taken" /\ f[c].val = ch[c].val
      /\ f[c].log = Append(ch[c].log, ch[c].val)
      /\ \A x \in Names \ {c} : f[x] = ch[x]
  BY DEF Shaped, Take, ChannelFields
<1>2. ch' = Put(f, d, v)
  OBVIOUS
<1>. HIDE DEF f
<1>3. /\ Shaped(ch') /\ ch'[d].st = "offer" /\ ch'[d].val = v /\ ch'[d].log = f[d].log
      /\ \A x \in Names \ {d} : ch'[x] = f[x]
  BY <1>1, <1>2 DEF Shaped, Put, ChannelFields
<1>4. QED
  BY <1>1, <1>3 DEF Took, Offered, OnlyOn, Ready

\* A sender has sent and offers the next item in the same step.
LEMMA ClearPutDoes ==
  ASSUME NEW c \in Names, NEW d \in Names, NEW v,
         Shaped(ch), ch' = Put(Clear(ch, c), d, v)
  PROVE  Shaped(ch') /\ (c # d => Cleared(c)) /\ Offered(d, v) /\ OnlyOn({c, d})
<1>. DEFINE f == Clear(ch, c)
<1>1. /\ Shaped(f) /\ f[c].st = "idle" /\ f[c].log = ch[c].log
      /\ \A x \in Names \ {c} : f[x] = ch[x]
  BY DEF Shaped, Clear, ChannelFields
<1>2. ch' = Put(f, d, v)
  OBVIOUS
<1>. HIDE DEF f
<1>3. /\ Shaped(ch') /\ ch'[d].st = "offer" /\ ch'[d].val = v /\ ch'[d].log = f[d].log
      /\ \A x \in Names \ {d} : ch'[x] = f[x]
  BY <1>1, <1>2 DEF Shaped, Put, ChannelFields
<1>4. QED
  BY <1>1, <1>3 DEF Cleared, Offered, OnlyOn

\* A sender has sent and closes the channel in the same step.
LEMMA ClearCloseDoes ==
  ASSUME NEW c \in Names, Shaped(ch), ch' = Close(Clear(ch, c), {c})
  PROVE  Shaped(ch') /\ Closed(c) /\ OnlyOn({c})
<1>. DEFINE f == Clear(ch, c)
<1>1. /\ Shaped(f) /\ f[c].st = "idle" /\ f[c].log = ch[c].log
      /\ \A x \in Names \ {c} : f[x] = ch[x]
  BY DEF Shaped, Clear, ChannelFields
<1>2. ch' = Close(f, {c})
  OBVIOUS
<1>. HIDE DEF f
<1>3. QED
  BY <1>1, <1>2 DEF Shaped, Closed, OnlyOn, Close, ChannelFields

\* Whoever receives and sends like this keeps the channels well formed.
LEMMA ActsKeepsChannels ==
  ASSUME ChannelsOk, NEW from \in SUBSET Names, NEW to \in SUBSET Names, Acts(from, to),
         canceled' \in BOOLEAN
  PROVE  ChannelsOk'
<1>1. ASSUME NEW c \in Names
      PROVE  /\ ch'[c].st \in {"idle", "offer", "taken", "closed"}
             /\ ch'[c].st \in {"offer", "taken"} => ch'[c].val \in Carries(c)
             /\ ch'[c].log \in Seq(Carries(c))
  <2>1. /\ ch[c].st \in {"idle", "offer", "taken", "closed"}
        /\ ch[c].st \in {"offer", "taken"} => ch[c].val \in Carries(c)
        /\ ch[c].log \in Seq(Carries(c))
    BY DEF ChannelsOk
  <2>2. ch'[c] = ch[c] \/ Took(c) \/ Sends(c)
    BY DEF Acts, OnlyOn, Takes
  <2>3. CASE Took(c)
    BY <2>1, <2>3, AppendProperties DEF Took
  <2>4. CASE Sends(c)
    BY <2>1, <2>4 DEF Sends
  <2>5. QED
    BY <2>1, <2>2, <2>3, <2>4
<1>2. QED
  BY <1>1 DEF ChannelsOk, Acts, Shaped

-------------------------------------------------------------------------------
\* The operators of an instance are those of the module.
LEMMA TeeChannelOps ==
  /\ \A f, c : T!Take(f, c) = Take(f, c) /\ T!Clear(f, c) = Clear(f, c)
  /\ \A f, c, v : T!Put(f, c, v) = Put(f, c, v)
  /\ \A f, C : T!Close(f, C) = Close(f, C)
  /\ \A c : T!Ready(c) = Ready(c) /\ T!Taken(c) = Taken(c) /\ T!Shut(c) = Shut(c)
  /\ \A c : T!Value(c) = Value(c)
BY DEF T!Take, Take, T!Clear, Clear, T!Put, Put, T!Close, Close, T!Ready, Ready,
       T!Taken, Taken, T!Shut, Shut, T!Value, Value

\* Every step of the tee keeps its counters in balance.
LEMMA TeeCounts ==
  ASSUME TeeInv, T!Next
  PROVE  TeeInv' /\ canceled' = canceled
<1>0. T!N = 2
  BY DEF T!N
<1>1. CASE T!Receive
  <2>1. CASE canceled
    <3>1. /\ tee' = [tee EXCEPT !.received = @ + 1, !.undelivered = @ + 1, !.pc = "drain"]
          /\ tee.pc = "recv" /\ canceled' = canceled
      BY <1>1, <2>1 DEF T!Receive
    <3>2. QED
      BY <2>1, <3>1 DEF TeeInv, T!Lost, TeeFields, Two, One
  <2>2. CASE ~canceled
    <3>1. /\ tee' = [tee EXCEPT !.received = @ + 1, !.next = 1, !.pc = "send"]
          /\ tee.pc = "recv" /\ canceled' = canceled
      BY <1>1, <2>2 DEF T!Receive
    <3>2. QED
      BY <2>2, <3>1 DEF TeeInv, T!Lost, TeeFields, Two, One
  <2>3. QED
    BY <2>1, <2>2
<1>2. CASE T!Sent
  <2>1. CASE tee.next = 1
    <3>1. /\ tee' = [[tee EXCEPT !.branch[1] = @ + 1] EXCEPT !.next = @ + 1]
          /\ tee.pc = "send" /\ canceled' = canceled
      BY <1>0, <1>2, <2>1 DEF T!Sent
    <3>2. QED
      BY <2>1, <3>1 DEF TeeInv, T!Lost, TeeFields, Two, One
  <2>2. CASE tee.next = 2
    <3>1. /\ tee' = [tee EXCEPT !.branch[2] = @ + 1, !.fully = @ + 1, !.pc = "recv"]
          /\ tee.pc = "send" /\ canceled' = canceled
      BY <1>0, <1>2, <2>2 DEF T!Sent, TeeInv, TeeFields
    <3>2. QED
      BY <2>2, <3>1 DEF TeeInv, T!Lost, TeeFields, Two, One
  <2>3. QED
    BY <1>2, <2>1, <2>2 DEF T!Sent, TeeInv
<1>3. CASE T!Interrupted
  BY <1>3 DEF T!Interrupted, TeeInv, T!Lost, TeeFields, Two, One
<1>4. CASE T!Drain
  BY <1>4 DEF T!Drain, TeeInv, T!Lost, TeeFields, Two, One
<1>5. CASE T!Finish
  BY <1>5 DEF T!Finish, TeeInv, T!Lost, TeeFields, Two, One
<1>6. QED
  BY <1>1, <1>2, <1>3, <1>4, <1>5 DEF T!Next

\* Every step of the tee keeps the branches copies of its source.
LEMMA TeeSends ==
  ASSUME ChannelsOk, TeeInv, TeeCopies, T!Next
  PROVE  Acts({"m"}, {"t1", "t2"}) /\ TeeCopies'
<1>1. /\ Shaped(ch) /\ "m" \in Names /\ "t1" \in Names /\ "t2" \in Names
      /\ \A c \in Names : ch[c].st \in {"idle", "offer", "taken", "closed"}
  BY DEF ChannelsOk, Shaped, Names
<1>2. /\ T!N = 2 /\ {<<"t1", "t2">>[k] : k \in 1..T!N} = {"t1", "t2"}
      /\ <<"t1", "t2">>[1] = "t1" /\ <<"t1", "t2">>[1 + 1] = "t2" /\ <<"t1", "t2">>[2] = "t2"
  BY DEF T!N
<1>3. /\ Log("m") \in Seq(Results) /\ Log("t1") \in Seq(Results) /\ Log("t2") \in Seq(Results)
      /\ \A c \in {"m", "t1", "t2"} : Busy(c) => Value(c) \in Results
      /\ Carries("m") = Results /\ Carries("t1") = Results /\ Carries("t2") = Results
  BY DEF ChannelsOk, Names, Carries, ItemChannels, Log, Value, Busy
<1>4. TeeInv'
  BY TeeCounts
<1>5. CASE T!Receive
  <2>1. tee.pc = "recv" /\ Ready("m") /\ T!Lost = 0 /\ Log("t1") = Log("m") /\ Log("t2") = Log("m")
        /\ ~Busy("t1") /\ ~Busy("t2") /\ ~Shut("t1") /\ ~Shut("t2")
    BY <1>5, TeeChannelOps DEF T!Receive, TeeInv, TeeCopies, Serves, T!Lost
  <2>2. CASE canceled
    <3>1. Took("m") /\ Shaped(ch') /\ OnlyOn({"m"})
      <4>1. ch' = Take(ch, "m")
        BY <1>5, <2>2, TeeChannelOps DEF T!Receive
      <4>2. QED
        BY <4>1, <1>1, <2>1, TakeDoes
    <3>2. Acts({"m"}, {"t1", "t2"})
      BY <3>1 DEF Acts, Takes, Sends, OnlyOn, Names
    <3>3. tee'.pc = "drain" /\ (T!Lost)' > 0 /\ (T!Lost)' # 0
      <4>1. tee'.pc = "drain" /\ (T!Lost)' > 0
        BY <1>4, <1>5, <2>2 DEF T!Receive, TeeInv, TeeFields
      <4>2. QED
        BY <4>1
    <3>4. /\ Log("m")' = Append(Log("m"), Value("m"))
          /\ Log("t1")' = Log("m") /\ Log("t2")' = Log("m")
          /\ ~Busy("t1")' /\ ~Busy("t2")' /\ ~Shut("t1")' /\ ~Shut("t2")'
      BY <2>1, <3>1 DEF Took, OnlyOn, Names, Busy, Shut, Log, Value
    <3>5. IsPrefix(Log("m"), Append(Log("m"), Value("m")))
      BY <2>1, <1>3, PrefixSelf, PrefixAppend DEF Busy, Ready
    <3>6. QED
      BY <3>2, <3>3, <3>4, <3>5 DEF TeeCopies, Serves
  <2>3. CASE ~canceled
    <3>1. Took("m") /\ Offered("t1", Value("m")) /\ Shaped(ch') /\ OnlyOn({"m", "t1"})
      <4>1. ch' = Put(Take(ch, "m"), "t1", Value("m"))
        BY <1>2, <1>5, <2>3, TeeChannelOps DEF T!Receive
      <4>2. QED
        BY <4>1, <1>1, <2>1, TakePutDoes
    <3>2. Acts({"m"}, {"t1", "t2"})
      BY <3>1, <2>1, <1>3 DEF Acts, Takes, Sends, OnlyOn, Names, Offered, Shut, Busy, Ready
    <3>3. tee'.pc = "send" /\ tee'.next = 1 /\ (T!Lost)' = 0
      BY <1>5, <2>1, <2>3 DEF T!Receive, TeeInv, TeeFields, T!Lost
    <3>4. /\ Log("m")' = Append(Log("m"), Value("m")) /\ Value("t1")' = Value("m")
          /\ Log("t1")' = Log("m") /\ Log("t2")' = Log("m")
          /\ Busy("t1")' /\ ~Taken("t1")' /\ ~Busy("t2")' /\ ~Shut("t1")' /\ ~Shut("t2")'
      BY <2>1, <3>1 DEF Took, Offered, OnlyOn, Names, Busy, Shut, Taken, Log, Value
    <3>5. QED
      BY <3>2, <3>3, <3>4 DEF TeeCopies, Serves
  <2>4. QED
    BY <2>2, <2>3
<1>6. CASE T!Sent
  <2>1. tee.pc = "send" /\ T!Lost = 0 /\ tee.next \in {1, 2}
    BY <1>6 DEF T!Sent, TeeInv, T!Lost
  <2>2. CASE tee.next = 1
    <3>0. Busy("t1") /\ Taken("t1") /\ ~Busy("t2") /\ ~Shut("t2") /\ ~Shut("t1")
          /\ Log("m") = Append(Log("t2"), Value("t1")) /\ Log("t1") = Log("m")
      BY <1>2, <1>6, <2>1, <2>2, TeeChannelOps DEF T!Sent, TeeCopies, Serves
    <3>1. Cleared("t1") /\ Offered("t2", Value("t1")) /\ Shaped(ch') /\ OnlyOn({"t1", "t2"})
      <4>1. ch' = Put(Clear(ch, "t1"), "t2", Value("t1"))
        BY <1>2, <1>6, <2>2, TeeChannelOps DEF T!Sent
      <4>2. QED
        BY <4>1, <1>1, ClearPutDoes
    <3>2. Acts({"m"}, {"t1", "t2"})
      BY <3>0, <3>1, <1>3 DEF Acts, Takes, Sends, OnlyOn, Names, Offered, Cleared, Shut
    <3>3. tee'.pc = "send" /\ tee'.next = 2 /\ (T!Lost)' = 0
      <4>1. tee' = [[tee EXCEPT !.branch[1] = @ + 1] EXCEPT !.next = @ + 1]
        BY <1>2, <1>6, <2>2 DEF T!Sent
      <4>2. QED
        BY <4>1, <2>1, <2>2 DEF TeeInv, TeeFields, T!Lost
    <3>4. QED
      BY <3>0, <3>1, <3>2, <3>3
         DEF TeeCopies, Cleared, Offered, OnlyOn, Names, Busy, Serves, Shut, Taken, Log, Value
  <2>3. CASE tee.next = 2
    <3>0. Busy("t2") /\ Taken("t2") /\ ~Busy("t1") /\ ~Shut("t2") /\ ~Shut("t1")
          /\ Log("t1") = Log("m") /\ Log("t2") = Log("m")
      BY <1>2, <1>6, <2>1, <2>3, TeeChannelOps DEF T!Sent, TeeCopies, Serves
    <3>1. Cleared("t2") /\ Shaped(ch') /\ OnlyOn({"t2"})
      <4>1. ch' = Clear(ch, "t2")
        BY <1>2, <1>6, <2>3, TeeChannelOps DEF T!Sent
      <4>2. QED
        BY <4>1, <1>1, ClearDoes
    <3>2. Acts({"m"}, {"t1", "t2"})
      BY <3>0, <3>1, <1>3 DEF Acts, Takes, Sends, OnlyOn, Names, Offered, Cleared, Shut
    <3>3. tee'.pc = "recv" /\ (T!Lost)' = 0
      <4>1. tee' = [tee EXCEPT !.branch[2] = @ + 1, !.fully = @ + 1, !.pc = "recv"]
        BY <1>2, <1>6, <2>3 DEF T!Sent, TeeInv, TeeFields
      <4>2. QED
        BY <4>1, <2>1 DEF TeeInv, TeeFields, T!Lost
    <3>4. QED
      BY <3>0, <3>1, <3>2, <3>3
         DEF TeeCopies, Cleared, OnlyOn, Names, Busy, Serves, Shut, Taken, Log, Value
  <2>4. QED
    BY <2>1, <2>2, <2>3
<1>7. CASE T!Interrupted
  <2>1. tee.pc = "send" /\ T!Lost = 0 /\ tee.next \in {1, 2}
        /\ tee'.pc = "drain" /\ (T!Lost)' > 0
    BY <1>4, <1>7 DEF T!Interrupted, TeeInv, TeeFields, T!Lost
  <2>2. CASE tee.next = 1
    <3>0. Busy("t1") /\ ~Taken("t1") /\ ~Busy("t2") /\ ~Shut("t2") /\ ~Shut("t1")
          /\ Log("m") = Append(Log("t2"), Value("t1")) /\ Log("t1") = Log("t2")
      BY <1>2, <1>7, <2>1, <2>2, TeeChannelOps DEF T!Interrupted, TeeCopies, Serves
    <3>1. Cleared("t1") /\ Shaped(ch') /\ OnlyOn({"t1"})
      <4>1. ch' = Clear(ch, "t1")
        BY <1>2, <1>7, <2>2, TeeChannelOps DEF T!Interrupted
      <4>2. QED
        BY <4>1, <1>1, ClearDoes
    <3>2. Acts({"m"}, {"t1", "t2"})
      BY <3>0, <3>1, <1>3 DEF Acts, Takes, Sends, OnlyOn, Names, Cleared, Shut
    <3>3. IsPrefix(Log("t1"), Log("m"))
      BY <3>0, <1>3, PrefixSelf, PrefixAppend
    <3>4. /\ Log("m")' = Log("m") /\ Log("t1")' = Log("t1") /\ Log("t2")' = Log("t2")
          /\ ~Busy("t1")' /\ ~Busy("t2")' /\ ~Shut("t1")' /\ ~Shut("t2")'
      BY <3>0, <3>1 DEF Cleared, OnlyOn, Names, Busy, Shut, Log
    <3>5. QED
      BY <3>0, <3>2, <3>3, <3>4, <2>1 DEF TeeCopies, Serves
  <2>3. CASE tee.next = 2
    <3>0. Busy("t2") /\ ~Taken("t2") /\ ~Busy("t1") /\ ~Shut("t2") /\ ~Shut("t1")
          /\ Log("t1") = Log("m") /\ Log("m") = Append(Log("t2"), Value("t2"))
          /\ Value("t2") \in Results
      BY <1>2, <1>3, <1>7, <2>1, <2>3, TeeChannelOps DEF T!Interrupted, TeeCopies, Serves
    <3>1. Cleared("t2") /\ Shaped(ch') /\ OnlyOn({"t2"})
      <4>1. ch' = Clear(ch, "t2")
        BY <1>2, <1>7, <2>3, TeeChannelOps DEF T!Interrupted
      <4>2. QED
        BY <4>1, <1>1, ClearDoes
    <3>2. Acts({"m"}, {"t1", "t2"})
      BY <3>0, <3>1, <1>3 DEF Acts, Takes, Sends, OnlyOn, Names, Cleared, Shut
    <3>3. IsPrefix(Log("t1"), Log("m"))
      BY <3>0, <1>3, PrefixSelf
    <3>4. /\ Log("m")' = Log("m") /\ Log("t1")' = Log("t1") /\ Log("t2")' = Log("t2")
          /\ ~Busy("t1")' /\ ~Busy("t2")' /\ ~Shut("t1")' /\ ~Shut("t2")'
      BY <3>0, <3>1 DEF Cleared, OnlyOn, Names, Busy, Shut, Log
    <3>5. QED
      BY <3>0, <3>2, <3>3, <3>4, <2>1 DEF TeeCopies, Serves
  <2>4. QED
    BY <2>1, <2>2, <2>3
<1>8. CASE T!Drain
  <2>1. tee.pc = "drain" /\ tee'.pc = "drain" /\ Ready("m") /\ T!Lost > 0 /\ (T!Lost)' > 0
    BY <1>4, <1>8, TeeChannelOps DEF T!Drain, TeeInv, TeeFields, T!Lost
  <2>2. Took("m") /\ Shaped(ch') /\ OnlyOn({"m"})
    <3>1. ch' = Take(ch, "m")
      BY <1>8, TeeChannelOps DEF T!Drain
    <3>2. QED
      BY <3>1, <1>1, <2>1, TakeDoes
  <2>3. Acts({"m"}, {"t1", "t2"})
    BY <2>2 DEF Acts, Takes, Sends, OnlyOn, Names
  <2>4. IsPrefix(Log("t1"), Append(Log("m"), Value("m")))
    BY <2>1, <1>3, PrefixAppend DEF TeeCopies, Busy, Ready
  <2>5. TeeCopies'
    BY <2>1, <2>2, <2>4, SMTT(60)
       DEF TeeCopies, Took, OnlyOn, Names, Busy, Serves, Shut, Taken, Log, Value
  <2>6. QED
    BY <2>3, <2>5
<1>9. CASE T!Finish
  <2>1. tee.pc \in {"recv", "drain"} /\ tee'.pc = "exited" /\ (T!Lost)' = T!Lost
    BY <1>9 DEF T!Finish, TeeInv, TeeFields, T!Lost
  <2>2. ~Shut("t1") /\ ~Shut("t2")
    BY <2>1 DEF TeeCopies
  <2>3. Closed("t1") /\ Closed("t2") /\ Shaped(ch') /\ OnlyOn({"t1", "t2"})
    <3>1. ch' = Close(ch, {"t1", "t2"})
      BY <1>2, <1>9, TeeChannelOps DEF T!Finish
    <3>2. QED
      BY <3>1, <1>1, CloseDoes
  <2>4. Acts({"m"}, {"t1", "t2"})
    BY <2>2, <2>3 DEF Acts, Takes, Sends, OnlyOn, Names, Closed, Shut
  <2>5. QED
    BY <2>1, <2>3, <2>4
       DEF TeeCopies, Closed, OnlyOn, Names, Busy, Serves, Shut, Taken, Log, Value
<1>10. QED
  BY <1>5, <1>6, <1>7, <1>8, <1>9 DEF T!Next

\* A branch takes an item, or somebody else moves.
LEMMA TeeKept ==
  ASSUME ChannelsOk, TeeInv, TeeCopies, tee' = tee, canceled => canceled',
         Log("m")' = Log("m"), Takes("t1"), Takes("t2")
  PROVE  TeeInv' /\ TeeCopies'
<1>1. TeeInv'
  BY DEF TeeInv, T!Lost
<1>2. (T!Lost)' = T!Lost /\ Serves(1)' = Serves(1) /\ Serves(2)' = Serves(2)
  BY DEF T!Lost, Serves
<1>3. ~(Serves(1) /\ Serves(2))
  BY DEF Serves
<1>4. CASE Took("t1")
  <2>1. Serves(1) /\ ~Serves(2) /\ T!Lost = 0 /\ ~Took("t2") /\ ~Taken("t1")
    BY <1>3, <1>4 DEF TeeCopies, TeeInv, Took, Busy, Serves, T!Lost, Taken
  <2>2. ch'["t2"] = ch["t2"]
    BY <2>1 DEF Takes
  <2>3. Log("t1")' = Log("m") /\ Value("t1")' = Value("t1") /\ Busy("t1")' /\ Taken("t1")'
        /\ ~Shut("t1")'
    BY <1>4, <2>1 DEF TeeCopies, Took, Busy, Taken, Shut, Log, Value
  <2>4. QED
    BY <1>2, <2>1, <2>2, <2>3, <1>1 DEF TeeCopies, Busy, Shut, Log, Value, Taken
<1>5. CASE Took("t2")
  <2>1. Serves(2) /\ ~Serves(1) /\ T!Lost = 0 /\ ~Took("t1") /\ ~Taken("t2")
    BY <1>3, <1>5 DEF TeeCopies, TeeInv, Took, Busy, Serves, T!Lost, Taken
  <2>2. ch'["t1"] = ch["t1"]
    BY <2>1 DEF Takes
  <2>3. Log("t2")' = Log("m") /\ Value("t2")' = Value("t2") /\ Busy("t2")' /\ Taken("t2")'
        /\ ~Shut("t2")'
    BY <1>5, <2>1 DEF TeeCopies, Took, Busy, Taken, Shut, Log, Value
  <2>4. QED
    BY <1>2, <2>1, <2>2, <2>3, <1>1 DEF TeeCopies, Busy, Shut, Log, Value, Taken
<1>6. CASE ch'["t1"] = ch["t1"] /\ ch'["t2"] = ch["t2"]
  BY <1>1, <1>2, <1>6 DEF TeeCopies, Busy, Shut, Log, Value, Taken
<1>7. QED
  BY <1>4, <1>5, <1>6 DEF Takes

-------------------------------------------------------------------------------
\* A step of either batcher, from s to t, between the channels c and o: what
\* "full" means is left open.
Receives(s, t, c, o) ==
  LET r == Value(c)
      got == [s EXCEPT !.received = @ + 1]
      more == Append(s.buf, r.of)
  IN  /\ s.pc = "recv" /\ Ready(c)
      /\ \/ canceled /\ t = B!Discard(got, 1, "drain") /\ ch' = Take(ch, c)
         \/ ~canceled /\ r.ok /\ t = [got EXCEPT !.buf = more] /\ ch' = Take(ch, c)
         \/ /\ ~canceled /\ r.ok /\ t = [got EXCEPT !.buf = more, !.pc = "batch"]
            /\ ch' = Put(Take(ch, c), o, Ok(more))
         \/ /\ ~canceled /\ ~r.ok /\ s.buf # <<>> /\ t = [got EXCEPT !.cur = r, !.pc = "flush"]
            /\ ch' = Put(Take(ch, c), o, Ok(s.buf))
         \/ /\ ~canceled /\ ~r.ok /\ s.buf = <<>> /\ t = [got EXCEPT !.cur = r, !.pc = "error"]
            /\ ch' = Put(Take(ch, c), o, r)
HasSent(s, t, o) ==
  /\ Taken(o)
  /\ \/ s.pc = "batch" /\ t = [B!Emitted(s) EXCEPT !.pc = "recv"] /\ ch' = Clear(ch, o)
     \/ s.pc = "flush" /\ t = [B!Emitted(s) EXCEPT !.pc = "error"] /\ ch' = Put(Clear(ch, o), o, s.cur)
     \/ /\ s.pc = "error" /\ t = [s EXCEPT !.forwarded = @ + 1, !.cur = <<>>, !.pc = "recv"]
        /\ ch' = Clear(ch, o)
     \/ s.pc = "last" /\ t = [B!Emitted(s) EXCEPT !.pc = "exited"] /\ ch' = Close(Clear(ch, o), {o})
GivesUp(s, t, o) ==
  /\ canceled /\ ~Taken(o)
  /\ \/ s.pc = "batch" /\ t = B!Discard(s, 0, "drain") /\ ch' = Clear(ch, o)
     \/ s.pc \in {"flush", "error"} /\ t = B!Discard(s, 1, "drain") /\ ch' = Clear(ch, o)
     \/ /\ s.pc = "last" /\ t = [B!Discard(s, 0, "exited") EXCEPT !.ctxErr = TRUE]
        /\ ch' = Close(Clear(ch, o), {o})
Drains(s, t, c) ==
  /\ s.pc = "drain" /\ Ready(c)
  /\ t = [s EXCEPT !.received = @ + 1, !.dropped = @ + 1] /\ ch' = Take(ch, c)
MeetsEnd(s, t, c, o) ==
  /\ Shut(c)
  /\ \/ s.pc = "drain" /\ t = [s EXCEPT !.ctxErr = TRUE, !.pc = "exited"] /\ ch' = Close(ch, {o})
     \/ s.pc = "recv" /\ s.buf = <<>> /\ t = [s EXCEPT !.pc = "exited"] /\ ch' = Close(ch, {o})
     \/ s.pc = "recv" /\ s.buf # <<>> /\ t = [s EXCEPT !.pc = "last"] /\ ch' = Put(ch, o, Ok(s.buf))
BatcherMoves(s, t, c, o) ==
  Receives(s, t, c, o) \/ HasSent(s, t, o) \/ GivesUp(s, t, o) \/ Drains(s, t, c) \/ MeetsEnd(s, t, c, o)

\* The batcher takes the steps of a batcher.
LEMMA BatcherIsABatcher ==
  ASSUME B!Next
  PROVE  BatcherMoves(batcher, batcher', "t1", "b1") /\ canceled' = canceled
<1>1. CASE B!Receive
  BY <1>1 DEF B!Receive, BatcherMoves, Receives, B!Ready, Ready, B!Value, Value, B!Take, Take,
              B!Put, Put, B!Ok, Ok
<1>2. CASE B!Sent
  BY <1>2 DEF B!Sent, BatcherMoves, HasSent, B!Taken, Taken, B!Clear, Clear, B!Close, Close, B!Put, Put
<1>3. CASE B!Interrupted
  BY <1>3 DEF B!Interrupted, BatcherMoves, GivesUp, B!Taken, Taken, B!Clear, Clear, B!Close, Close
<1>4. CASE B!Drain
  BY <1>4 DEF B!Drain, BatcherMoves, Drains, B!Ready, Ready, B!Take, Take
<1>5. CASE B!SourceEnds
  BY <1>5 DEF B!SourceEnds, BatcherMoves, MeetsEnd, B!Shut, Shut, B!Close, Close, B!Put, Put, B!Ok, Ok
<1>6. QED
  BY <1>1, <1>2, <1>3, <1>4, <1>5, SMTT(40) DEF B!Next

\* So does the weighted batcher.
LEMMA WeightedIsABatcher ==
  ASSUME W!WNext
  PROVE  BatcherMoves(weighted, weighted', "t2", "b2") /\ canceled' = canceled
<1>1. CASE W!B!Receive
  BY <1>1 DEF W!B!Receive, BatcherMoves, Receives, W!B!Ready, Ready, W!B!Value, Value,
              W!B!Take, Take, W!B!Put, Put, W!B!Ok, Ok, W!B!Discard, B!Discard
<1>2. CASE W!B!Sent
  BY <1>2 DEF W!B!Sent, BatcherMoves, HasSent, W!B!Taken, Taken, W!B!Clear, Clear,
              W!B!Close, Close, W!B!Put, Put, W!B!Emitted, B!Emitted
<1>3. CASE W!B!Interrupted
  BY <1>3 DEF W!B!Interrupted, BatcherMoves, GivesUp, W!B!Taken, Taken, W!B!Clear, Clear,
              W!B!Close, Close, W!B!Discard, B!Discard
<1>4. CASE W!B!Drain
  BY <1>4 DEF W!B!Drain, BatcherMoves, Drains, W!B!Ready, Ready, W!B!Take, Take
<1>5. CASE W!B!SourceEnds
  BY <1>5 DEF W!B!SourceEnds, BatcherMoves, MeetsEnd, W!B!Shut, Shut, W!B!Close, Close,
              W!B!Put, Put, W!B!Ok, Ok
<1>6. QED
  BY <1>1, <1>2, <1>3, <1>4, <1>5, SMTT(40) DEF W!WNext, W!WReceive, W!WSent, W!WInterrupted

\* A batcher keeps its counters in balance.
LEMMA BatcherKeepsCounts ==
  ASSUME NEW s, NEW t, NEW c, NEW o, BatcherCounts(s, canceled), BatcherMoves(s, t, c, o),
         Ready(c) => Value(c) \in Results
  PROVE  BatcherCounts(t, canceled)
<1>1. /\ DOMAIN s = BatcherFields /\ s.buf \in Seq(Values) /\ Len(s.buf) \in Nat
      /\ (s.buf # <<>> <=> Len(s.buf) > 0) /\ Len(<<>>) = 0
      /\ <<>> \in Seq(Values)
      /\ s.received \in Nat /\ s.emitted \in Nat /\ s.forwarded \in Nat /\ s.dropped \in Nat
  BY EmptySeq DEF BatcherCounts
<1>2. CASE Receives(s, t, c, o)
  <2>1. s.pc = "recv" /\ Value(c) \in Results
    BY <1>2 DEF Receives
  <2>. DEFINE got == [s EXCEPT !.received = @ + 1]
              more == Append(s.buf, Value(c).of)
  <2>2. CASE canceled /\ t = B!Discard(got, 1, "drain")
    BY <1>1, <2>1, <2>2 DEF BatcherCounts, B!Discard, BatcherFields, One
  <2>3. more \in Seq(Values) /\ more # <<>> /\ Len(more) = Len(s.buf) + 1
    <3>1. Value(c).of \in Values
      BY <2>1 DEF Results
    <3>2. more \in Seq(Values) /\ Len(more) = Len(s.buf) + 1
      BY <1>1, <3>1, AppendProperties
    <3>. HIDE DEF more
    <3>3. QED
      BY <3>2, <1>1
  <2>. HIDE DEF more
  <2>4. CASE ~canceled /\ t = [got EXCEPT !.buf = more]
    BY <1>1, <2>1, <2>3, <2>4 DEF BatcherCounts, BatcherFields, One
  <2>5. CASE ~canceled /\ t = [got EXCEPT !.buf = more, !.pc = "batch"]
    BY <1>1, <2>1, <2>3, <2>5 DEF BatcherCounts, BatcherFields, One
  <2>6. CASE ~canceled /\ ~Value(c).ok /\ s.buf # <<>>
             /\ t = [got EXCEPT !.cur = Value(c), !.pc = "flush"]
    BY <1>1, <2>1, <2>6 DEF BatcherCounts, BatcherFields, One
  <2>7. CASE ~canceled /\ ~Value(c).ok /\ s.buf = <<>>
             /\ t = [got EXCEPT !.cur = Value(c), !.pc = "error"]
    <3>1. /\ DOMAIN t = BatcherFields /\ t.pc = "error" /\ t.cur = Value(c)
          /\ t.received = s.received + 1 /\ t.emitted = s.emitted /\ t.dropped = s.dropped
          /\ t.forwarded = s.forwarded /\ t.ctxErr = s.ctxErr /\ t.buf = s.buf
      BY <1>1, <2>7 DEF BatcherFields
    <3>2. /\ Len(t.buf) = 0 /\ Len(s.buf) = 0 /\ ~(s.dropped > 0) /\ ~s.ctxErr
          /\ s.received = s.emitted + s.forwarded + s.dropped + Len(s.buf)
      BY <1>1, <2>1, <2>7, <3>1 DEF BatcherCounts, One
    <3>3. t.buf = <<>> /\ ~t.cur.ok /\ t.cur \in Results /\ canceled = canceled
      BY <2>1, <2>7, <3>1
    <3>4. t.received = t.emitted + t.forwarded + t.dropped + Len(t.buf) + 1
      BY <1>1, <3>1, <3>2
    <3>. HIDE <2>7
    <3>5. QED
      BY <1>1, <3>1, <3>2, <3>3, <3>4 DEF BatcherCounts, One
  <2>8. QED
    BY <1>2, <2>2, <2>4, <2>5, <2>6, <2>7 DEF Receives, more
<1>3. CASE HasSent(s, t, o)
  <2>1. CASE s.pc = "batch" /\ t = [B!Emitted(s) EXCEPT !.pc = "recv"]
    BY <1>1, <2>1 DEF BatcherCounts, B!Emitted, BatcherFields, One
  <2>2. CASE s.pc = "flush" /\ t = [B!Emitted(s) EXCEPT !.pc = "error"]
    BY <1>1, <2>2 DEF BatcherCounts, B!Emitted, BatcherFields, One
  <2>3. CASE s.pc = "error" /\ t = [s EXCEPT !.forwarded = @ + 1, !.cur = <<>>, !.pc = "recv"]
    BY <1>1, <2>3 DEF BatcherCounts, BatcherFields, One
  <2>4. CASE s.pc = "last" /\ t = [B!Emitted(s) EXCEPT !.pc = "exited"]
    BY <1>1, <2>4 DEF BatcherCounts, B!Emitted, BatcherFields, One
  <2>5. QED
    BY <1>3, <2>1, <2>2, <2>3, <2>4 DEF HasSent
<1>4. CASE GivesUp(s, t, o)
  <2>1. CASE canceled /\ s.pc = "batch" /\ t = B!Discard(s, 0, "drain")
    BY <1>1, <2>1 DEF BatcherCounts, B!Discard, BatcherFields, One
  <2>2. CASE canceled /\ s.pc \in {"flush", "error"} /\ t = B!Discard(s, 1, "drain")
    BY <1>1, <2>2 DEF BatcherCounts, B!Discard, BatcherFields, One
  <2>3. CASE canceled /\ s.pc = "last" /\ t = [B!Discard(s, 0, "exited") EXCEPT !.ctxErr = TRUE]
    BY <1>1, <2>3 DEF BatcherCounts, B!Discard, BatcherFields, One
  <2>4. QED
    BY <1>4, <2>1, <2>2, <2>3 DEF GivesUp
<1>5. CASE Drains(s, t, c)
  BY <1>1, <1>5 DEF Drains, BatcherCounts, BatcherFields, One
<1>6. CASE MeetsEnd(s, t, c, o)
  <2>1. CASE s.pc = "drain" /\ t = [s EXCEPT !.ctxErr = TRUE, !.pc = "exited"]
    BY <1>1, <2>1 DEF BatcherCounts, BatcherFields, One
  <2>2. CASE s.pc = "recv" /\ s.buf = <<>> /\ t = [s EXCEPT !.pc = "exited"]
    <3>1. /\ DOMAIN t = BatcherFields /\ t.pc = "exited"
          /\ t.received = s.received /\ t.emitted = s.emitted /\ t.dropped = s.dropped
          /\ t.forwarded = s.forwarded /\ t.ctxErr = s.ctxErr /\ t.buf = s.buf
      BY <1>1, <2>2 DEF BatcherFields
    <3>2. Len(t.buf) = 0 /\ Len(s.buf) = 0 /\ ~(s.dropped > 0) /\ ~s.ctxErr
      BY <1>1, <2>2, <3>1 DEF BatcherCounts
    <3>3. QED
      BY <1>1, <2>2, <3>1, <3>2 DEF BatcherCounts, One
  <2>3. CASE s.pc = "recv" /\ s.buf # <<>> /\ t = [s EXCEPT !.pc = "last"]
    BY <1>1, <2>3 DEF BatcherCounts, BatcherFields, One
  <2>4. QED
    BY <1>6, <2>1, <2>2, <2>3 DEF MeetsEnd
<1>7. QED
  BY <1>2, <1>3, <1>4, <1>5, <1>6 DEF BatcherMoves

\* One result more is one item more.
LEMMA ItemsAppend ==
  ASSUME NEW log \in Seq(Results), NEW r \in Results
  PROVE  /\ Items(log) \in Seq(Values) /\ r.of \in Values
         /\ Items(Append(log, r)) = Append(Items(log), r.of)
<1>1. r.of \in Values /\ \A k \in 1..Len(log) : log[k].of \in Values
  <2>1. \A x \in Results : x.of \in Values
    BY DEF Results
  <2>2. \A k \in 1..Len(log) : log[k] \in Results
    OBVIOUS
  <2>3. QED
    BY <2>1, <2>2
<1>2. Items(log) \in Seq(Values) /\ Len(Items(log)) = Len(log)
  BY <1>1 DEF Items
<1>3. Items(Append(log, r)) \in Seq(Values) /\ Len(Items(Append(log, r))) = Len(log) + 1
  <2>1. Append(log, r) \in Seq(Results) /\ Len(Append(log, r)) = Len(log) + 1
    OBVIOUS
  <2>2. \A k \in 1..Len(Append(log, r)) : Append(log, r)[k].of \in Values
    <3>1. \A x \in Results : x.of \in Values
      BY DEF Results
    <3>2. \A k \in 1..Len(Append(log, r)) : Append(log, r)[k] \in Results
      BY <2>1
    <3>3. QED
      BY <3>1, <3>2
  <2>3. QED
    BY <2>1, <2>2 DEF Items
<1>4. Append(Items(log), r.of) \in Seq(Values) /\ Len(Append(Items(log), r.of)) = Len(log) + 1
  BY <1>1, <1>2
<1>5. ASSUME NEW k \in 1..(Len(log) + 1)
      PROVE  Items(Append(log, r))[k] = Append(Items(log), r.of)[k]
  BY <1>1, <1>2 DEF Items
<1>6. QED
  BY <1>1, <1>2, <1>3, <1>4, <1>5, SeqEqual

Piece(v) == IF v.ok THEN v.of ELSE <<v.of>>
Pieces(log) == [k \in DOMAIN log |-> Piece(log[k])]

\* One batch or error more on the output: its items go to the end.
LEMMA UnbatchAppend ==
  ASSUME NEW log \in Seq(BatchResults), NEW v \in BatchResults, Unbatch(log) \in Seq(Values)
  PROVE  Piece(v) \in Seq(Values) /\ Unbatch(Append(log, v)) = Unbatch(log) \o Piece(v)
<1>1. \A x \in BatchResults : Piece(x) \in Seq(Values)
  <2>1. \A x \in [ok : {TRUE}, of : Seq(Values)] : Piece(x) \in Seq(Values)
    BY DEF Piece
  <2>2. ASSUME NEW x \in [ok : {FALSE}, of : Values]
        PROVE  Piece(x) \in Seq(Values)
    <3>1. Piece(x) = <<x.of>> /\ x.of \in Values
      BY DEF Piece
    <3>2. QED
      BY <3>1
  <2>3. QED
    BY <2>1, <2>2 DEF BatchResults
<1>2. Pieces(log) \in Seq(Seq(Values)) /\ Len(Pieces(log)) = Len(log)
  <2>. DEFINE Runs == Seq(Values)
  <2>1. \A k \in 1..Len(log) : Piece(log[k]) \in Runs
    BY <1>1
  <2>. HIDE DEF Runs
  <2>2. Pieces(log) \in Seq(Runs) /\ Len(Pieces(log)) = Len(log)
    BY <2>1 DEF Pieces
  <2>3. QED
    BY <2>2 DEF Runs
<1>3. Pieces(Append(log, v)) = Append(Pieces(log), Piece(v))
  <2>. DEFINE Runs == Seq(Values)
  <2>1. \A x \in BatchResults : Piece(x) \in Runs
    BY <1>1
  <2>2. Pieces(log) \in Seq(Runs) /\ Len(Pieces(log)) = Len(log)
    BY <1>2
  <2>3. /\ Append(log, v) \in Seq(BatchResults) /\ Len(Append(log, v)) = Len(log) + 1
    OBVIOUS
  <2>. HIDE DEF Runs
  <2>4. Pieces(Append(log, v)) \in Seq(Runs) /\ Len(Pieces(Append(log, v))) = Len(log) + 1
    BY <2>1, <2>3 DEF Pieces
  <2>5. Append(Pieces(log), Piece(v)) \in Seq(Runs)
        /\ Len(Append(Pieces(log), Piece(v))) = Len(log) + 1
    BY <2>1, <2>2
  <2>6. ASSUME NEW k \in 1..(Len(log) + 1)
        PROVE  Pieces(Append(log, v))[k] = Append(Pieces(log), Piece(v))[k]
    <3>1. Pieces(Append(log, v))[k] = Piece(Append(log, v)[k])
      BY <2>3 DEF Pieces
    <3>2. CASE k = Len(log) + 1
      BY <2>1, <2>2, <3>1, <3>2
    <3>3. CASE k # Len(log) + 1
      <4>1. k \in 1..Len(log)
        BY <3>3
      <4>2. Append(log, v)[k] = log[k] /\ Append(Pieces(log), Piece(v))[k] = Pieces(log)[k]
        BY <2>1, <2>2, <4>1
      <4>3. QED
        BY <3>1, <4>1, <4>2 DEF Pieces
    <3>4. QED
      BY <3>2, <3>3
  <2>7. QED
    BY <2>4, <2>5, <2>6, SeqEqual
<1>4. \A l : Unbatch(l) = FlattenSeq(Pieces(l))
  BY DEF Unbatch, Pieces, Piece
<1>5. QED
  BY <1>1, <1>2, <1>3, <1>4, FlattenAppend

\* Sequences of items, put together in one way or another.
LEMMA Regroup ==
  ASSUME NEW s \in Seq(Values), NEW t \in Seq(Values), NEW v \in Values
  PROVE  /\ s \o <<>> = s /\ s \o t \in Seq(Values) /\ Append(t, v) \in Seq(Values)
         /\ s \o Append(t, v) = Append(s \o t, v)
         /\ s \o Append(t, v) = (s \o t) \o <<v>>
         /\ s \o <<v>> = Append(s, v)
<1>1. \A u \in Seq(Values) : Append(u, v) = u \o <<v>>
  BY AppendIsConcat
<1>2. <<v>> \in Seq(Values)
  OBVIOUS
<1>3. (s \o t) \o <<v>> = s \o (t \o <<v>>)
  BY <1>2, ConcatAssociative
<1>4. s \o t \in Seq(Values) /\ Append(t, v) \in Seq(Values) /\ s \o <<>> = s
  BY ConcatProperties, ConcatEmptySeq, AppendProperties
<1>5. QED
  BY <1>1, <1>3, <1>4

\* A batcher keeps the items in order, whichever channels it is between.
LEMMA BatcherKeepsOrder ==
  ASSUME ChannelsOk, NEW c \in {"t1", "t2"}, NEW o \in {"b1", "b2"}, NEW s, NEW t,
         BatcherCounts(s, canceled), BatcherSends(s, ch[o]), BatcherOrder(s, ch[o], Log(c)),
         BatcherMoves(s, t, c, o)
  PROVE  /\ Acts({c}, {o})
         /\ BatcherSends(t, ch'[o]) /\ BatcherOrder(t, ch'[o], ch'[c].log)
<1>1. /\ Shaped(ch) /\ c \in Names /\ o \in Names /\ c # o
      /\ ch[o].st \in {"idle", "offer", "taken", "closed"}
      /\ Log(c) \in Seq(Results) /\ ch[o].log \in Seq(BatchResults)
      /\ (Ready(c) => Value(c) \in Results)
      /\ Carries(o) = BatchResults
  BY DEF ChannelsOk, Shaped, Names, Carries, ItemChannels, Log, Value, Ready
<1>. DEFINE U == Unbatch(ch[o].log)
            I == Items(Log(c))
            r == Value(c)
            got == [s EXCEPT !.received = @ + 1]
            more == Append(s.buf, r.of)
<1>2. /\ U \in Seq(Values) /\ I \in Seq(Values) /\ s.buf \in Seq(Values) /\ <<>> \in Seq(Values)
      /\ (Ready(c) => /\ r.of \in Values /\ Append(I, r.of) \in Seq(Values)
                      /\ Items(Append(Log(c), r)) = Append(I, r.of))
  <2>2. I \in Seq(Values)
    <3>1. \A x \in Results : x.of \in Values
      BY DEF Results
    <3>2. \A k \in 1..Len(Log(c)) : Log(c)[k] \in Results
      BY <1>1
    <3>3. QED
      BY <1>1, <3>1, <3>2 DEF Items
  <2>3. Ready(c) => /\ r.of \in Values /\ Items(Append(Log(c), r)) = Append(I, r.of)
    BY <1>1, ItemsAppend
  <2>. HIDE DEF I
  <2>4. Ready(c) => Append(I, r.of) \in Seq(Values)
    BY <2>2, <2>3
  <2>5. QED
    BY <2>2, <2>3, <2>4, EmptySeq DEF BatcherOrder, BatcherCounts
<1>3. DOMAIN s = BatcherFields
  BY DEF BatcherCounts
<1>4. /\ s.dropped \in Nat
      /\ (s.dropped = 0 => I = U \o Pending(s, ch[o]))
      /\ (s.dropped > 0 => IsPrefix(U, I))
  BY DEF BatcherOrder, BatcherCounts
<1>5. ASSUME ch'[o].log = ch[o].log,
             t.dropped = 0 => Items(ch'[c].log) = U \o Pending(t, ch'[o]),
             t.dropped > 0 => IsPrefix(U, Items(ch'[c].log))
      PROVE  BatcherOrder(t, ch'[o], ch'[c].log)
  BY <1>5 DEF BatcherOrder
<1>. HIDE DEF U, I, r, got, more
<1>6. CASE Receives(s, t, c, o)
  <2>1. /\ s.pc = "recv" /\ Ready(c) /\ s.dropped = 0 /\ ch[o].st = "idle"
        /\ Pending(s, ch[o]) = s.buf /\ r \in Results /\ r.of \in Values
    BY <1>1, <1>2, <1>4, <1>6 DEF Receives, BatcherCounts, BatcherSends, Pending, r
  <2>2. /\ I = U \o s.buf
        /\ Append(I, r.of) = U \o more /\ more \in Seq(Values) /\ more # <<>>
        /\ IsPrefix(U, Append(I, r.of))
    <3>1. I = U \o s.buf
      BY <1>4, <2>1
    <3>2. Append(I, r.of) = U \o more /\ more \in Seq(Values)
      <4>1. U \in Seq(Values) /\ s.buf \in Seq(Values) /\ r.of \in Values
        BY <1>2, <2>1
      <4>2. U \o Append(s.buf, r.of) = Append(U \o s.buf, r.of) /\ Append(s.buf, r.of) \in Seq(Values)
        BY <4>1, Regroup
      <4>3. QED
        BY <4>2, <3>1 DEF more
    <3>3. more # <<>>
      BY <1>2, <2>1, AppendProperties DEF more
    <3>4. QED
      BY <1>2, <3>1, <3>2, <3>3, PrefixConcat
  <2>3. ASSUME ch' = Take(ch, c)
        PROVE  /\ Acts({c}, {o}) /\ ch'[o] = ch[o] /\ ch'[c].log = Append(Log(c), r)
               /\ Items(ch'[c].log) = Append(I, r.of)
    <3>1. Shaped(ch') /\ Took(c) /\ OnlyOn({c})
      BY <1>1, <2>1, <2>3, TakeDoes
    <3>2. ch'[c].log = Append(Log(c), r)
      BY <3>1 DEF Took, Log, Value, r
    <3>3. QED
      BY <1>1, <1>2, <2>1, <3>1, <3>2 DEF Acts, Takes, Sends, OnlyOn
  <2>4. ASSUME NEW v \in BatchResults, ch' = Put(Take(ch, c), o, v)
        PROVE  /\ Acts({c}, {o}) /\ ch'[o].st = "offer" /\ ch'[o].val = v
               /\ ch'[o].log = ch[o].log /\ ch'[c].log = Append(Log(c), r)
               /\ Items(ch'[c].log) = Append(I, r.of)
    <3>1. Shaped(ch') /\ Took(c) /\ Offered(o, v) /\ OnlyOn({c, o})
      BY <1>1, <2>1, <2>4, TakePutDoes
    <3>2. ch'[c].log = Append(Log(c), r)
      BY <3>1 DEF Took, Log, Value, r
    <3>3. QED
      BY <1>1, <1>2, <2>1, <2>4, <3>1, <3>2 DEF Acts, Takes, Sends, OnlyOn, Offered
  <2>5. CASE canceled /\ t = B!Discard(got, 1, "drain") /\ ch' = Take(ch, c)
    <3>1. t.pc = "drain" /\ t.dropped = s.dropped + 1 + Len(s.buf) /\ Len(s.buf) \in Nat
      BY <1>2, <1>3, <2>5 DEF B!Discard, BatcherFields, got
    <3>2. t.dropped # 0
      BY <1>4, <3>1
    <3>3. BatcherSends(t, ch'[o])
      BY <2>1, <2>3, <2>5, <3>1 DEF BatcherSends
    <3>4. QED
      BY <1>5, <2>2, <2>3, <2>5, <3>2, <3>3
  <2>6. CASE ~canceled /\ t = [got EXCEPT !.buf = more] /\ ch' = Take(ch, c)
    <3>1. t.pc = "recv" /\ t.dropped = 0 /\ t.buf = more
      BY <1>3, <2>1, <2>6 DEF BatcherFields, got
    <3>2. Pending(t, ch'[o]) = more
      BY <3>1 DEF Pending
    <3>3. BatcherSends(t, ch'[o])
      BY <2>1, <2>3, <2>6, <3>1 DEF BatcherSends
    <3>4. QED
      BY <1>5, <2>2, <2>3, <2>6, <3>1, <3>2, <3>3
  <2>7. CASE /\ ~canceled /\ t = [got EXCEPT !.buf = more, !.pc = "batch"]
             /\ ch' = Put(Take(ch, c), o, Ok(more))
    <3>1. t.pc = "batch" /\ t.dropped = 0 /\ t.buf = more
      BY <1>3, <2>1, <2>7 DEF BatcherFields, got
    <3>2. Ok(more) \in BatchResults
      BY <2>2 DEF Ok, BatchResults
    <3>3. BatcherSends(t, ch'[o]) /\ Pending(t, ch'[o]) = more
      BY <2>4, <2>7, <3>1, <3>2 DEF BatcherSends, Pending
    <3>4. QED
      BY <1>5, <2>2, <2>4, <2>7, <3>1, <3>2, <3>3
  <2>8. CASE /\ ~canceled /\ ~r.ok /\ s.buf # <<>>
             /\ t = [got EXCEPT !.cur = r, !.pc = "flush"]
             /\ ch' = Put(Take(ch, c), o, Ok(s.buf))
    <3>1. t.pc = "flush" /\ t.dropped = 0 /\ t.buf = s.buf /\ t.cur = r
      BY <1>3, <2>1, <2>8 DEF BatcherFields, got
    <3>2. Ok(s.buf) \in BatchResults
      BY <1>2 DEF Ok, BatchResults
    <3>3. BatcherSends(t, ch'[o]) /\ Pending(t, ch'[o]) = more
      BY <2>4, <2>8, <3>1, <3>2 DEF BatcherSends, Pending, more
    <3>4. QED
      BY <1>5, <2>2, <2>4, <2>8, <3>1, <3>2, <3>3
  <2>9. CASE /\ ~canceled /\ ~r.ok /\ s.buf = <<>>
             /\ t = [got EXCEPT !.cur = r, !.pc = "error"]
             /\ ch' = Put(Take(ch, c), o, r)
    <3>1. t.pc = "error" /\ t.dropped = 0 /\ t.cur = r
      BY <1>3, <2>1, <2>9 DEF BatcherFields, got
    <3>2. r \in BatchResults
      BY <2>1, <2>9 DEF Results, BatchResults
    <3>3. more = <<r.of>>
      BY <1>2, <2>1, <2>9 DEF more
    <3>4. BatcherSends(t, ch'[o]) /\ Pending(t, ch'[o]) = more
      BY <2>4, <2>9, <3>1, <3>2, <3>3 DEF BatcherSends, Pending
    <3>5. QED
      BY <1>5, <2>2, <2>4, <2>9, <3>1, <3>2, <3>4
  <2>10. QED
    BY <1>6, <2>5, <2>6, <2>7, <2>8, <2>9 DEF Receives, got, more, r
\* The source stays as it is.
<1>7. ASSUME OnlyOn({o}), Shaped(ch'), ch'[o].log = ch[o].log, ch[o].st # "closed",
             ch'[o].st \in {"idle", "closed"} \/ (ch'[o].st = "offer" /\ ch'[o].val \in BatchResults)
      PROVE  Acts({c}, {o}) /\ ch'[c].log = Log(c) /\ Items(ch'[c].log) = I
  <2>1. ch'[c] = ch[c]
    BY <1>1, <1>7 DEF OnlyOn
  <2>2. QED
    BY <1>1, <1>7, <2>1 DEF Acts, Takes, Sends, OnlyOn, Log, I
<1>8. CASE HasSent(s, t, o)
  <2>1. /\ s.pc \in {"batch", "flush", "error", "last"} /\ ch[o].st = "taken" /\ s.dropped = 0
        /\ I = U \o Pending(s, ch[o])
    BY <1>4, <1>8 DEF HasSent, BatcherCounts, Taken
  <2>2. CASE /\ s.pc \in {"batch", "error"} /\ t.pc = "recv" /\ t.dropped = s.dropped
             /\ t.buf = <<>> /\ ch' = Clear(ch, o)
    <3>1. Shaped(ch') /\ Cleared(o) /\ OnlyOn({o})
      BY <1>1, <2>2, ClearDoes
    <3>2. Acts({c}, {o}) /\ ch'[c].log = Log(c) /\ Items(ch'[c].log) = I
      BY <1>7, <2>1, <3>1 DEF Cleared
    <3>3. Pending(t, ch'[o]) = Pending(s, ch[o])
      BY <2>1, <2>2 DEF Pending
    <3>4. BatcherSends(t, ch'[o])
      BY <2>2, <3>1 DEF BatcherSends, Cleared
    <3>5. QED
      BY <1>4, <1>5, <2>1, <2>2, <3>1, <3>2, <3>3, <3>4 DEF Cleared
  <2>3. CASE s.pc = "batch" /\ t = [B!Emitted(s) EXCEPT !.pc = "recv"] /\ ch' = Clear(ch, o)
    <3>1. t.pc = "recv" /\ t.dropped = s.dropped /\ t.buf = <<>>
      BY <1>3, <2>3 DEF BatcherFields, B!Emitted
    <3>2. QED
      BY <2>2, <2>3, <3>1
  <2>4. CASE /\ s.pc = "error" /\ t = [s EXCEPT !.forwarded = @ + 1, !.cur = <<>>, !.pc = "recv"]
             /\ ch' = Clear(ch, o)
    <3>1. t.pc = "recv" /\ t.dropped = s.dropped /\ t.buf = s.buf /\ s.buf = <<>>
      BY <1>3, <2>4 DEF BatcherFields, BatcherCounts
    <3>2. QED
      BY <2>2, <2>4, <3>1
  <2>5. CASE /\ s.pc = "flush" /\ t = [B!Emitted(s) EXCEPT !.pc = "error"]
             /\ ch' = Put(Clear(ch, o), o, s.cur)
    <3>1. t.pc = "error" /\ t.dropped = s.dropped /\ t.cur = s.cur
      BY <1>3, <2>5 DEF BatcherFields, B!Emitted
    <3>2. s.cur \in BatchResults
      BY <2>5 DEF BatcherCounts, Results, BatchResults
    <3>3. Shaped(ch') /\ Offered(o, s.cur) /\ OnlyOn({o})
      BY <1>1, <2>5, ClearPutDoes
    <3>4. Acts({c}, {o}) /\ ch'[c].log = Log(c) /\ Items(ch'[c].log) = I
      BY <1>7, <2>1, <3>2, <3>3 DEF Offered
    <3>5. Pending(t, ch'[o]) = Pending(s, ch[o])
      BY <2>1, <2>5, <3>1, <3>3 DEF Pending, Offered
    <3>6. BatcherSends(t, ch'[o])
      BY <3>1, <3>3 DEF BatcherSends, Offered
    <3>7. QED
      BY <1>4, <1>5, <2>1, <3>1, <3>3, <3>4, <3>5, <3>6 DEF Offered
  <2>6. CASE /\ s.pc = "last" /\ t = [B!Emitted(s) EXCEPT !.pc = "exited"]
             /\ ch' = Close(Clear(ch, o), {o})
    <3>1. t.pc = "exited" /\ t.dropped = s.dropped /\ t.buf = <<>>
      BY <1>3, <2>6 DEF BatcherFields, B!Emitted
    <3>2. Shaped(ch') /\ Closed(o) /\ OnlyOn({o})
      BY <1>1, <2>6, ClearCloseDoes
    <3>3. Acts({c}, {o}) /\ ch'[c].log = Log(c) /\ Items(ch'[c].log) = I
      BY <1>7, <2>1, <3>2 DEF Closed
    <3>4. Pending(t, ch'[o]) = Pending(s, ch[o])
      BY <2>1, <2>6, <3>1 DEF Pending
    <3>5. BatcherSends(t, ch'[o])
      BY <3>1, <3>2 DEF BatcherSends, Closed
    <3>6. QED
      BY <1>4, <1>5, <2>1, <3>1, <3>2, <3>3, <3>4, <3>5 DEF Closed
  <2>7. QED
    BY <1>8, <2>3, <2>4, <2>5, <2>6 DEF HasSent
<1>9. CASE GivesUp(s, t, o)
  <2>1. /\ s.pc \in {"batch", "flush", "error", "last"} /\ ch[o].st = "offer" /\ s.dropped = 0
        /\ I = U \o Pending(s, ch[o])
    BY <1>4, <1>9 DEF GivesUp, BatcherCounts, BatcherSends, Taken
  <2>2. IsPrefix(U, I)
    <3>1. Pending(s, ch[o]) \in Seq(Values)
      <4>1. s.pc \in {"flush", "error"} => s.cur.of \in Values
        BY DEF BatcherCounts, Results
      <4>2. QED
        BY <1>2, <2>1, <4>1 DEF Pending
    <3>2. QED
      BY <1>2, <2>1, <3>1, PrefixConcat
  <2>3. CASE /\ t.pc = "drain" /\ t.dropped # 0 /\ ch' = Clear(ch, o)
    <3>1. Shaped(ch') /\ Cleared(o) /\ OnlyOn({o})
      BY <1>1, <2>3, ClearDoes
    <3>2. Acts({c}, {o}) /\ ch'[c].log = Log(c) /\ Items(ch'[c].log) = I
      BY <1>7, <2>1, <3>1 DEF Cleared
    <3>3. BatcherSends(t, ch'[o])
      BY <2>3, <3>1 DEF BatcherSends, Cleared
    <3>4. QED
      BY <1>5, <2>2, <2>3, <3>1, <3>2, <3>3 DEF Cleared
  <2>4. CASE s.pc = "batch" /\ t = B!Discard(s, 0, "drain") /\ ch' = Clear(ch, o)
    <3>1. t.pc = "drain" /\ t.dropped = s.dropped + 0 + Len(s.buf)
      BY <1>3, <2>4 DEF BatcherFields, B!Discard
    <3>2. Len(s.buf) \in Nat /\ Len(s.buf) # 0
      BY <1>2, <2>4 DEF BatcherCounts
    <3>3. QED
      BY <2>1, <2>3, <2>4, <3>1, <3>2
  <2>5. CASE s.pc \in {"flush", "error"} /\ t = B!Discard(s, 1, "drain") /\ ch' = Clear(ch, o)
    <3>1. t.pc = "drain" /\ t.dropped = s.dropped + 1 + Len(s.buf)
      BY <1>3, <2>5 DEF BatcherFields, B!Discard
    <3>2. Len(s.buf) \in Nat
      BY <1>2
    <3>3. QED
      BY <2>1, <2>3, <2>5, <3>1, <3>2
  <2>6. CASE /\ s.pc = "last" /\ t = [B!Discard(s, 0, "exited") EXCEPT !.ctxErr = TRUE]
             /\ ch' = Close(Clear(ch, o), {o})
    <3>1. t.pc = "exited" /\ t.dropped = s.dropped + 0 + Len(s.buf)
      BY <1>3, <2>6 DEF BatcherFields, B!Discard
    <3>2. Len(s.buf) \in Nat /\ Len(s.buf) # 0
      BY <1>2, <2>6 DEF BatcherCounts
    <3>3. t.dropped # 0
      BY <2>1, <3>1, <3>2
    <3>4. Shaped(ch') /\ Closed(o) /\ OnlyOn({o})
      BY <1>1, <2>6, ClearCloseDoes
    <3>5. Acts({c}, {o}) /\ ch'[c].log = Log(c) /\ Items(ch'[c].log) = I
      BY <1>7, <2>1, <3>4 DEF Closed
    <3>6. BatcherSends(t, ch'[o])
      BY <3>1, <3>4 DEF BatcherSends, Closed
    <3>7. QED
      BY <1>5, <2>2, <3>3, <3>4, <3>5, <3>6 DEF Closed
  <2>7. QED
    BY <1>9, <2>4, <2>5, <2>6 DEF GivesUp
<1>10. CASE Drains(s, t, c)
  <2>1. /\ s.pc = "drain" /\ t.pc = "drain" /\ t.dropped = s.dropped + 1 /\ s.dropped > 0
        /\ Ready(c) /\ ch' = Take(ch, c) /\ ch[o].st = "idle"
    BY <1>1, <1>3, <1>10 DEF Drains, BatcherFields, BatcherCounts, BatcherSends
  <2>2. Shaped(ch') /\ Took(c) /\ OnlyOn({c})
    BY <1>1, <2>1, TakeDoes
  <2>3. /\ ch'[c].log = Append(Log(c), r) /\ Items(ch'[c].log) = Append(I, r.of)
        /\ Acts({c}, {o}) /\ ch'[o] = ch[o]
    <3>1. ch'[c].log = Append(Log(c), r)
      BY <2>2 DEF Took, Log, Value, r
    <3>2. QED
      BY <1>1, <1>2, <2>1, <2>2, <3>1 DEF Acts, Takes, Sends, OnlyOn
  <2>4. IsPrefix(U, Append(I, r.of))
    BY <1>2, <1>4, <2>1, PrefixAppend
  <2>5. BatcherSends(t, ch'[o])
    BY <2>1, <2>3 DEF BatcherSends
  <2>6. t.dropped # 0
    BY <1>4, <2>1
  <2>7. QED
    BY <1>5, <2>3, <2>4, <2>5, <2>6
<1>11. CASE MeetsEnd(s, t, c, o)
  <2>1. s.pc \in {"recv", "drain"} /\ ch[o].st = "idle" /\ Pending(s, ch[o]) = s.buf
    BY <1>1, <1>11 DEF MeetsEnd, BatcherSends, Pending
  <2>2. CASE t.pc = "exited" /\ t.dropped = s.dropped /\ t.buf = s.buf /\ ch' = Close(ch, {o})
    <3>1. Shaped(ch') /\ Closed(o) /\ OnlyOn({o})
      BY <1>1, <2>2, CloseDoes
    <3>2. Acts({c}, {o}) /\ ch'[c].log = Log(c) /\ Items(ch'[c].log) = I
      BY <1>7, <2>1, <3>1 DEF Closed
    <3>3. BatcherSends(t, ch'[o])
      BY <2>2, <3>1 DEF BatcherSends, Closed
    <3>4. Pending(t, ch'[o]) = s.buf
      BY <2>2 DEF Pending
    <3>5. QED
      BY <1>4, <1>5, <2>1, <2>2, <3>1, <3>2, <3>3, <3>4 DEF Closed
  <2>3. CASE s.pc = "drain" /\ t = [s EXCEPT !.ctxErr = TRUE, !.pc = "exited"] /\ ch' = Close(ch, {o})
    BY <1>3, <2>2, <2>3 DEF BatcherFields
  <2>4. CASE s.pc = "recv" /\ s.buf = <<>> /\ t = [s EXCEPT !.pc = "exited"] /\ ch' = Close(ch, {o})
    BY <1>3, <2>2, <2>4 DEF BatcherFields
  <2>5. CASE s.pc = "recv" /\ s.buf # <<>> /\ t = [s EXCEPT !.pc = "last"] /\ ch' = Put(ch, o, Ok(s.buf))
    <3>1. t.pc = "last" /\ t.dropped = s.dropped /\ t.buf = s.buf
      BY <1>3, <2>5 DEF BatcherFields
    <3>2. Ok(s.buf) \in BatchResults
      BY <1>2 DEF Ok, BatchResults
    <3>3. Shaped(ch') /\ Offered(o, Ok(s.buf)) /\ OnlyOn({o})
      BY <1>1, <2>5, PutDoes
    <3>4. Acts({c}, {o}) /\ ch'[c].log = Log(c) /\ Items(ch'[c].log) = I
      BY <1>7, <2>1, <3>2, <3>3 DEF Offered
    <3>5. BatcherSends(t, ch'[o]) /\ Pending(t, ch'[o]) = s.buf
      BY <3>1, <3>3 DEF BatcherSends, Offered, Pending
    <3>6. QED
      BY <1>4, <1>5, <2>1, <3>1, <3>3, <3>4, <3>5 DEF Offered
  <2>6. QED
    BY <1>11, <2>3, <2>4, <2>5 DEF MeetsEnd
<1>12. QED
  BY <1>6, <1>8, <1>9, <1>10, <1>11 DEF BatcherMoves

\* The consumer takes what is offered, or somebody else moves.
LEMMA BatcherKept ==
  ASSUME ChannelsOk, NEW o \in {"b1", "b2"}, NEW s, NEW log \in Seq(Results),
         BatcherCounts(s, canceled), BatcherSends(s, ch[o]), BatcherOrder(s, ch[o], log),
         canceled => canceled', Takes(o)
  PROVE  /\ BatcherCounts(s, canceled') /\ BatcherSends(s, ch'[o])
         /\ BatcherOrder(s, ch'[o], log)
<1>1. BatcherCounts(s, canceled')
  BY DEF BatcherCounts
<1>2. CASE ch'[o] = ch[o]
  BY <1>1, <1>2
<1>3. CASE Took(o)
  <2>. DEFINE l == ch[o].log
              v == ch[o].val
  <2>1. /\ s.pc \in {"batch", "flush", "error", "last"} /\ s.dropped = 0 /\ s.dropped \in Nat
        /\ s.buf \in Seq(Values) /\ ch[o].st = "offer"
        /\ v = (IF s.pc = "error" THEN s.cur ELSE Ok(s.buf))
        /\ Items(log) = Unbatch(l) \o Pending(s, ch[o])
        /\ Unbatch(l) \in Seq(Values)
    BY <1>3 DEF BatcherSends, BatcherCounts, BatcherOrder, Took
  <2>2. /\ l \in Seq(BatchResults) /\ v \in BatchResults /\ Append(l, v) \in Seq(BatchResults)
    BY <2>1 DEF ChannelsOk, Names, Carries, ItemChannels
  <2>3. ch'[o].log = Append(l, v) /\ ch'[o].st = "taken"
    BY <1>3 DEF Took
  <2>. HIDE DEF l, v
  <2>4. Piece(v) \in Seq(Values) /\ Unbatch(Append(l, v)) = Unbatch(l) \o Piece(v)
    BY <2>1, <2>2, UnbatchAppend
  <2>5. Unbatch(Append(l, v)) \in Seq(Values)
    <3>1. \A x, y \in Seq(Values) : x \o y \in Seq(Values)
      BY ConcatProperties
    <3>2. QED
      BY <2>1, <2>4, <3>1
  <2>6. Items(log) = Unbatch(Append(l, v)) \o Pending(s, ch'[o])
    <3>1. CASE s.pc \in {"batch", "last"}
      <4>1. Piece(v) = s.buf /\ Pending(s, ch[o]) = s.buf /\ Pending(s, ch'[o]) = <<>>
        BY <2>1, <2>3, <3>1 DEF Piece, Ok, Pending
      <4>2. Unbatch(Append(l, v)) \o <<>> = Unbatch(Append(l, v))
        BY <2>5, ConcatEmptySeq
      <4>3. QED
        BY <2>1, <2>4, <4>1, <4>2
    <3>2. CASE s.pc = "flush"
      <4>1. Piece(v) = s.buf /\ Pending(s, ch[o]) = Append(s.buf, s.cur.of)
            /\ Pending(s, ch'[o]) = <<s.cur.of>> /\ s.cur.of \in Values
        BY <2>1, <2>3, <3>2 DEF Piece, Ok, Pending, BatcherCounts, Results
      <4>2. Unbatch(l) \o Append(s.buf, s.cur.of) = (Unbatch(l) \o s.buf) \o <<s.cur.of>>
        BY <2>1, <4>1, Regroup
      <4>3. QED
        BY <2>1, <2>4, <4>1, <4>2
    <3>3. CASE s.pc = "error"
      <4>1. Piece(v) = <<s.cur.of>> /\ Pending(s, ch[o]) = <<s.cur.of>>
            /\ Pending(s, ch'[o]) = <<>>
        BY <2>1, <2>3, <3>3 DEF Piece, Pending, BatcherCounts
      <4>2. Unbatch(Append(l, v)) \o <<>> = Unbatch(Append(l, v))
        BY <2>5, ConcatEmptySeq
      <4>3. QED
        BY <2>1, <2>4, <4>1, <4>2
    <3>4. QED
      BY <2>1, <3>1, <3>2, <3>3
  <2>7. v.ok => v.of # <<>>
    BY <2>1 DEF Ok, BatcherCounts
  <2>8. \A k \in DOMAIN Append(l, v) : Append(l, v)[k].ok => Append(l, v)[k].of # <<>>
    <3>1. \A k \in DOMAIN l : l[k].ok => l[k].of # <<>>
      BY DEF BatcherOrder, l
    <3>2. QED
      BY <2>2, <2>7, <3>1
  <2>9. BatcherSends(s, ch'[o])
    BY <2>1, <2>3 DEF BatcherSends
  <2>10. QED
    BY <1>1, <2>1, <2>3, <2>5, <2>6, <2>8, <2>9 DEF BatcherOrder
<1>4. QED
  BY <1>2, <1>3 DEF Takes

\* The weight of a buffer is a sum over its positions.
LEMMA WeightOfIsSum ==
  ASSUME NEW buf
  PROVE  W!WeightOf(buf) = SumOf([k \in DOMAIN buf |-> WeightFn[buf[k]]], DOMAIN buf)
BY DEF W!WeightOf, SumOf, W!MapThenSumSet, MapThenSumSet, W!MapThenFoldSet, MapThenFoldSet

\* An empty buffer weighs nothing.
LEMMA WeightOfNothing == W!WeightOf(<<>>) = 0
<1>. DEFINE e == [k \in DOMAIN <<>> |-> WeightFn[<<>>[k]]]
<1>1. W!WeightOf(<<>>) = SumOf(e, DOMAIN <<>>)
  BY WeightOfIsSum
<1>2. DOMAIN <<>> = {}
  OBVIOUS
<1>. HIDE DEF e
<1>3. QED
  BY <1>1, <1>2, SumEmpty

\* A weight is a natural number.
LEMMA WeightOfNat ==
  ASSUME NEW buf \in Seq(Values)
  PROVE  W!WeightOf(buf) \in Nat
<1>. DEFINE S == 1..Len(buf)
            f == [k \in S |-> WeightFn[buf[k]]]
<1>1. DOMAIN buf = S /\ Len(buf) \in Nat
  OBVIOUS
<1>2. \A k \in S : f[k] \in Nat
  BY NetworkAssumption
<1>3. W!WeightOf(buf) = SumOf(f, S)
  BY <1>1, WeightOfIsSum
<1>4. IsFiniteSet(S)
  BY <1>1, FS_Interval
<1>. HIDE DEF f, S
<1>5. QED
  BY <1>2, <1>3, <1>4, SumNat

\* An item adds its weight.
LEMMA WeightOfAppend ==
  ASSUME NEW buf \in Seq(Values), NEW v \in Values
  PROVE  /\ W!WeightOf(buf) \in Nat /\ WeightFn[v] \in Nat
         /\ W!WeightOf(Append(buf, v)) = W!WeightOf(buf) + WeightFn[v]
<1>. DEFINE n == Len(buf)
            more == Append(buf, v)
            S == 1..n
            f == [k \in S |-> WeightFn[buf[k]]]
            g == [k \in 1..(n + 1) |-> WeightFn[more[k]]]
<1>1. \A x \in Values : WeightFn[x] \in Nat
  BY NetworkAssumption
<1>2. W!WeightOf(buf) \in Nat
  BY WeightOfNat
<1>3. /\ n \in Nat /\ DOMAIN buf = S /\ more \in Seq(Values) /\ DOMAIN more = 1..(n + 1)
      /\ more[n + 1] = v /\ \A k \in S : more[k] = buf[k] /\ buf[k] \in Values
  OBVIOUS
<1>4. W!WeightOf(buf) = SumOf(f, S) /\ W!WeightOf(more) = SumOf(g, 1..(n + 1))
  BY <1>3, WeightOfIsSum
<1>5. n + 1 \notin S /\ 1..(n + 1) = S \cup {n + 1}
  OBVIOUS
<1>6. IsFiniteSet(S)
  BY <1>3, FS_Interval
<1>7. /\ \A k \in S : f[k] \in Nat /\ f[k] = g[k]
      /\ \A k \in S \cup {n + 1} : g[k] \in Nat
      /\ g[n + 1] = WeightFn[v]
  BY <1>1, <1>3, <1>5
<1>. HIDE DEF f, g, S, more, n
<1>8. SumOf(f, S) = SumOf(g, S)
  <2>1. \A k \in S : f[k] \in Int /\ f[k] = g[k]
    BY <1>7
  <2>2. QED
    BY <1>6, <2>1, SumSame
<1>9. SumOf(g, S \cup {n + 1}) = g[n + 1] + SumOf(g, S)
  <2>1. \A k \in S \cup {n + 1} : g[k] \in Int
    BY <1>7
  <2>2. QED
    BY <1>5, <1>6, <2>1, SumAdd
<1>10. W!WeightOf(more) = WeightFn[v] + W!WeightOf(buf)
  BY <1>4, <1>5, <1>7, <1>8, <1>9
<1>11. WeightFn[v] \in Nat
  BY <1>1
<1>. HIDE <1>1
<1>12. W!WeightOf(more) = W!WeightOf(buf) + WeightFn[v]
  BY <1>2, <1>10, <1>11
<1>13. QED
  BY <1>2, <1>11, <1>12 DEF more

\* The weights follow the batch.
LEMMA WeightsKept ==
  ASSUME ChannelsOk, BatcherCounts(weighted, canceled), WeightsInv, W!WNext
  PROVE  WeightsInv'
<1>1. /\ DOMAIN weighted = BatcherFields /\ weighted.buf \in Seq(Values)
      /\ W!WeightOf(weighted.buf) \in Nat /\ W!WeightOf(<<>>) = 0
  BY WeightOfNothing, WeightOfNat DEF BatcherCounts
<1>n. (W!WeightOf(weighted.buf))' = W!WeightOf(weighted'.buf)
  BY DEF W!WeightOf, W!MapThenSumSet, W!MapThenFoldSet
<1>2. /\ DOMAIN weights = {"received", "emitted", "dropped"}
      /\ weights.received \in Nat /\ weights.emitted \in Nat /\ weights.dropped \in Nat
      /\ weights.received = weights.emitted + weights.dropped + W!WeightOf(weighted.buf)
  BY DEF WeightsInv
<1>3. ASSUME NEW w \in Nat, W!WeightOf(weighted.buf) = w,
             \/ weights' = weights /\ W!WeightOf(weighted'.buf) = w
             \/ weights' = [weights EXCEPT !.emitted = @ + w] /\ W!WeightOf(weighted'.buf) = 0
             \/ weights' = [weights EXCEPT !.dropped = @ + w] /\ W!WeightOf(weighted'.buf) = 0
      PROVE  WeightsInv'
  <2>1. weights.received = weights.emitted + weights.dropped + w
    BY <1>2, <1>3
  <2>2. /\ DOMAIN weights' = {"received", "emitted", "dropped"}
        /\ weights'.received \in Nat /\ weights'.emitted \in Nat /\ weights'.dropped \in Nat
        /\ weights'.received = weights'.emitted + weights'.dropped + W!WeightOf(weighted'.buf)
    BY <1>2, <1>3, <2>1
  <2>3. QED
    BY <2>2, <1>n DEF WeightsInv
<1>4. CASE W!WReceive
  <2>1. W!B!Receive /\ weighted.pc = "recv" /\ W!Value("t2") = Value("t2")
        /\ (Value("t2") \in Results)
    BY <1>4 DEF W!WReceive, W!B!Receive, W!Value, Value, W!B!Ready, ChannelsOk, Names,
                Carries, ItemChannels
  <2>2. CASE canceled
    <3>1. weighted'.buf = <<>>
      BY <1>1, <2>1, <2>2 DEF W!B!Receive, W!B!Discard, BatcherFields
    <3>2. weights' = [weights EXCEPT !.dropped = @ + W!WeightOf(weighted.buf)]
      BY <1>4, <2>2 DEF W!WReceive
    <3>3. QED
      BY <1>1, <1>3, <3>1, <3>2
  <2>3. CASE ~canceled /\ ~Value("t2").ok
    <3>1. weighted'.buf = weighted.buf
      BY <1>1, <2>1, <2>3 DEF W!B!Receive, BatcherFields, W!B!Value, Value
    <3>2. weights' = weights
      BY <1>4, <2>1, <2>3 DEF W!WReceive
    <3>3. QED
      BY <1>1, <1>3, <3>1, <3>2
  <2>4. CASE ~canceled /\ Value("t2").ok
    <3>. DEFINE v == Value("t2").of
    <3>1. weighted'.buf = Append(weighted.buf, v)
      BY <1>1, <2>1, <2>4 DEF W!B!Receive, BatcherFields, W!B!Value, Value
    <3>2. weights' = [weights EXCEPT !.received = @ + WeightFn[v]]
      BY <1>4, <2>1, <2>4 DEF W!WReceive
    <3>3. v \in Values
      BY <2>1 DEF Results
    <3>. HIDE DEF v
    <3>4. WeightFn[v] \in Nat
          /\ W!WeightOf(weighted'.buf) = W!WeightOf(weighted.buf) + WeightFn[v]
      BY <1>1, <3>1, <3>3, WeightOfAppend
    <3>5. /\ DOMAIN weights' = {"received", "emitted", "dropped"}
          /\ weights'.received \in Nat /\ weights'.emitted \in Nat /\ weights'.dropped \in Nat
          /\ weights'.received = weights'.emitted + weights'.dropped + W!WeightOf(weighted'.buf)
      BY <1>1, <1>2, <3>2, <3>4
    <3>6. QED
      BY <3>5, <1>n DEF WeightsInv
  <2>5. QED
    BY <2>2, <2>3, <2>4
<1>5. CASE W!WSent
  <2>1. W!B!Sent /\ weights' = [weights EXCEPT !.emitted = @ + W!WeightOf(weighted.buf)]
    BY <1>5 DEF W!WSent
  <2>2. weighted'.buf = <<>>
    BY <1>1, <2>1 DEF W!B!Sent, W!B!Emitted, BatcherFields, BatcherCounts
  <2>3. QED
    BY <1>1, <1>3, <2>1, <2>2
<1>6. CASE W!WInterrupted
  <2>1. W!B!Interrupted /\ weights' = [weights EXCEPT !.dropped = @ + W!WeightOf(weighted.buf)]
    BY <1>6 DEF W!WInterrupted
  <2>2. weighted'.buf = <<>>
    BY <1>1, <2>1 DEF W!B!Interrupted, W!B!Discard, BatcherFields
  <2>3. QED
    BY <1>1, <1>3, <2>1, <2>2
<1>7. CASE (W!B!Drain \/ W!B!SourceEnds) /\ UNCHANGED weights
  <2>1. weighted'.buf = weighted.buf
    BY <1>1, <1>7 DEF W!B!Drain, W!B!SourceEnds, BatcherFields
  <2>2. QED
    BY <1>1, <1>3, <1>7, <2>1
<1>8. QED
  BY <1>4, <1>5, <1>6, <1>7 DEF W!WNext

-------------------------------------------------------------------------------
\* FromChan sends on its output alone.
LEMMA FromChanSends ==
  ASSUME ChannelsOk, FromInv, FromChan
  PROVE  Acts({}, {"s1"}) /\ FromInv' /\ canceled' = canceled
<1>1. Shaped(ch) /\ "s1" \in Names /\ Carries("s1") = Results /\ canceled' = canceled
  BY DEF ChannelsOk, Shaped, Names, Carries, ItemChannels, FromChan
<1>2. CASE Free("s1") /\ from1 # <<>> /\ ch' = Put(ch, "s1", Ok(Head(from1))) /\ UNCHANGED from1
  <2>1. Offered("s1", Ok(Head(from1))) /\ Shaped(ch') /\ OnlyOn({"s1"})
    BY <1>1, <1>2, PutDoes
  <2>2. Ok(Head(from1)) \in Results
    BY <1>2 DEF FromInv, Ok, Results
  <2>3. Acts({}, {"s1"})
    BY <1>1, <1>2, <2>1, <2>2 DEF Acts, Sends, OnlyOn, Offered, Free
  <2>4. QED
    BY <1>1, <1>2, <2>3 DEF FromInv
<1>3. CASE Taken("s1") /\ ch' = Clear(ch, "s1") /\ from1' = Tail(from1)
  <2>1. Cleared("s1") /\ Shaped(ch') /\ OnlyOn({"s1"})
    BY <1>1, <1>3, ClearDoes
  <2>2. Acts({}, {"s1"})
    BY <1>1, <1>3, <2>1 DEF Acts, Sends, OnlyOn, Cleared, Taken
  <2>3. from1 # <<>> /\ from1 \in Seq(Values)
    BY <1>3 DEF FromInv, Busy, Taken
  <2>4. from1' \in Seq(Values)
    BY <1>3, <2>3
  <2>5. ~Busy("s1")'
    BY <2>1 DEF Busy, Cleared
  <2>6. QED
    BY <1>1, <2>2, <2>4, <2>5 DEF FromInv
<1>4. CASE Free("s1") /\ from1 = <<>> /\ ch' = Close(ch, {"s1"}) /\ UNCHANGED from1
  <2>1. Closed("s1") /\ Shaped(ch') /\ OnlyOn({"s1"})
    BY <1>1, <1>4, CloseDoes
  <2>2. Acts({}, {"s1"})
    BY <1>1, <1>4, <2>1 DEF Acts, Sends, OnlyOn, Closed, Free
  <2>3. ~Busy("s1")'
    BY <2>1 DEF Busy, Closed
  <2>4. QED
    BY <1>1, <1>4, <2>2, <2>3 DEF FromInv
<1>5. QED
  BY <1>2, <1>3, <1>4 DEF FromChan

\* The receiver of its output leaves FromChan as it is.
LEMMA FromKept ==
  ASSUME FromInv, from1' = from1, Takes("s1")
  PROVE  FromInv'
BY DEF FromInv, Takes, Took, Busy

-------------------------------------------------------------------------------
\* The pipe uses the channels of the network.
LEMMA PipeChannelOps ==
  /\ \A f, c : P!Take(f, c) = Take(f, c) /\ P!Clear(f, c) = Clear(f, c)
  /\ \A f, c, v : P!Put(f, c, v) = Put(f, c, v)
  /\ \A f, C : P!Close(f, C) = Close(f, C)
  /\ \A c : /\ P!Ready(c) = Ready(c) /\ P!Taken(c) = Taken(c) /\ P!Shut(c) = Shut(c)
            /\ P!Free(c) = Free(c)
  /\ \A x : P!Err(x) = Err(x)
BY DEF P!Take, Take, P!Clear, Clear, P!Put, Put, P!Close, Close, P!Ready, Ready,
       P!Taken, Taken, P!Shut, Shut, P!Free, Free, P!Err, Err

\* The receiver of its output leaves the accounts of the pipe in balance.
LEMMA PipeKept ==
  ASSUME ChannelsOk, PipeInv, UNCHANGED <<pipe, from2>>, canceled => canceled', Takes("s2")
  PROVE  PipeInv'
<1>1. CASE ch'["s2"] = ch["s2"]
  BY <1>1 DEF PipeInv, Busy, Shut, Ready, Taken, Log
<1>2. CASE Took("s2")
  <2>1. /\ Len(Log("s2")) \in Nat /\ Len(Log("s2")') = Len(Log("s2")) + 1
        /\ Ready("s2") /\ ~Taken("s2") /\ Busy("s2") /\ ~Shut("s2")
        /\ ~Ready("s2")' /\ Taken("s2")' /\ Busy("s2")' /\ ~Shut("s2")'
    <3>1. Log("s2") \in Seq(Results) /\ Value("s2") \in Results
      BY <1>2 DEF ChannelsOk, Names, Carries, ItemChannels, Log, Value, Took
    <3>2. Len(Append(Log("s2"), Value("s2"))) = Len(Log("s2")) + 1
      BY <3>1
    <3>3. Log("s2")' = Append(Log("s2"), Value("s2"))
      BY <1>2 DEF Took, Log, Value
    <3>4. QED
      BY <1>2, <3>1, <3>2, <3>3 DEF Took, Ready, Taken, Busy, Shut
  <2>2. QED
    BY <2>1 DEF PipeInv, One
<1>3. QED
  BY <1>1, <1>2 DEF Takes

\* Every step of the pipe keeps its accounts in balance.
LEMMA PipeSends ==
  ASSUME ChannelsOk, PipeInv, P!FeederStep \/ P!StageStep
  PROVE  Acts({}, {"s2"}) /\ PipeInv' /\ canceled' = canceled
<1>1. /\ Shaped(ch) /\ "s2" \in Names /\ Carries("s2") = Results
      /\ Log("s2") \in Seq(Results) /\ Len(Log("s2")) \in Nat
      /\ DOMAIN pipe = PipeFields /\ from2 \in Seq(Results)
  BY DEF ChannelsOk, Shaped, Names, Carries, ItemChannels, PipeInv, Log
<1>2. canceled' = canceled
  BY DEF P!FeederStep, P!StageStep, P!Receive, P!Accept, P!Refuse, P!OfferError, P!ErrorSent,
         P!DropError, P!FeederLeaves, P!FnReturns, P!OfferResult, P!ResultSent, P!CloseOut
\* A step that leaves the output alone.
<1>3. ASSUME ch' = ch
      PROVE  /\ Acts({}, {"s2"}) /\ Log("s2")' = Log("s2") /\ Busy("s2")' = Busy("s2")
             /\ Shut("s2")' = Shut("s2") /\ Ready("s2")' = Ready("s2") /\ Taken("s2")' = Taken("s2")
  BY <1>1, <1>3 DEF Acts, Sends, OnlyOn, Log, Busy, Shut, Ready, Taken
\* A step that sends, or has sent, or takes its offer back.
<1>4. ASSUME NEW v \in Results, Free("s2"), ch' = Put(ch, "s2", v)
      PROVE  /\ Acts({}, {"s2"}) /\ Log("s2")' = Log("s2") /\ Busy("s2")'
             /\ ~Shut("s2")' /\ Ready("s2")' /\ ~Taken("s2")'
             /\ ~Busy("s2") /\ ~Shut("s2") /\ ~Ready("s2") /\ ~Taken("s2")
  <2>1. Offered("s2", v) /\ Shaped(ch') /\ OnlyOn({"s2"})
    BY <1>1, <1>4, PutDoes
  <2>2. QED
    BY <1>1, <1>4, <2>1 DEF Acts, Sends, OnlyOn, Offered, Free, Log, Busy, Shut, Ready, Taken
<1>5. ASSUME Busy("s2"), ch' = Clear(ch, "s2")
      PROVE  /\ Acts({}, {"s2"}) /\ Log("s2")' = Log("s2") /\ ~Busy("s2")'
             /\ ~Shut("s2")' /\ ~Ready("s2")' /\ ~Taken("s2")'
             /\ ~Shut("s2") /\ (Ready("s2") <=> ~Taken("s2"))
  <2>1. Cleared("s2") /\ Shaped(ch') /\ OnlyOn({"s2"})
    BY <1>1, <1>5, ClearDoes
  <2>2. QED
    BY <1>1, <1>5, <2>1 DEF Acts, Sends, OnlyOn, Cleared, Log, Busy, Shut, Ready, Taken
<1>6. CASE P!Receive
  <2>. DEFINE r == Head(from2)
              s == [pipe EXCEPT !.received = @ + 1, !.cur = r]
  <2>1. r \in Results /\ from2' \in Seq(Results)
    BY <1>1, <1>6 DEF P!Receive
  <2>2. pipe.pc = "recv" /\ ch' = ch
    BY <1>6 DEF P!Receive
  <2>. HIDE DEF r
  <2>3. \/ pipe' = [s EXCEPT !.pc = "blocked"]
        \/ P!StageDone /\ pipe' = [P!Back(s) EXCEPT !.dropped = @ + 1]
        \/ pipe' = [s EXCEPT !.pc = "submit"]
    BY <1>6 DEF P!Receive, r
  <2>4. CASE pipe' = [s EXCEPT !.pc = "blocked"]
    BY <1>1, <1>2, <1>3, <2>1, <2>2, <2>4 DEF PipeInv, PipeFields, One
  <2>5. CASE P!StageDone /\ pipe' = [P!Back(s) EXCEPT !.dropped = @ + 1]
    BY <1>1, <1>2, <1>3, <2>1, <2>2, <2>5 DEF PipeInv, PipeFields, One, P!StageDone, P!Back
  <2>6. CASE pipe' = [s EXCEPT !.pc = "submit"]
    BY <1>1, <1>2, <1>3, <2>1, <2>2, <2>6 DEF PipeInv, PipeFields, One
  <2>7. QED
    BY <2>3, <2>4, <2>5, <2>6
<1>7. CASE P!Accept
  <2>1. /\ pipe.pc = "submit" /\ pipe.worker = "idle" /\ ch' = ch /\ from2' = from2
        /\ pipe' = [P!Back(pipe) EXCEPT !.worker = "fn", !.job = pipe.cur, !.submitted = @ + 1]
    BY <1>7 DEF P!Accept
  <2>2. pipe.cur \in Results
    BY <2>1 DEF PipeInv
  <2>3. /\ DOMAIN pipe' = PipeFields /\ pipe'.pc = "recv" /\ pipe'.worker = "fn" /\ pipe'.job = pipe.cur
        /\ pipe'.submitted = pipe.submitted + 1 /\ pipe'.received = pipe.received
        /\ pipe'.forwarded = pipe.forwarded /\ pipe'.dropped = pipe.dropped
        /\ pipe'.failed = pipe.failed
        /\ pipe.pc = "submit" /\ pipe.worker = "idle" /\ from2' = from2 /\ ch' = ch
    BY <1>1, <2>1 DEF PipeFields, P!Back
  <2>4. PipeInv'
    <3>1. /\ pipe.received = pipe.submitted + pipe.forwarded + pipe.dropped + 1
          /\ Len(Log("s2")) = pipe.submitted + pipe.forwarded /\ ~Busy("s2") /\ ~Shut("s2")
      BY <2>3 DEF PipeInv, One
    <3>2. Len(Log("s2")') = Len(Log("s2")) /\ ~Busy("s2")' /\ ~Shut("s2")'
      BY <1>3, <2>3, <3>1
    <3>. /\ pipe.submitted \in Nat /\ pipe.received \in Nat
         /\ pipe.forwarded \in Nat /\ pipe.dropped \in Nat
      BY DEF PipeInv
    <3>3. /\ pipe'.received = pipe'.submitted + pipe'.forwarded + pipe'.dropped
          /\ Len(Log("s2")') + 1 = pipe'.submitted + pipe'.forwarded
          /\ pipe'.submitted \in Nat /\ pipe'.received \in Nat
          /\ pipe'.forwarded \in Nat /\ pipe'.dropped \in Nat
      <4>. HIDE DEF PipeInv
      <4>1. /\ pipe'.submitted \in Nat /\ pipe'.received \in Nat
            /\ pipe'.forwarded \in Nat /\ pipe'.dropped \in Nat
        BY <2>3
      <4>2. pipe'.received = pipe'.submitted + pipe'.forwarded + pipe'.dropped
        BY <2>3, <3>1
      <4>3. Len(Log("s2")') + 1 = pipe'.submitted + pipe'.forwarded
        BY <1>1, <2>3, <3>1, <3>2
      <4>4. QED
        BY <4>1, <4>2, <4>3
    <3>4. pipe'.failed \in BOOLEAN /\ (pipe'.dropped > 0 => canceled' \/ pipe'.failed)
      BY <1>2, <2>3 DEF PipeInv
    <3>5. QED
      BY <1>1, <2>2, <2>3, <3>2, <3>3, <3>4 DEF PipeInv, One
  <2>5. QED
    BY <1>2, <1>3, <2>1, <2>4
<1>8. CASE P!Refuse
  <2>1. /\ pipe.pc = "submit" /\ P!StageDone /\ ch' = ch /\ from2' = from2
        /\ pipe' = [P!Back(pipe) EXCEPT !.dropped = @ + 1]
    BY <1>8 DEF P!Refuse
  <2>2. QED
    BY <1>1, <1>2, <1>3, <2>1 DEF PipeInv, PipeFields, One, P!Back, P!StageDone
<1>9. CASE P!OfferError
  <2>1. /\ pipe.pc = "blocked" /\ Free("s2") /\ ch' = Put(ch, "s2", pipe.cur) /\ from2' = from2
        /\ pipe' = [pipe EXCEPT !.pc = "send"]
    BY <1>9, PipeChannelOps DEF P!OfferError
  <2>2. pipe.cur \in Results
    BY <2>1 DEF PipeInv
  <2>3. QED
    BY <1>1, <1>2, <1>4, <2>1, <2>2 DEF PipeInv, PipeFields, One
<1>10. CASE P!ErrorSent
  <2>1. /\ pipe.pc = "send" /\ Taken("s2") /\ Busy("s2") /\ ch' = Clear(ch, "s2") /\ from2' = from2
        /\ pipe' = [P!Back(pipe) EXCEPT !.forwarded = @ + 1]
    BY <1>10, PipeChannelOps DEF P!ErrorSent, Busy, Taken
  <2>2. QED
    BY <1>1, <1>2, <1>5, <2>1 DEF PipeInv, PipeFields, One, P!Back
<1>11. CASE P!DropError
  <2>1. /\ P!StageDone /\ from2' = from2 /\ pipe' = [P!Back(pipe) EXCEPT !.dropped = @ + 1]
    BY <1>11 DEF P!DropError
  <2>2. CASE pipe.pc = "blocked" /\ ch' = ch
    BY <1>1, <1>2, <1>3, <2>1, <2>2 DEF PipeInv, PipeFields, One, P!Back, P!StageDone
  <2>3. CASE pipe.pc = "send" /\ ~Taken("s2") /\ ch' = Clear(ch, "s2")
    <3>1. Busy("s2")
      BY <2>3 DEF PipeInv
    <3>2. QED
      BY <1>1, <1>2, <1>5, <2>1, <2>3, <3>1 DEF PipeInv, PipeFields, One, P!Back, P!StageDone
  <2>4. QED
    BY <1>11, <2>2, <2>3, PipeChannelOps DEF P!DropError
<1>12. CASE P!FeederLeaves
  <2>1. /\ pipe.pc = "recv" /\ ch' = ch /\ from2' = from2 /\ pipe' = [pipe EXCEPT !.pc = "gone"]
    BY <1>12 DEF P!FeederLeaves
  <2>2. QED
    BY <1>1, <1>2, <1>3, <2>1 DEF PipeInv, PipeFields, One
<1>13. CASE P!FnReturns
  <2>1. PICK r \in {pipe.job, Err(pipe.job.of)} :
          pipe' = [pipe EXCEPT !.worker = "blocked", !.job = r,
                               !.failed = @ \/ (~r.ok /\ ~P!StageDone)]
    BY <1>13, PipeChannelOps DEF P!FnReturns
  <2>2. pipe.worker = "fn" /\ ch' = ch /\ from2' = from2
    BY <1>13 DEF P!FnReturns
  <2>3. r \in Results
    <3>1. pipe.job \in Results
      BY <2>2 DEF PipeInv
    <3>2. \A x \in Results : Err(x.of) \in Results
      BY DEF Results, Err
    <3>3. QED
      BY <2>1, <3>1, <3>2
  <2>4. PICK f \in BOOLEAN : /\ pipe' = [pipe EXCEPT !.worker = "blocked", !.job = r, !.failed = f]
                             /\ pipe.failed => f
    BY <2>1 DEF PipeInv
  <2>5. QED
    BY <1>1, <1>2, <1>3, <2>2, <2>3, <2>4 DEF PipeInv, PipeFields, One
<1>14. CASE P!OfferResult
  <2>1. /\ pipe.worker = "blocked" /\ Free("s2") /\ ch' = Put(ch, "s2", pipe.job) /\ from2' = from2
        /\ pipe' = [pipe EXCEPT !.worker = "send"]
    BY <1>14, PipeChannelOps DEF P!OfferResult
  <2>2. pipe.job \in Results
    BY <2>1 DEF PipeInv
  <2>3. QED
    BY <1>1, <1>2, <1>4, <2>1, <2>2 DEF PipeInv, PipeFields, One
<1>15. CASE P!ResultSent
  <2>1. /\ pipe.worker = "send" /\ Taken("s2") /\ Busy("s2") /\ ch' = Clear(ch, "s2") /\ from2' = from2
        /\ pipe' = [pipe EXCEPT !.worker = "idle", !.job = <<>>]
    BY <1>15, PipeChannelOps DEF P!ResultSent, Busy, Taken
  <2>2. QED
    BY <1>1, <1>2, <1>5, <2>1 DEF PipeInv, PipeFields, One
<1>16. CASE P!CloseOut
  <2>1. /\ pipe.pc = "gone" /\ pipe.worker = "idle" /\ ~Shut("s2") /\ ch' = Close(ch, {"s2"})
        /\ UNCHANGED <<pipe, from2>>
    BY <1>16, PipeChannelOps DEF P!CloseOut
  <2>2. Closed("s2") /\ Shaped(ch') /\ OnlyOn({"s2"})
    BY <1>1, <2>1, CloseDoes
  <2>3. Acts({}, {"s2"}) /\ Log("s2")' = Log("s2") /\ ~Busy("s2")' /\ ~Ready("s2")' /\ ~Taken("s2")'
    BY <1>1, <2>1, <2>2 DEF Acts, Sends, OnlyOn, Closed, Log, Busy, Shut, Ready, Taken
  <2>4. QED
    BY <1>2, <2>1, <2>3 DEF PipeInv, One
<1>17. QED
  BY <1>6, <1>7, <1>8, <1>9, <1>10, <1>11, <1>12, <1>13, <1>14, <1>15, <1>16
     DEF P!FeederStep, P!StageStep

-------------------------------------------------------------------------------
\* The merge uses the channels of the network.
LEMMA MergeChannelOps ==
  /\ \A f, c : M!Take(f, c) = Take(f, c) /\ M!Clear(f, c) = Clear(f, c)
  /\ \A f, c, v : M!Put(f, c, v) = Put(f, c, v)
  /\ \A f, C : M!Close(f, C) = Close(f, C)
  /\ \A c : /\ M!Ready(c) = Ready(c) /\ M!Taken(c) = Taken(c) /\ M!Shut(c) = Shut(c)
            /\ M!Free(c) = Free(c) /\ M!Value(c) = Value(c)
  /\ M!Sources = Two
BY DEF M!Take, Take, M!Clear, Clear, M!Put, Put, M!Close, Close, M!Ready, Ready,
       M!Taken, Taken, M!Shut, Shut, M!Free, Free, M!Value, Value, M!Sources, Two

\* What a receiver does to a log.
LEMMA LogsGrow ==
  ASSUME ChannelsOk, NEW c \in Names, Takes(c)
  PROVE  /\ Len(Log(c)) \in Nat /\ Len(Log(c)') \in Nat
         /\ Log(c)' = Log(c) \/ (Log(c)' = Append(Log(c), Value(c)) /\ Len(Log(c)') = Len(Log(c)) + 1
                                 /\ Log(c)'[Len(Log(c)')] = Value(c))
         /\ Len(Log(c)) <= Len(Log(c)')
         /\ \A n \in 1..Len(Log(c)) : Log(c)'[n] = Log(c)[n]
<1>1. Log(c) \in Seq(Carries(c))
  BY DEF ChannelsOk, Log
<1>2. CASE ch'[c] = ch[c]
  BY <1>1, <1>2 DEF Log
<1>3. CASE Took(c)
  <2>1. Log(c)' = Append(Log(c), Value(c)) /\ Value(c) \in Carries(c)
    BY <1>3 DEF Took, Log, Value, ChannelsOk
  <2>2. QED
    BY <1>1, <2>1
<1>4. QED
  BY <1>2, <1>3 DEF Takes

Srcs == <<"s1", "s2">>
SameForwarder(i) ==
  /\ merge'.pc[i] = merge.pc[i] /\ merge'.cur[i] = merge.cur[i]
  /\ merge'.received[i] = merge.received[i] /\ merge'.forwarded[i] = merge.forwarded[i]
  /\ merge'.dropped[i] = merge.dropped[i]
MergeShape ==
  /\ DOMAIN merge = MergeFields
  /\ DOMAIN merge.pc = Two /\ DOMAIN merge.cur = Two /\ DOMAIN merge.received = Two
  /\ DOMAIN merge.forwarded = Two /\ DOMAIN merge.dropped = Two
  /\ merge.ctxErr \in BOOLEAN /\ merge.closed \in BOOLEAN

\* What a step of the other forwarder leaves of a forwarder.
LEMMA ForwarderKept ==
  ASSUME NEW i \in Two, MergeForwarder(i), SameForwarder(i), merge.ctxErr => merge'.ctxErr,
         ch'[Srcs[i]] = ch[Srcs[i]],
         merge.pc[i] = "send" => Busy("m")' /\ Value("m")' = Value("m")
  PROVE  MergeForwarder(i)'
<1>1. Log(<<"s1", "s2">>[i])' = Log(<<"s1", "s2">>[i])
  BY DEF Srcs, Log
<1>2. QED
  BY <1>1 DEF MergeForwarder, SameForwarder, One

\* A step of forwarder i that leaves the other one, o, alone.
LEMMA MergeReceives ==
  ASSUME ChannelsOk, MergeInv, NEW i \in Two, NEW o \in Two, o # i, Two = {i, o},
         Ready(Srcs[i]), ch' = Take(ch, Srcs[i])
  PROVE  /\ Acts({"s1", "s2"}, {"m"}) /\ ch'["m"] = ch["m"] /\ ch'[Srcs[o]] = ch[Srcs[o]]
         /\ Len(Log(Srcs[i])') = Len(Log(Srcs[i])) + 1
         /\ Log(Srcs[i])'[Len(Log(Srcs[i])')] = Value(Srcs[i])
         /\ Len(Log(Srcs[i])) \in Nat
         /\ Log("m")' = Log("m") /\ Busy("m")' = Busy("m") /\ Shut("m")' = Shut("m")
         /\ Taken("m")' = Taken("m") /\ Value("m")' = Value("m")
<1>1. Shaped(ch) /\ Srcs[i] \in Names /\ Srcs[o] \in Names /\ "m" \in Names
      /\ Srcs[i] # "m" /\ Srcs[o] # "m" /\ Srcs[i] # Srcs[o]
      /\ {"s1", "s2"} = {Srcs[i], Srcs[o]}
  BY DEF ChannelsOk, Shaped, Names, Srcs, Two
<1>2. Shaped(ch') /\ Took(Srcs[i]) /\ OnlyOn({Srcs[i]})
  BY <1>1, TakeDoes
<1>3. ch'["m"] = ch["m"] /\ ch'[Srcs[o]] = ch[Srcs[o]]
  BY <1>1, <1>2 DEF OnlyOn
<1>4. Acts({"s1", "s2"}, {"m"})
  BY <1>1, <1>2, <1>3 DEF Acts, Takes, Sends, OnlyOn
<1>5. /\ Len(Log(Srcs[i])') = Len(Log(Srcs[i])) + 1
      /\ Log(Srcs[i])'[Len(Log(Srcs[i])')] = Value(Srcs[i])
      /\ Len(Log(Srcs[i])) \in Nat
  <2>1. Log(Srcs[i]) \in Seq(Carries(Srcs[i])) /\ Value(Srcs[i]) \in Carries(Srcs[i])
    BY <1>1, <1>2 DEF ChannelsOk, Log, Value, Took
  <2>2. Log(Srcs[i])' = Append(Log(Srcs[i]), Value(Srcs[i]))
    BY <1>2 DEF Took, Log, Value
  <2>3. QED
    BY <2>1, <2>2
<1>6. QED
  BY <1>3, <1>4, <1>5 DEF Log, Busy, Shut, Taken, Value

\* A step that sends, has sent, or takes its offer back.
LEMMA MergeOffers ==
  ASSUME ChannelsOk, NEW v \in Results, Free("m"), ch' = Put(ch, "m", v)
  PROVE  /\ Acts({"s1", "s2"}, {"m"}) /\ ch'["s1"] = ch["s1"] /\ ch'["s2"] = ch["s2"]
         /\ Log("m")' = Log("m") /\ Busy("m")' /\ ~Shut("m")' /\ ~Taken("m")' /\ Value("m")' = v
         /\ ~Busy("m") /\ ~Shut("m") /\ ~Taken("m")
<1>1. Shaped(ch) /\ "m" \in Names /\ Carries("m") = Results /\ "s1" \in Names /\ "s2" \in Names
  BY DEF ChannelsOk, Shaped, Names, Carries, ItemChannels
<1>2. Offered("m", v) /\ Shaped(ch') /\ OnlyOn({"m"})
  BY <1>1, PutDoes
<1>3. QED
  BY <1>1, <1>2 DEF Acts, Takes, Sends, OnlyOn, Offered, Free, Log, Busy, Shut, Taken, Value

\* A step that has sent, or takes an offer back.
LEMMA MergeClears ==
  ASSUME ChannelsOk, Busy("m"), ch' = Clear(ch, "m")
  PROVE  /\ Acts({"s1", "s2"}, {"m"}) /\ ch'["s1"] = ch["s1"] /\ ch'["s2"] = ch["s2"]
         /\ Log("m")' = Log("m") /\ ~Busy("m")' /\ ~Shut("m")' /\ ~Taken("m")' /\ ~Shut("m")
<1>1. Shaped(ch) /\ "m" \in Names /\ Carries("m") = Results /\ "s1" \in Names /\ "s2" \in Names
  BY DEF ChannelsOk, Shaped, Names, Carries, ItemChannels
<1>2. Cleared("m") /\ Shaped(ch') /\ OnlyOn({"m"})
  BY <1>1, ClearDoes
<1>3. QED
  BY <1>1, <1>2 DEF Acts, Takes, Sends, OnlyOn, Cleared, Log, Busy, Shut, Taken

\* A step that leaves the channels alone.
LEMMA MergeAlone ==
  ASSUME ChannelsOk, ch' = ch
  PROVE  /\ Acts({"s1", "s2"}, {"m"}) /\ ch'["s1"] = ch["s1"] /\ ch'["s2"] = ch["s2"]
         /\ Log("m")' = Log("m") /\ Busy("m")' = Busy("m") /\ Shut("m")' = Shut("m")
         /\ Taken("m")' = Taken("m") /\ Value("m")' = Value("m")
BY DEF ChannelsOk, Shaped, Acts, Takes, Sends, OnlyOn, Log, Busy, Shut, Taken, Value

\* Every step of a forwarder keeps the merge in balance and delivers nothing by itself.
LEMMA MergeSends ==
  ASSUME ChannelsOk, MergeInv, NEW i \in Two, M!ForwardStep(i)
  PROVE  /\ Acts({"s1", "s2"}, {"m"}) /\ MergeInv' /\ canceled' = canceled
         /\ Log("m")' = Log("m") /\ \A j \in Two : Delivered(j)' = Delivered(j)
<1>. PICK o \in Two : o # i /\ Two = {i, o}
  BY DEF Two
<1>1. canceled' = canceled
  BY DEF M!ForwardStep, M!Receive, M!Offer, M!Sent, M!Interrupted, M!Drain, M!Leave
<1>2. /\ Srcs[i] = <<"s1", "s2">>[i] /\ Srcs[o] = <<"s1", "s2">>[o]
      /\ Srcs[i] \in {"s1", "s2"} /\ Srcs[o] \in {"s1", "s2"}
  BY DEF Srcs, Two
<1>3. MergeShape /\ MergeForwarder(i) /\ MergeForwarder(o)
  BY DEF MergeInv, MergeShape
<1>4. /\ ~(merge.pc[i] = "send" /\ merge.pc[o] = "send")
      /\ Busy("m") => merge.pc[i] = "send" \/ merge.pc[o] = "send"
      /\ merge.pc[i] = "send" => Busy("m")
      /\ merge.pc[o] = "send" => Busy("m") /\ merge.cur[o] = Value("m")
      /\ merge.closed => merge.pc[i] = "gone"
      /\ Shut("m") <=> merge.closed
      /\ merge.ctxErr => canceled /\ (merge.dropped[i] > 0 \/ merge.dropped[o] > 0)
  BY DEF MergeInv, Two, MergeForwarder
\* What is left to show of the rest of the invariant.
<1>5. ASSUME MergeShape', MergeForwarder(i)', MergeForwarder(o)',
             merge'.ctxErr => canceled /\ (merge'.dropped[i] > 0 \/ merge'.dropped[o] > 0),
             ~(merge'.pc[i] = "send" /\ merge'.pc[o] = "send"),
             Busy("m")' => merge'.pc[i] = "send" \/ merge'.pc[o] = "send",
             ~merge'.closed, Shut("m")' <=> merge'.closed
      PROVE  MergeInv'
  <2>1. \A j \in Two : j = i \/ j = o
    OBVIOUS
  <2>2. \A j \in Two : MergeForwarder(j)'
    BY <1>5, <2>1
  <2>3. merge'.ctxErr => canceled' /\ \E j \in Two : merge'.dropped[j] > 0
    BY <1>1, <1>5
  <2>4. /\ ~(merge'.pc[1] = "send" /\ merge'.pc[2] = "send")
        /\ Busy("m")' => merge'.pc[1] = "send" \/ merge'.pc[2] = "send"
    BY <1>5 DEF Two
  <2>5. QED
    BY <1>5, <2>2, <2>3, <2>4 DEF MergeInv, MergeShape
<1>6. CASE M!Receive(i)
  <2>. DEFINE s == [merge EXCEPT !.received[i] = @ + 1]
  <2>1. /\ merge.pc[i] = "recv" /\ Ready(Srcs[i]) /\ ch' = Take(ch, Srcs[i])
        /\ merge' = IF canceled THEN M!Discard(s, i)
                    ELSE [s EXCEPT !.pc[i] = "blocked", !.cur[i] = Value(Srcs[i])]
    BY <1>2, <1>6, MergeChannelOps DEF M!Receive
  <2>2. /\ Acts({"s1", "s2"}, {"m"}) /\ ch'["m"] = ch["m"] /\ ch'[Srcs[o]] = ch[Srcs[o]]
        /\ Len(Log(Srcs[i])') = Len(Log(Srcs[i])) + 1
        /\ Log(Srcs[i])'[Len(Log(Srcs[i])')] = Value(Srcs[i])
        /\ Len(Log(Srcs[i])) \in Nat
        /\ Log("m")' = Log("m") /\ Busy("m")' = Busy("m") /\ Shut("m")' = Shut("m")
        /\ Taken("m")' = Taken("m") /\ Value("m")' = Value("m")
    BY <2>1, MergeReceives
  <2>3. /\ MergeShape' /\ SameForwarder(o) /\ merge'.closed = merge.closed
        /\ merge'.received[i] = merge.received[i] + 1 /\ merge'.forwarded[i] = merge.forwarded[i]
        /\ \/ /\ canceled /\ merge'.pc[i] = "drain" /\ merge'.ctxErr
              /\ merge'.dropped[i] = merge.dropped[i] + 1
           \/ /\ ~canceled /\ merge'.pc[i] = "blocked" /\ merge'.cur[i] = Value(Srcs[i])
              /\ merge'.dropped[i] = merge.dropped[i] /\ merge'.ctxErr = merge.ctxErr
    <3>1. CASE canceled
      BY <1>3, <2>1, <3>1 DEF MergeShape, MergeFields, SameForwarder, M!Discard
    <3>2. CASE ~canceled
      BY <1>3, <2>1, <3>2 DEF MergeShape, MergeFields, SameForwarder
    <3>3. QED
      BY <3>1, <3>2
  <2>4. MergeForwarder(o)'
    <3>1. merge.ctxErr => merge'.ctxErr
      BY <2>3
    <3>2. QED
      BY <1>3, <1>4, <2>2, <2>3, <3>1, ForwarderKept
  <2>5. MergeForwarder(i)'
    <3>1. /\ merge.received[i] \in Nat /\ merge.forwarded[i] \in Nat /\ merge.dropped[i] \in Nat
          /\ merge.received[i] = merge.forwarded[i] + merge.dropped[i]
          /\ merge.received[i] = Len(Log(Srcs[i])) /\ (merge.dropped[i] > 0 => merge.ctxErr /\ FALSE)
      BY <1>2, <1>3, <2>1 DEF MergeForwarder, One
    <3>2. Log(<<"s1", "s2">>[i])' = Log(Srcs[i])'
      BY <1>2 DEF Log
    <3>3. QED
      BY <2>2, <2>3, <3>1, <3>2 DEF MergeForwarder, One
  <2>6. \A j \in Two : Delivered(j)' = Delivered(j)
    BY <2>1, <2>2, <2>3 DEF Delivered, SameForwarder, One
  <2>7. MergeInv'
    BY <1>3, <1>4, <1>5, <2>1, <2>2, <2>3, <2>4, <2>5 DEF SameForwarder, MergeForwarder
  <2>8. QED
    BY <1>1, <2>2, <2>6, <2>7
<1>7. CASE M!Offer(i)
  <2>1. /\ merge.pc[i] = "blocked" /\ Free("m") /\ ch' = Put(ch, "m", merge.cur[i])
        /\ merge' = [merge EXCEPT !.pc[i] = "send"]
    BY <1>7, MergeChannelOps DEF M!Offer
  <2>2. merge.cur[i] \in Results
    <3>1. Log(Srcs[i]) \in Seq(Results)
      BY <1>2 DEF ChannelsOk, Names, Carries, ItemChannels, Log
    <3>2. /\ Len(Log(Srcs[i])) \in Nat /\ Len(Log(Srcs[i])) # 0
          /\ merge.cur[i] = Log(Srcs[i])[Len(Log(Srcs[i]))]
      BY <1>2, <1>3, <2>1 DEF MergeForwarder, One
    <3>3. QED
      BY <3>1, <3>2
  <2>3. /\ Acts({"s1", "s2"}, {"m"}) /\ ch'["s1"] = ch["s1"] /\ ch'["s2"] = ch["s2"]
        /\ Log("m")' = Log("m") /\ Busy("m")' /\ ~Shut("m")' /\ ~Taken("m")' /\ Value("m")' = merge.cur[i]
        /\ ~Busy("m") /\ ~Shut("m") /\ ~Taken("m")
    BY <2>1, <2>2, MergeOffers
  <2>4. /\ MergeShape' /\ SameForwarder(o) /\ merge'.closed = merge.closed /\ merge'.ctxErr = merge.ctxErr
        /\ merge'.received[i] = merge.received[i] /\ merge'.forwarded[i] = merge.forwarded[i]
        /\ merge'.dropped[i] = merge.dropped[i] /\ merge'.cur[i] = merge.cur[i] /\ merge'.pc[i] = "send"
    BY <1>3, <2>1 DEF MergeShape, MergeFields, SameForwarder
  <2>5. merge.pc[o] # "send" /\ ch'[Srcs[o]] = ch[Srcs[o]] /\ ch'[Srcs[i]] = ch[Srcs[i]]
    BY <1>2, <1>4, <2>3
  <2>6. MergeForwarder(o)'
    BY <1>3, <2>4, <2>5, ForwarderKept
  <2>7. MergeForwarder(i)'
    <3>1. Log(<<"s1", "s2">>[i])' = Log(<<"s1", "s2">>[i])
      BY <1>2, <2>5 DEF Log
    <3>2. QED
      BY <1>3, <2>1, <2>3, <2>4, <3>1 DEF MergeForwarder, One
  <2>8. \A j \in Two : Delivered(j)' = Delivered(j)
    BY <2>1, <2>3, <2>4, <2>5 DEF Delivered, SameForwarder, One
  <2>9. MergeInv'
    BY <1>4, <1>5, <2>1, <2>3, <2>4, <2>5, <2>6, <2>7 DEF SameForwarder
  <2>10. QED
    BY <1>1, <2>3, <2>8, <2>9
<1>8. CASE M!Sent(i)
  <2>1. /\ merge.pc[i] = "send" /\ Taken("m") /\ ch' = Clear(ch, "m")
        /\ merge' = [merge EXCEPT !.pc[i] = "recv", !.cur[i] = <<>>, !.forwarded[i] = @ + 1]
    BY <1>8, MergeChannelOps DEF M!Sent
  <2>2. /\ Acts({"s1", "s2"}, {"m"}) /\ ch'["s1"] = ch["s1"] /\ ch'["s2"] = ch["s2"]
        /\ Log("m")' = Log("m") /\ ~Busy("m")' /\ ~Shut("m")' /\ ~Taken("m")' /\ ~Shut("m")
    BY <1>4, <2>1, MergeClears
  <2>3. /\ MergeShape' /\ SameForwarder(o) /\ merge'.closed = merge.closed /\ merge'.ctxErr = merge.ctxErr
        /\ merge'.received[i] = merge.received[i] /\ merge'.forwarded[i] = merge.forwarded[i] + 1
        /\ merge'.dropped[i] = merge.dropped[i] /\ merge'.pc[i] = "recv"
    BY <1>3, <2>1 DEF MergeShape, MergeFields, SameForwarder
  <2>4. merge.pc[o] # "send" /\ ch'[Srcs[o]] = ch[Srcs[o]] /\ ch'[Srcs[i]] = ch[Srcs[i]]
    BY <1>2, <1>4, <2>1, <2>2
  <2>5. MergeForwarder(o)'
    BY <1>3, <2>3, <2>4, ForwarderKept
  <2>6. MergeForwarder(i)'
    <3>1. Log(<<"s1", "s2">>[i])' = Log(<<"s1", "s2">>[i])
      BY <1>2, <2>4 DEF Log
    <3>2. QED
      BY <1>3, <2>1, <2>2, <2>3, <3>1 DEF MergeForwarder, One
  <2>7. \A j \in Two : Delivered(j)' = Delivered(j)
    BY <1>3, <2>1, <2>2, <2>3, <2>4 DEF Delivered, SameForwarder, One, MergeForwarder
  <2>8. MergeInv'
    BY <1>4, <1>5, <2>1, <2>2, <2>3, <2>4, <2>5, <2>6 DEF SameForwarder
  <2>9. QED
    BY <1>1, <2>2, <2>7, <2>8
<1>9. CASE M!Interrupted(i)
  <2>1. /\ canceled /\ merge.pc[i] \in {"blocked", "send"}
        /\ merge' = M!Discard(merge, i)
        /\ merge.pc[i] = "blocked" => ch' = ch
        /\ merge.pc[i] = "send" => ~Taken("m") /\ ch' = Clear(ch, "m")
    BY <1>9, MergeChannelOps DEF M!Interrupted
  <2>2. /\ Acts({"s1", "s2"}, {"m"}) /\ ch'["s1"] = ch["s1"] /\ ch'["s2"] = ch["s2"]
        /\ Log("m")' = Log("m") /\ (Shut("m")' <=> Shut("m"))
        /\ Busy("m")' => Busy("m") /\ Value("m")' = Value("m") /\ merge.pc[i] # "send"
        /\ merge.pc[o] = "send" => Busy("m")' /\ Value("m")' = Value("m") /\ (Taken("m")' <=> Taken("m"))
        /\ merge.pc[i] = "send" => ~Taken("m") /\ ~Taken("m")'
    <3>1. CASE merge.pc[i] = "blocked"
      BY <1>4, <2>1, <3>1, MergeAlone
    <3>2. CASE merge.pc[i] = "send"
      BY <1>4, <2>1, <3>2, MergeClears
    <3>3. QED
      BY <2>1, <3>1, <3>2
  <2>3. /\ MergeShape' /\ SameForwarder(o) /\ merge'.closed = merge.closed /\ merge'.ctxErr
        /\ merge'.received[i] = merge.received[i] /\ merge'.forwarded[i] = merge.forwarded[i]
        /\ merge'.dropped[i] = merge.dropped[i] + 1 /\ merge'.pc[i] = "drain"
    BY <1>3, <2>1 DEF MergeShape, MergeFields, SameForwarder, M!Discard
  <2>4. ch'[Srcs[o]] = ch[Srcs[o]] /\ ch'[Srcs[i]] = ch[Srcs[i]]
    BY <1>2, <2>2
  <2>5. MergeForwarder(o)'
    BY <1>3, <2>2, <2>3, <2>4, ForwarderKept
  <2>6. MergeForwarder(i)'
    <3>1. Log(<<"s1", "s2">>[i])' = Log(<<"s1", "s2">>[i])
      BY <1>2, <2>4 DEF Log
    <3>2. QED
      BY <1>3, <2>1, <2>3, <3>1 DEF MergeForwarder, One
  <2>7. \A j \in Two : Delivered(j)' = Delivered(j)
    BY <2>1, <2>2, <2>3 DEF Delivered, SameForwarder, One
  <2>8. merge'.dropped[i] > 0
    BY <1>3, <2>3 DEF MergeForwarder
  <2>9. MergeInv'
    BY <1>4, <1>5, <2>1, <2>2, <2>3, <2>5, <2>6, <2>8 DEF SameForwarder
  <2>10. QED
    BY <1>1, <2>2, <2>7, <2>9
<1>10. CASE M!Drain(i)
  <2>1. /\ merge.pc[i] = "drain" /\ Ready(Srcs[i]) /\ ch' = Take(ch, Srcs[i])
        /\ merge' = [merge EXCEPT !.received[i] = @ + 1, !.dropped[i] = @ + 1]
    BY <1>2, <1>10, MergeChannelOps DEF M!Drain
  <2>2. /\ Acts({"s1", "s2"}, {"m"}) /\ ch'["m"] = ch["m"] /\ ch'[Srcs[o]] = ch[Srcs[o]]
        /\ Len(Log(Srcs[i])') = Len(Log(Srcs[i])) + 1
        /\ Len(Log(Srcs[i])) \in Nat
        /\ Log("m")' = Log("m") /\ Busy("m")' = Busy("m") /\ Shut("m")' = Shut("m")
        /\ Taken("m")' = Taken("m") /\ Value("m")' = Value("m")
    BY <2>1, MergeReceives
  <2>3. /\ MergeShape' /\ SameForwarder(o) /\ merge'.closed = merge.closed /\ merge'.ctxErr = merge.ctxErr
        /\ merge'.received[i] = merge.received[i] + 1 /\ merge'.forwarded[i] = merge.forwarded[i]
        /\ merge'.dropped[i] = merge.dropped[i] + 1 /\ merge'.pc[i] = "drain"
    BY <1>3, <2>1 DEF MergeShape, MergeFields, SameForwarder
  <2>4. MergeForwarder(o)'
    <3>1. merge.ctxErr => merge'.ctxErr
      BY <2>3
    <3>2. QED
      BY <1>3, <1>4, <2>2, <2>3, <3>1, ForwarderKept
  <2>5. MergeForwarder(i)'
    <3>1. Log(<<"s1", "s2">>[i])' = Log(Srcs[i])' /\ Log(<<"s1", "s2">>[i]) = Log(Srcs[i])
      BY <1>2 DEF Log
    <3>2. /\ merge.received[i] \in Nat /\ merge.forwarded[i] \in Nat /\ merge.dropped[i] \in Nat
          /\ merge.received[i] = merge.forwarded[i] + merge.dropped[i] /\ merge.ctxErr
          /\ merge.received[i] = Len(Log(Srcs[i])) /\ merge.dropped[i] > 0
      BY <1>3, <2>1, <3>1 DEF MergeForwarder, One
    <3>3. merge'.received[i] = Len(Log(<<"s1", "s2">>[i])')
      BY <2>2, <2>3, <3>1, <3>2
    <3>4. /\ merge'.received[i] = merge'.forwarded[i] + merge'.dropped[i] /\ merge'.dropped[i] > 0
          /\ merge'.received[i] \in Nat /\ merge'.forwarded[i] \in Nat /\ merge'.dropped[i] \in Nat
      BY <2>3, <3>2
    <3>5. QED
      BY <2>3, <3>2, <3>3, <3>4 DEF MergeForwarder, One
  <2>6. \A j \in Two : Delivered(j)' = Delivered(j)
    BY <2>1, <2>2, <2>3 DEF Delivered, SameForwarder, One
  <2>7. merge'.dropped[i] > 0
    BY <1>3, <2>1, <2>3 DEF MergeForwarder
  <2>8. MergeInv'
    BY <1>4, <1>5, <2>1, <2>2, <2>3, <2>4, <2>5, <2>7 DEF SameForwarder
  <2>9. QED
    BY <1>1, <2>2, <2>6, <2>8
<1>11. CASE M!Leave(i)
  <2>1. /\ merge.pc[i] \in {"recv", "drain"} /\ ch' = ch
        /\ merge' = [merge EXCEPT !.pc[i] = "gone"]
    BY <1>11 DEF M!Leave
  <2>2. /\ Acts({"s1", "s2"}, {"m"}) /\ ch'["s1"] = ch["s1"] /\ ch'["s2"] = ch["s2"]
        /\ Log("m")' = Log("m") /\ Busy("m")' = Busy("m") /\ Shut("m")' = Shut("m")
        /\ Taken("m")' = Taken("m") /\ Value("m")' = Value("m")
    BY <2>1, MergeAlone
  <2>3. /\ MergeShape' /\ SameForwarder(o) /\ merge'.closed = merge.closed /\ merge'.ctxErr = merge.ctxErr
        /\ merge'.received[i] = merge.received[i] /\ merge'.forwarded[i] = merge.forwarded[i]
        /\ merge'.dropped[i] = merge.dropped[i] /\ merge'.pc[i] = "gone"
    BY <1>3, <2>1 DEF MergeShape, MergeFields, SameForwarder
  <2>4. ch'[Srcs[o]] = ch[Srcs[o]] /\ ch'[Srcs[i]] = ch[Srcs[i]]
    BY <1>2, <2>2
  <2>5. MergeForwarder(o)'
    BY <1>3, <1>4, <2>2, <2>3, <2>4, ForwarderKept
  <2>6. MergeForwarder(i)'
    <3>1. Log(<<"s1", "s2">>[i])' = Log(<<"s1", "s2">>[i])
      BY <1>2, <2>4 DEF Log
    <3>2. QED
      BY <1>3, <2>1, <2>3, <3>1 DEF MergeForwarder, One
  <2>7. \A j \in Two : Delivered(j)' = Delivered(j)
    BY <2>1, <2>2, <2>3 DEF Delivered, SameForwarder, One
  <2>8. MergeInv'
    BY <1>4, <1>5, <2>1, <2>2, <2>3, <2>5, <2>6 DEF SameForwarder
  <2>9. QED
    BY <1>1, <2>2, <2>7, <2>8
<1>12. QED
  BY <1>6, <1>7, <1>8, <1>9, <1>10, <1>11 DEF M!ForwardStep

\* So does closing the output.
LEMMA MergeClosesOut ==
  ASSUME ChannelsOk, MergeInv, M!CloseOut
  PROVE  /\ Acts({"s1", "s2"}, {"m"}) /\ MergeInv' /\ canceled' = canceled
         /\ Log("m")' = Log("m") /\ \A j \in Two : Delivered(j)' = Delivered(j)
<1>1. /\ ~merge.closed /\ (\A i \in Two : merge.pc[i] = "gone") /\ ch' = Close(ch, {"m"})
      /\ merge' = [merge EXCEPT !.closed = TRUE] /\ canceled' = canceled
  BY MergeChannelOps DEF M!CloseOut
<1>2. Shaped(ch) /\ "m" \in Names /\ "s1" \in Names /\ "s2" \in Names /\ ~Shut("m")
  BY <1>1 DEF ChannelsOk, Shaped, Names, MergeInv
<1>3. (\A c \in {"m"} : Closed(c)) /\ Shaped(ch') /\ OnlyOn({"m"})
  BY <1>1, <1>2, CloseDoes
<1>4. /\ Acts({"s1", "s2"}, {"m"}) /\ ch'["s1"] = ch["s1"] /\ ch'["s2"] = ch["s2"]
      /\ Log("m")' = Log("m") /\ ~Busy("m")' /\ Shut("m")'
  BY <1>2, <1>3 DEF Acts, Takes, Sends, OnlyOn, Closed, Log, Busy, Shut
<1>5. MergeShape' /\ (\A i \in Two : SameForwarder(i)) /\ merge'.closed /\ merge'.ctxErr = merge.ctxErr
  BY <1>1 DEF MergeInv, MergeShape, MergeFields, SameForwarder
<1>6. ASSUME NEW i \in Two
      PROVE  MergeForwarder(i)'
  <2>1. MergeForwarder(i) /\ SameForwarder(i) /\ merge.pc[i] = "gone" /\ (merge.ctxErr => merge'.ctxErr)
        /\ ch'[Srcs[i]] = ch[Srcs[i]]
    BY <1>1, <1>4, <1>5 DEF MergeInv, Srcs, Two
  <2>2. QED
    BY <2>1, ForwarderKept
<1>7. MergeInv'
  <2>1. merge.ctxErr => canceled /\ \E i \in Two : merge.dropped[i] > 0
    BY DEF MergeInv
  <2>2. \A i \in Two : merge'.pc[i] = "gone" /\ merge'.dropped[i] = merge.dropped[i]
    BY <1>1, <1>5 DEF SameForwarder
  <2>3. merge'.ctxErr => canceled' /\ \E i \in Two : merge'.dropped[i] > 0
    BY <1>1, <1>5, <2>1, <2>2
  <2>4. /\ ~(merge'.pc[1] = "send" /\ merge'.pc[2] = "send")
    BY <2>2 DEF Two
  <2>5. QED
    BY <1>4, <1>5, <1>6, <2>2, <2>3, <2>4 DEF MergeInv, MergeShape
<1>8. \A j \in Two : Delivered(j)' = Delivered(j)
  BY <1>1, <1>5 DEF Delivered, SameForwarder, One
<1>9. QED
  BY <1>1, <1>4, <1>7, <1>8

\* What a forwarder has delivered is a number.
LEMMA DeliveredIsNat ==
  ASSUME MergeInv
  PROVE  \A i \in Two : Delivered(i) \in Nat
BY DEF MergeInv, MergeForwarder, Delivered, One

\* The steps of the merge, and those on its sources, leave what it has
\* delivered in order.
LEMMA MergeOrderStays ==
  ASSUME MergeOrder, MergeTotal, ChannelsOk, Takes("s1") \/ Sends("s1"), Takes("s2") \/ Sends("s2"),
         Log("m")' = Log("m"), \A j \in Two : Delivered(j)' = Delivered(j)
  PROVE  MergeOrder' /\ MergeTotal'
<1>1. PICK from \in [1..Len(Log("m")) -> Two] :
        Interleaves(from) /\ \A i \in Two : CountTo(from, i, Len(Log("m"))) = Delivered(i)
  BY DEF MergeOrder
<1>2. ASSUME NEW c \in {"s1", "s2"}
      PROVE  Len(Log(c)) <= Len(Log(c)') /\ \A n \in 1..Len(Log(c)) : Log(c)'[n] = Log(c)[n]
  <2>1. c \in Names /\ Log(c) \in Seq(Carries(c))
    BY DEF Names, ChannelsOk, Log
  <2>2. CASE Takes(c)
    BY <2>1, <2>2, LogsGrow
  <2>3. CASE Sends(c)
    BY <2>1, <2>3 DEF Sends, Log
  <2>4. QED
    BY <2>2, <2>3
<1>3. Interleaves(from)'
  <2>1. ASSUME NEW j \in DOMAIN from, NEW n, NEW s \in {"s1", "s2"}, n = CountTo(from, from[j], j),
               s = <<"s1", "s2">>[from[j]]
        PROVE  n <= Len(Log(s)') /\ Log("m")'[j] = Log(s)'[n]
    <3>1. n <= Len(Log(s)) /\ Log("m")[j] = Log(s)[n]
      BY <1>1, <2>1 DEF Interleaves
    <3>2. n \in 1..Len(Log(s))
      <4>. DEFINE K == {k \in 1..j : from[k] = from[j]}
      <4>1. j \in 1..Len(Log("m")) /\ j \in Nat /\ j \in 1..j
        BY <1>1
      <4>2. IsFiniteSet(1..j)
        BY <4>1, FS_Interval
      <4>3. IsFiniteSet(K) /\ K # {}
        <5>1. IsFiniteSet(K)
          BY <4>2, FS_Subset
        <5>2. j \in K
          BY <4>1
        <5>3. QED
          BY <5>1, <5>2
      <4>4. n = Cardinality(K)
        BY <2>1 DEF CountTo
      <4>. HIDE DEF K
      <4>5. n \in Nat /\ n # 0
        BY <4>3, <4>4, FS_CardinalityType, FS_EmptySet
      <4>6. Len(Log(s)) \in Nat
        <5>1. s \in Names
          BY DEF Names
        <5>2. Log(s) \in Seq(Carries(s))
          BY <5>1 DEF ChannelsOk, Log
        <5>3. QED
          BY <5>2
      <4>7. QED
        BY <3>1, <4>5, <4>6
    <3>3. Len(Log(s)) <= Len(Log(s)') /\ \A k \in 1..Len(Log(s)) : Log(s)'[k] = Log(s)[k]
      BY <1>2
    <3>4. Len(Log(s)) \in Nat /\ Len(Log(s)') \in Nat /\ n \in Nat
      <4>1. s \in Names
        BY DEF Names
      <4>2. Log(s) \in Seq(Carries(s)) /\ (Log(s)' = Log(s) \/ Took(s))
        BY <4>1 DEF ChannelsOk, Log, Takes, Sends
      <4>3. Took(s) => Len(Log(s)') = Len(Log(s)) + 1
        <5>1. Took(s) => Log(s)' = Append(Log(s), Value(s)) /\ Value(s) \in Carries(s)
          BY <4>1 DEF Took, Log, Value, ChannelsOk
        <5>2. QED
          BY <4>2, <5>1
      <4>4. QED
        BY <3>2, <4>2, <4>3
    <3>5. QED
      BY <3>1, <3>2, <3>3, <3>4
  <2>2. \A j \in DOMAIN from : <<"s1", "s2">>[from[j]] \in {"s1", "s2"}
    BY <1>1 DEF Two
  <2>3. QED
    BY <2>1, <2>2 DEF Interleaves, Log
<1>4. MergeOrder'
  BY <1>1, <1>3 DEF MergeOrder
<1>5. MergeTotal'
  BY DEF MergeTotal, Two
<1>6. QED
  BY <1>4, <1>5

\* Counting the items of a source looks no further than where it stops.
LEMMA CountKept ==
  ASSUME NEW f, NEW g, NEW L \in Nat, \A k \in 1..L : g[k] = f[k], NEW j \in Nat, j <= L, NEW x
  PROVE  CountTo(g, x, j) = CountTo(f, x, j)
<1>1. \A k \in 1..j : g[k] = f[k]
  OBVIOUS
<1>2. {k \in 1..j : g[k] = x} = {k \in 1..j : f[k] = x}
  BY <1>1
<1>3. QED
  BY <1>2 DEF CountTo

\* Counting one item more.
LEMMA CountNext ==
  ASSUME NEW f, NEW L \in Nat, NEW x
  PROVE  /\ CountTo(f, x, L) \in Nat
         /\ CountTo(f, x, L + 1) = IF f[L + 1] = x THEN CountTo(f, x, L) + 1 ELSE CountTo(f, x, L)
<1>. DEFINE K == {k \in 1..L : f[k] = x}
            N == {k \in 1..(L + 1) : f[k] = x}
<1>1. IsFiniteSet(1..L)
  BY FS_Interval
<1>2. IsFiniteSet(K) /\ L + 1 \notin K
  BY <1>1, FS_Subset
<1>3. N = IF f[L + 1] = x THEN K \cup {L + 1} ELSE K
  OBVIOUS
<1>4. CountTo(f, x, L) = Cardinality(K) /\ CountTo(f, x, L + 1) = Cardinality(N)
  BY DEF CountTo
<1>. HIDE DEF K, N
<1>5. Cardinality(K) \in Nat
  BY <1>2, FS_CardinalityType
<1>6. Cardinality(K \cup {L + 1}) = Cardinality(K) + 1
  BY <1>2, FS_AddElement
<1>7. QED
  BY <1>3, <1>4, <1>5, <1>6

\* The receiver of the output takes the item of the forwarder that sends it.
LEMMA MergeOrderGrows ==
  ASSUME ChannelsOk, MergeInv, MergeOrder, MergeTotal, Took("m"), merge' = merge,
         Log("s1")' = Log("s1"), Log("s2")' = Log("s2")
  PROVE  MergeOrder' /\ MergeTotal'
<1>0. /\ Log("m") \in Seq(Results) /\ Len(Log("m")) \in Nat
      /\ Log("m")' = Append(Log("m"), Value("m")) /\ Value("m") \in Results
  BY DEF ChannelsOk, Names, Carries, ItemChannels, Log, Value, Took
<1>. PICK L \in Nat : L = Len(Log("m"))
  BY <1>0
<1>1. L = Len(Log("m"))
  OBVIOUS
<1>2. Len(Log("m")') = L + 1 /\ Log("m")'[L + 1] = Value("m") /\ \A k \in 1..L : Log("m")'[k] = Log("m")[k]
  BY <1>0, <1>1
<1>3. PICK i \in Two, o \in Two : i # o /\ Two = {i, o} /\ merge.pc[i] = "send" /\ merge.pc[o] # "send"
  <2>1. Busy("m")
    BY DEF Took, Busy
  <2>2. (merge.pc[1] = "send" /\ merge.pc[2] # "send") \/ (merge.pc[2] = "send" /\ merge.pc[1] # "send")
    BY <2>1 DEF MergeInv
  <2>3. Two = {1, 2} /\ Two = {2, 1}
    BY DEF Two
  <2>4. QED
    BY <2>2, <2>3
<1>4. /\ Delivered(i) = merge.forwarded[i] /\ Delivered(i)' = merge.forwarded[i] + 1
      /\ Delivered(o)' = Delivered(o) /\ Delivered(i) \in Nat /\ Delivered(o) \in Nat
  <2>1. Taken("m")' /\ ~Taken("m")
    BY DEF Took, Taken
  <2>2. merge.forwarded[i] \in Nat /\ merge.forwarded[o] \in Nat
    BY DEF MergeInv, MergeForwarder
  <2>3. QED
    BY <1>3, <2>1, <2>2 DEF Delivered, One
<1>5. /\ Value("m") = Log(Srcs[i])[merge.forwarded[i] + 1] /\ merge.forwarded[i] + 1 <= Len(Log(Srcs[i]))
  <2>1. MergeForwarder(i)
    BY DEF MergeInv
  <2>2. Srcs[i] = <<"s1", "s2">>[i]
    BY DEF Srcs
  <2>3. /\ merge.dropped[i] = 0 /\ merge.received[i] = merge.forwarded[i] + 1
        /\ merge.received[i] = Len(Log(Srcs[i])) /\ merge.cur[i] = Log(Srcs[i])[Len(Log(Srcs[i]))]
        /\ merge.cur[i] = Value("m") /\ merge.forwarded[i] \in Nat
    BY <1>3, <2>1, <2>2 DEF MergeForwarder, One
  <2>4. merge.forwarded[i] + 1 = Len(Log(Srcs[i]))
    BY <2>3
  <2>5. merge.forwarded[i] + 1 <= Len(Log(Srcs[i]))
    BY <2>3, <2>4
  <2>6. QED
    BY <2>3, <2>4, <2>5
<1>6. PICK from \in [1..L -> Two] : Interleaves(from) /\ \A x \in Two : CountTo(from, x, L) = Delivered(x)
  BY <1>1 DEF MergeOrder
<1>7. PICK next \in [1..(L + 1) -> Two] : next[L + 1] = i /\ \A k \in 1..L : next[k] = from[k]
  <2>. DEFINE f == [k \in 1..(L + 1) |-> IF k = L + 1 THEN i ELSE from[k]]
  <2>1. f \in [1..(L + 1) -> Two] /\ f[L + 1] = i /\ \A k \in 1..L : f[k] = from[k]
    BY <1>6
  <2>2. QED
    BY <2>1
<1>8. \A k \in 1..(L + 1) : next[k] \in Two
  BY <1>7
<1>9. \A x \in Two : /\ CountTo(next, x, L) = Delivered(x)
                     /\ CountTo(next, x, L + 1) = IF x = i THEN Delivered(x) + 1 ELSE Delivered(x)
  <2>1. ASSUME NEW x \in Two
        PROVE  /\ CountTo(next, x, L) = Delivered(x)
               /\ CountTo(next, x, L + 1) = IF x = i THEN Delivered(x) + 1 ELSE Delivered(x)
    <3>1. CountTo(next, x, L) = CountTo(from, x, L)
      <4>1. {k \in 1..L : next[k] = x} = {k \in 1..L : from[k] = x}
        BY <1>7
      <4>2. QED
        BY <4>1 DEF CountTo
    <3>2. CountTo(next, x, L + 1) = IF next[L + 1] = x THEN CountTo(next, x, L) + 1 ELSE CountTo(next, x, L)
      BY <1>1, CountNext
    <3>3. QED
      BY <1>6, <1>7, <3>1, <3>2
  <2>2. QED
    BY <2>1
<1>10. \A x \in Two : Log(<<"s1", "s2">>[x])' = Log(<<"s1", "s2">>[x])
  BY DEF Two, Log
<1>11. Interleaves(next)'
  <2>1. ASSUME NEW j \in 1..(L + 1), NEW n, n = CountTo(next, next[j], j)
        PROVE  n <= Len(Log(<<"s1", "s2">>[next[j]])) /\ Log("m")'[j] = Log(<<"s1", "s2">>[next[j]])[n]
    <3>1. CASE j = L + 1
      <4>1. n = Delivered(i) + 1
        BY <1>7, <1>9, <2>1, <3>1
      <4>2. n = merge.forwarded[i] + 1 /\ next[j] = i
        BY <1>4, <1>7, <3>1, <4>1
      <4>3. QED
        BY <1>2, <1>5, <3>1, <4>2 DEF Srcs
    <3>2. CASE j \in 1..L
      <4>1. n = CountTo(from, from[j], j) /\ next[j] = from[j]
        <5>1. next[j] = from[j] /\ j \in Nat /\ j <= L
          BY <1>1, <1>7, <3>2
        <5>2. CountTo(next, from[j], j) = CountTo(from, from[j], j)
          BY <1>7, <5>1, CountKept
        <5>3. QED
          BY <2>1, <5>1, <5>2
      <4>2. j \in DOMAIN from
        BY <1>6, <3>2
      <4>3. n <= Len(Log(<<"s1", "s2">>[from[j]])) /\ Log("m")[j] = Log(<<"s1", "s2">>[from[j]])[n]
        BY <1>6, <4>1, <4>2 DEF Interleaves
      <4>4. Log("m")'[j] = Log("m")[j]
        BY <1>2, <3>2
      <4>5. QED
        BY <4>1, <4>3, <4>4
    <3>3. QED
      BY <1>1, <3>1, <3>2
  <2>2. DOMAIN next = 1..(L + 1)
    BY <1>7
  <2>3. ASSUME NEW j \in 1..(L + 1)
        PROVE  LET n == CountTo(next, next[j], j)
                   source == Log(<<"s1", "s2">>[next[j]])'
               IN  n <= Len(source) /\ Log("m")'[j] = source[n]
    <3>1. Log(<<"s1", "s2">>[next[j]])' = Log(<<"s1", "s2">>[next[j]])
      BY <1>8, <1>10
    <3>2. QED
      BY <2>1, <3>1
  <2>4. QED
    BY <2>2, <2>3 DEF Interleaves, Log
<1>12. Len(Log("m")') = L + 1
  BY <1>2
<1>13. \A x \in Two : Delivered(x)' = IF x = i THEN Delivered(x) + 1 ELSE Delivered(x)
  <2>1. \A x \in Two : x = i \/ x = o
    BY <1>3
  <2>2. QED
    BY <1>3, <1>4, <2>1
<1>14. \A x \in Two : CountTo(next, x, Len(Log("m")')) = Delivered(x)'
  BY <1>9, <1>12, <1>13
<1>15. MergeOrder'
  BY <1>7, <1>11, <1>12, <1>14 DEF MergeOrder
<1>16. MergeTotal'
  <2>1. L = Delivered(i) + Delivered(o)
    BY <1>3, <1>4 DEF MergeTotal, Two
  <2>2. Len(Log("m")') = Delivered(i)' + Delivered(o)'
    BY <1>1, <1>4, <1>12, <2>1
  <2>3. (i = 1 /\ o = 2) \/ (i = 2 /\ o = 1)
    BY <1>3 DEF Two
  <2>4. Delivered(1)' \in Nat /\ Delivered(2)' \in Nat
    BY <1>4, <2>3
  <2>5. QED
    BY <2>2, <2>3, <2>4 DEF MergeTotal
<1>17. QED
  BY <1>15, <1>16

\* The senders of its sources and the receiver of its output leave the merge in balance.
LEMMA MergeKept ==
  ASSUME ChannelsOk, MergeInv, MergeOrder, MergeTotal, merge' = merge, canceled => canceled',
         Sends("s1"), Sends("s2"), Takes("m")
  PROVE  MergeInv' /\ MergeOrder' /\ MergeTotal'
<1>1. Log("s1")' = Log("s1") /\ Log("s2")' = Log("s2")
  BY DEF Sends, Log
<1>2. /\ Busy("m")' <=> Busy("m")
      /\ Shut("m")' <=> Shut("m")
      /\ Busy("m") => Value("m")' = Value("m")
  BY DEF Takes, Took, Busy, Shut, Value
<1>3. MergeInv'
  <2>1. \A i \in Two : Log(<<"s1", "s2">>[i])' = Log(<<"s1", "s2">>[i])
    BY <1>1 DEF Two, Log
  <2>2. \A i \in Two : MergeForwarder(i)'
    BY <1>2, <2>1 DEF MergeInv, MergeForwarder
  <2>3. QED
    BY <1>2, <2>2 DEF MergeInv
<1>4. CASE ch'["m"] = ch["m"]
  <2>1. Log("m")' = Log("m") /\ \A j \in Two : Delivered(j)' = Delivered(j)
    BY <1>4 DEF Log, Delivered, Taken
  <2>2. QED
    BY <1>3, <2>1, MergeOrderStays
<1>5. CASE Took("m")
  BY <1>1, <1>3, <1>5, MergeOrderGrows
<1>6. QED
  BY <1>4, <1>5 DEF Takes

-------------------------------------------------------------------------------
\* The join uses the channels of the network.
LEMMA JoinChannelOps ==
  /\ \A f, c : J!Take(f, c) = Take(f, c) /\ J!Clear(f, c) = Clear(f, c)
  /\ \A f, c, v : J!Put(f, c, v) = Put(f, c, v)
  /\ \A f, C : J!Close(f, C) = Close(f, C)
  /\ \A c : /\ J!Ready(c) = Ready(c) /\ J!Taken(c) = Taken(c) /\ J!Shut(c) = Shut(c)
            /\ J!Free(c) = Free(c) /\ J!Value(c) = Value(c)
  /\ J!Sides = Sides
BY DEF J!Take, Take, J!Clear, Clear, J!Put, Put, J!Close, Close, J!Ready, Ready,
       J!Taken, Taken, J!Shut, Shut, J!Free, Free, J!Value, Value, J!Sides, Sides

Feeds(x) == [A |-> "b1", B |-> "b2"][x]
JoinShape ==
  /\ DOMAIN join = JoinFields
  /\ DOMAIN join.side = Sides /\ join.first \in [Sides -> BatchResults] /\ DOMAIN join.received = Sides
  /\ DOMAIN join.discarded = Sides /\ DOMAIN join.extra = Sides
  /\ join.ctxErr \in BOOLEAN /\ join.combined \in Nat /\ join.errors \in Nat

\* The two sides of the join are two channels, and not its output.
LEMMA FeedsNames ==
  /\ \A x \in Sides : /\ Feeds(x) \in {"b1", "b2"} /\ Feeds(x) \in Names /\ Feeds(x) # "out"
                      /\ Carries(Feeds(x)) = BatchResults
  /\ \A x, y \in Sides : x # y => Feeds(x) # Feeds(y) /\ {"b1", "b2"} = {Feeds(x), Feeds(y)}
  /\ {"b1", "b2"} = {Feeds(x) : x \in Sides}
<1>1. Feeds("A") = "b1" /\ Feeds("B") = "b2"
  BY DEF Feeds
<1>2. QED
  BY <1>1 DEF Sides, Names, Carries, ItemChannels

\* A step that takes an item from one side.
LEMMA JoinReceives ==
  ASSUME ChannelsOk, NEW x \in Sides, NEW y \in Sides, x # y,
         Ready(Feeds(x)), ch' = Take(ch, Feeds(x))
  PROVE  /\ Acts({"b1", "b2"}, {"out"}) /\ ch'["out"] = ch["out"] /\ ch'[Feeds(y)] = ch[Feeds(y)]
         /\ Value(Feeds(x)) \in BatchResults /\ ~Shut(Feeds(x)) /\ ~Shut(Feeds(x))'
         /\ Log("out")' = Log("out") /\ Busy("out")' = Busy("out") /\ Shut("out")' = Shut("out")
         /\ Ready("out")' = Ready("out")
<1>1. Shaped(ch) /\ Feeds(x) \in Names /\ Feeds(y) \in Names /\ "out" \in Names
      /\ Feeds(x) # "out" /\ Feeds(y) # "out" /\ Feeds(x) # Feeds(y)
      /\ {"b1", "b2"} = {Feeds(x), Feeds(y)} /\ Carries(Feeds(x)) = BatchResults
  BY FeedsNames DEF ChannelsOk, Shaped, Names
<1>2. Shaped(ch') /\ Took(Feeds(x)) /\ OnlyOn({Feeds(x)})
  BY <1>1, TakeDoes
<1>3. ch'["out"] = ch["out"] /\ ch'[Feeds(y)] = ch[Feeds(y)]
  BY <1>1, <1>2 DEF OnlyOn
<1>4. Acts({"b1", "b2"}, {"out"})
  BY <1>1, <1>2, <1>3 DEF Acts, Takes, Sends, OnlyOn
<1>5. Value(Feeds(x)) \in BatchResults /\ ~Shut(Feeds(x)) /\ ~Shut(Feeds(x))'
  BY <1>1, <1>2 DEF ChannelsOk, Value, Shut, Took
<1>6. QED
  BY <1>3, <1>4, <1>5 DEF Log, Busy, Shut, Ready

\* A step that leaves the channels alone.
LEMMA JoinAlone ==
  ASSUME ChannelsOk, ch' = ch
  PROVE  /\ Acts({"b1", "b2"}, {"out"}) /\ (\A x \in Sides : ch'[Feeds(x)] = ch[Feeds(x)])
         /\ Log("out")' = Log("out") /\ Busy("out")' = Busy("out") /\ Shut("out")' = Shut("out")
         /\ Ready("out")' = Ready("out")
BY DEF ChannelsOk, Shaped, Acts, Takes, Sends, OnlyOn, Log, Busy, Shut, Ready

\* A step that offers the result.
LEMMA JoinOffers ==
  ASSUME ChannelsOk, NEW v \in Outcomes, ~Busy("out"), ~Shut("out"), ch' = Put(ch, "out", v)
  PROVE  /\ Acts({"b1", "b2"}, {"out"}) /\ (\A x \in Sides : ch'[Feeds(x)] = ch[Feeds(x)])
         /\ Log("out")' = Log("out") /\ Busy("out")' /\ ~Shut("out")' /\ Ready("out")'
<1>1. Shaped(ch) /\ "out" \in Names /\ Carries("out") = Outcomes /\ "b1" \in Names /\ "b2" \in Names
      /\ \A x \in Sides : Feeds(x) \in Names \ {"out"}
  BY FeedsNames DEF ChannelsOk, Shaped, Names, Carries, ItemChannels
<1>2. Offered("out", v) /\ Shaped(ch') /\ OnlyOn({"out"})
  BY <1>1, PutDoes
<1>3. \A c \in Names \ {"out"} : ch'[c] = ch[c]
  BY <1>2 DEF OnlyOn
<1>4. Acts({"b1", "b2"}, {"out"})
  BY <1>1, <1>2, <1>3 DEF Acts, Takes, Sends, OnlyOn, Offered, Shut, Names
<1>5. QED
  BY <1>1, <1>2, <1>3, <1>4 DEF Offered, Log, Busy, Shut, Ready

\* A step that has sent the result, or takes it back.
LEMMA JoinClears ==
  ASSUME ChannelsOk, Busy("out"), ch' = Clear(ch, "out")
  PROVE  /\ Acts({"b1", "b2"}, {"out"}) /\ (\A x \in Sides : ch'[Feeds(x)] = ch[Feeds(x)])
         /\ Log("out")' = Log("out") /\ ~Busy("out")' /\ ~Shut("out")' /\ ~Ready("out")'
<1>1. Shaped(ch) /\ "out" \in Names /\ "b1" \in Names /\ "b2" \in Names
      /\ \A x \in Sides : Feeds(x) \in Names \ {"out"}
  BY FeedsNames DEF ChannelsOk, Shaped, Names
<1>2. Cleared("out") /\ Shaped(ch') /\ OnlyOn({"out"})
  BY <1>1, ClearDoes
<1>3. \A c \in Names \ {"out"} : ch'[c] = ch[c]
  BY <1>2 DEF OnlyOn
<1>4. Acts({"b1", "b2"}, {"out"})
  BY <1>1, <1>2, <1>3 DEF Acts, Takes, Sends, OnlyOn, Cleared, Busy, Names
<1>5. QED
  BY <1>1, <1>2, <1>3, <1>4 DEF Cleared, Log, Busy, Shut, Ready

\* The step that closes the output.
LEMMA JoinCloses ==
  ASSUME ChannelsOk, ~Shut("out"), ch' = Close(ch, {"out"})
  PROVE  /\ Acts({"b1", "b2"}, {"out"}) /\ (\A x \in Sides : ch'[Feeds(x)] = ch[Feeds(x)])
         /\ Log("out")' = Log("out") /\ ~Busy("out")' /\ Shut("out")' /\ ~Ready("out")'
<1>1. Shaped(ch) /\ "out" \in Names /\ "b1" \in Names /\ "b2" \in Names
      /\ \A x \in Sides : Feeds(x) \in Names \ {"out"}
  BY FeedsNames DEF ChannelsOk, Shaped, Names
<1>2. Closed("out") /\ Shaped(ch') /\ OnlyOn({"out"})
  BY <1>1, CloseDoes
<1>3. \A c \in Names \ {"out"} : ch'[c] = ch[c]
  BY <1>2 DEF OnlyOn
<1>4. Acts({"b1", "b2"}, {"out"})
  BY <1>1, <1>2, <1>3 DEF Acts, Takes, Sends, OnlyOn, Closed, Shut, Names
<1>5. QED
  BY <1>1, <1>2, <1>3, <1>4 DEF Closed, Log, Busy, Shut, Ready

\* Parts of the invariant of the join that speak of its state alone and of
\* its output.
JoinRest ==
  /\ join.pc \in {"collect", "emit", "send", "discard", "extras", "exited"}
  /\ join.combined + join.errors <= 1
  /\ join.ctxErr => canceled
  /\ join.combined = 1 => \A x \in Sides : J!HasItem(x)
  /\ join.pc = "collect" => join.combined + join.errors = 0 /\ ~join.ctxErr
  /\ join.pc \in {"emit", "send"} => join.combined + join.errors = 1 /\ ~join.ctxErr
  /\ join.pc \in {"extras", "discard", "exited"} /\ ~join.ctxErr /\ join.combined + join.errors = 0 =>
       \A x \in Sides : join.side[x] = "closedEmpty"
  /\ join.pc = "discard" => join.ctxErr /\ join.combined = 0
JoinOutput ==
  /\ Busy("out") <=> join.pc = "send"
  /\ Shut("out") => join.pc = "exited"
  /\ Len(Log("out")) = IF join.pc \in {"collect", "emit"} \/ (join.pc = "send" /\ Ready("out")) THEN 0
                       ELSE join.combined + join.errors

\* The invariant of the join, in its parts.
LEMMA JoinInvParts ==
  JoinInv <=> JoinShape /\ (\A x \in Sides : JoinSide(x)) /\ JoinRest /\ JoinOutput
BY DEF JoinInv, JoinShape, JoinRest, JoinOutput

\* The same of the next state.
LEMMA JoinInvPartsNext ==
  ASSUME JoinShape', \A x \in Sides : JoinSide(x)', JoinRest', JoinOutput'
  PROVE  JoinInv'
BY DEF JoinInv, JoinShape, JoinRest, JoinOutput

SameSide(x) ==
  /\ join'.side[x] = join.side[x] /\ join'.first[x] = join.first[x]
  /\ join'.received[x] = join.received[x] /\ join'.discarded[x] = join.discarded[x]
  /\ join'.extra[x] = join.extra[x]

\* Collecting an item keeps the counters of both sides.
LEMMA JoinCollects ==
  ASSUME ChannelsOk, JoinInv, NEW x \in Sides, J!Collect(x)
  PROVE  Acts({"b1", "b2"}, {"out"}) /\ JoinInv'
<1>. PICK y \in Sides : y # x /\ Sides = {x, y}
  BY DEF Sides
<1>. DEFINE s == [join EXCEPT !.received[x] = @ + 1]
<1>1. /\ join.pc = "collect" /\ Ready(Feeds(x)) /\ ch' = Take(ch, Feeds(x)) /\ canceled' = canceled
      /\ join' = IF join.side[x] = "open"
                 THEN [s EXCEPT !.side[x] = "gotFirst", !.first[x] = Value(Feeds(x))]
                 ELSE [s EXCEPT !.extra[x] = @ + 1]
  BY JoinChannelOps DEF J!Collect, Feeds
<1>2. JoinShape /\ JoinSide(x) /\ JoinSide(y) /\ JoinRest /\ JoinOutput
  BY JoinInvParts
<1>3. /\ Acts({"b1", "b2"}, {"out"}) /\ ch'["out"] = ch["out"] /\ ch'[Feeds(y)] = ch[Feeds(y)]
      /\ Value(Feeds(x)) \in BatchResults /\ ~Shut(Feeds(x)) /\ ~Shut(Feeds(x))'
      /\ Log("out")' = Log("out") /\ Busy("out")' = Busy("out") /\ Shut("out")' = Shut("out")
      /\ Ready("out")' = Ready("out")
  BY <1>1, JoinReceives
<1>4. /\ JoinShape' /\ SameSide(y) /\ join'.pc = "collect" /\ join'.ctxErr = join.ctxErr
      /\ join'.combined = join.combined /\ join'.errors = join.errors
      /\ join'.received[x] = join.received[x] + 1 /\ join'.discarded[x] = join.discarded[x]
      /\ \/ /\ join.side[x] = "open" /\ join'.side[x] = "gotFirst" /\ join'.extra[x] = join.extra[x]
            /\ join'.first[x] = Value(Feeds(x))
         \/ /\ join.side[x] # "open" /\ join'.side[x] = join.side[x] /\ join'.extra[x] = join.extra[x] + 1
            /\ join'.first[x] = join.first[x]
  <2>1. CASE join.side[x] = "open"
    BY <1>1, <1>2, <1>3, <2>1 DEF JoinShape, JoinFields, SameSide
  <2>2. CASE join.side[x] # "open"
    BY <1>1, <1>2, <2>2 DEF JoinShape, JoinFields, SameSide
  <2>3. QED
    BY <2>1, <2>2
<1>5. join.side[x] # "closedEmpty"
  BY <1>2, <1>3 DEF JoinSide, Feeds
<1>6. JoinSide(x)'
  <2>1. /\ join.received[x] \in Nat /\ join.discarded[x] = 0 /\ join.extra[x] \in Nat
        /\ join.received[x] = join.extra[x] + One(J!HasItem(x)) /\ join.combined + join.errors = 0
        /\ join.side[x] \in {"open", "gotFirst", "closed"} /\ join.first[x] \in BatchResults
        /\ join.errors \in Nat /\ join.combined \in Nat
    BY <1>1, <1>2, <1>5 DEF JoinSide, JoinRest, JoinShape
  <2>2. /\ join'.received[x] = join'.extra[x] + One(J!HasItem(x)')
        /\ join'.received[x] \in Nat /\ join'.extra[x] \in Nat
    BY <1>4, <2>1 DEF One, J!HasItem
  <2>3. join'.side[x] # "open" /\ join'.side[x] # "closedEmpty"
    BY <1>4, <2>1
  <2>4. QED
    BY <1>3, <1>4, <2>1, <2>2, <2>3 DEF JoinSide
<1>7. JoinSide(y)'
  <2>1. Log([A |-> "b1", B |-> "b2"][y])' = Log([A |-> "b1", B |-> "b2"][y])
        /\ Shut([A |-> "b1", B |-> "b2"][y])' = Shut([A |-> "b1", B |-> "b2"][y])
    BY <1>3 DEF Feeds, Log, Shut
  <2>2. QED
    BY <1>1, <1>2, <1>4, <2>1 DEF JoinSide, SameSide, One, J!HasItem
<1>8. JoinRest'
  <2>1. join.combined # 1
    BY <1>1, <1>2 DEF JoinRest, JoinShape
  <2>2. QED
    BY <1>1, <1>2, <1>4, <2>1 DEF JoinRest
<1>9. JoinOutput'
  BY <1>1, <1>2, <1>3, <1>4 DEF JoinOutput
<1>10. \A z \in Sides : JoinSide(z)'
  <2>1. \A z \in Sides : z = x \/ z = y
    OBVIOUS
  <2>2. QED
    BY <1>6, <1>7, <2>1
<1>11. QED
  BY <1>3, <1>4, <1>8, <1>9, <1>10, JoinInvPartsNext

\* So does learning that a side has ended.
LEMMA JoinSourceEnds ==
  ASSUME ChannelsOk, JoinInv, NEW x \in Sides, J!SourceEnds(x)
  PROVE  Acts({"b1", "b2"}, {"out"}) /\ JoinInv'
<1>. PICK y \in Sides : y # x /\ Sides = {x, y}
  BY DEF Sides
<1>1. /\ join.pc = "collect" /\ Shut(Feeds(x)) /\ ch' = ch /\ canceled' = canceled
      /\ join.side[x] \notin {"closedEmpty", "closed"}
      /\ join' = [join EXCEPT !.side[x] = IF @ = "open" THEN "closedEmpty" ELSE "closed"]
  BY JoinChannelOps DEF J!SourceEnds, J!Resolved, Feeds
<1>2. JoinShape /\ JoinSide(x) /\ JoinSide(y) /\ JoinRest /\ JoinOutput
  BY JoinInvParts
<1>3. /\ Acts({"b1", "b2"}, {"out"}) /\ (\A z \in Sides : ch'[Feeds(z)] = ch[Feeds(z)])
      /\ Log("out")' = Log("out") /\ Busy("out")' = Busy("out") /\ Shut("out")' = Shut("out")
      /\ Ready("out")' = Ready("out")
  BY <1>1, JoinAlone
<1>4. /\ JoinShape' /\ SameSide(y) /\ join'.pc = "collect" /\ join'.ctxErr = join.ctxErr
      /\ join'.combined = join.combined /\ join'.errors = join.errors
      /\ join'.received[x] = join.received[x] /\ join'.discarded[x] = join.discarded[x]
      /\ join'.extra[x] = join.extra[x] /\ join'.first[x] = join.first[x]
      /\ join'.side[x] = IF join.side[x] = "open" THEN "closedEmpty" ELSE "closed"
  BY <1>1, <1>2 DEF JoinShape, JoinFields, SameSide
<1>5. \A z \in Sides : /\ Log([A |-> "b1", B |-> "b2"][z])' = Log([A |-> "b1", B |-> "b2"][z])
                       /\ Shut([A |-> "b1", B |-> "b2"][z])' = Shut([A |-> "b1", B |-> "b2"][z])
  BY <1>3 DEF Feeds, Log, Shut
<1>6. JoinSide(x)'
  <2>1. join.side[x] \in {"open", "gotFirst"}
    BY <1>1, <1>2 DEF JoinSide
  <2>2. J!HasItem(x)' <=> J!HasItem(x)
    BY <1>4, <2>1 DEF J!HasItem
  <2>3. Shut([A |-> "b1", B |-> "b2"][x])
    BY <1>1 DEF Feeds
  <2>4. QED
    BY <1>1, <1>2, <1>4, <1>5, <2>1, <2>2, <2>3 DEF JoinSide, One
<1>7. JoinSide(y)'
  BY <1>1, <1>2, <1>4, <1>5 DEF JoinSide, SameSide, One, J!HasItem
<1>8. JoinRest'
  <2>1. join.combined # 1
    BY <1>1, <1>2 DEF JoinRest, JoinShape
  <2>2. QED
    BY <1>1, <1>2, <1>4, <2>1 DEF JoinRest
<1>9. JoinOutput'
  BY <1>1, <1>2, <1>3, <1>4 DEF JoinOutput
<1>10. \A z \in Sides : JoinSide(z)'
  <2>1. \A z \in Sides : z = x \/ z = y
    OBVIOUS
  <2>2. QED
    BY <1>6, <1>7, <2>1
<1>11. QED
  BY <1>3, <1>4, <1>8, <1>9, <1>10, JoinInvPartsNext

\* So does draining a side.
LEMMA JoinDrains ==
  ASSUME ChannelsOk, JoinInv, NEW x \in Sides, J!Drain(x)
  PROVE  Acts({"b1", "b2"}, {"out"}) /\ JoinInv'
<1>. PICK y \in Sides : y # x /\ Sides = {x, y}
  BY DEF Sides
<1>1. /\ Ready(Feeds(x)) /\ ch' = Take(ch, Feeds(x)) /\ canceled' = canceled
      /\ \/ join.pc = "discard" /\ join' = [join EXCEPT !.received[x] = @ + 1, !.discarded[x] = @ + 1]
         \/ join.pc = "extras" /\ join' = [join EXCEPT !.received[x] = @ + 1, !.extra[x] = @ + 1]
  BY JoinChannelOps DEF J!Drain, Feeds
<1>2. JoinShape /\ JoinSide(x) /\ JoinSide(y) /\ JoinRest /\ JoinOutput
  BY JoinInvParts
<1>3. /\ Acts({"b1", "b2"}, {"out"}) /\ ch'["out"] = ch["out"] /\ ch'[Feeds(y)] = ch[Feeds(y)]
      /\ Value(Feeds(x)) \in BatchResults /\ ~Shut(Feeds(x)) /\ ~Shut(Feeds(x))'
      /\ Log("out")' = Log("out") /\ Busy("out")' = Busy("out") /\ Shut("out")' = Shut("out")
      /\ Ready("out")' = Ready("out")
  BY <1>1, JoinReceives
<1>4. /\ JoinShape' /\ SameSide(y) /\ join'.pc = join.pc /\ join'.ctxErr = join.ctxErr
      /\ join'.combined = join.combined /\ join'.errors = join.errors
      /\ join'.received[x] = join.received[x] + 1 /\ join'.first[x] = join.first[x]
      /\ join'.side[x] = join.side[x] /\ join.pc \in {"discard", "extras"}
      /\ \/ join'.discarded[x] = join.discarded[x] + 1 /\ join'.extra[x] = join.extra[x]
         \/ join'.discarded[x] = join.discarded[x] /\ join'.extra[x] = join.extra[x] + 1
  <2>1. CASE join.pc = "discard" /\ join' = [join EXCEPT !.received[x] = @ + 1, !.discarded[x] = @ + 1]
    BY <1>2, <2>1 DEF JoinShape, JoinFields, SameSide
  <2>2. CASE join.pc = "extras" /\ join' = [join EXCEPT !.received[x] = @ + 1, !.extra[x] = @ + 1]
    BY <1>2, <2>2 DEF JoinShape, JoinFields, SameSide
  <2>3. QED
    BY <1>1, <2>1, <2>2
<1>5. join.side[x] # "closedEmpty"
  BY <1>2, <1>3 DEF JoinSide, Feeds
<1>6. JoinSide(x)'
  <2>1. /\ join.received[x] \in Nat /\ join.discarded[x] \in Nat /\ join.extra[x] \in Nat
        /\ join.received[x] = join.extra[x] + (join.combined + join.discarded[x])
        /\ join.side[x] \in {"open", "gotFirst", "closedEmpty", "closed"} /\ join.first[x] \in BatchResults
        /\ join.combined \in Nat
    BY <1>2, <1>4 DEF JoinSide, JoinShape
  <2>2. /\ join'.received[x] = join'.extra[x] + (join'.combined + join'.discarded[x])
        /\ join'.received[x] \in Nat /\ join'.extra[x] \in Nat /\ join'.discarded[x] \in Nat
    BY <1>4, <2>1
  <2>3. QED
    BY <1>4, <1>5, <2>1, <2>2 DEF JoinSide
<1>7. JoinSide(y)'
  <2>1. Log([A |-> "b1", B |-> "b2"][y])' = Log([A |-> "b1", B |-> "b2"][y])
        /\ Shut([A |-> "b1", B |-> "b2"][y])' = Shut([A |-> "b1", B |-> "b2"][y])
    BY <1>3 DEF Feeds, Log, Shut
  <2>2. QED
    BY <1>2, <1>4, <2>1 DEF JoinSide, SameSide
<1>8. JoinRest'
  <2>1. \A z \in Sides : join'.side[z] = join.side[z]
    BY <1>4 DEF SameSide
  <2>2. QED
    BY <1>1, <1>2, <1>4, <2>1 DEF JoinRest, J!HasItem
<1>9. JoinOutput'
  BY <1>2, <1>3, <1>4 DEF JoinOutput
<1>10. \A z \in Sides : JoinSide(z)'
  <2>1. \A z \in Sides : z = x \/ z = y
    OBVIOUS
  <2>2. QED
    BY <1>6, <1>7, <2>1
<1>11. QED
  BY <1>3, <1>4, <1>8, <1>9, <1>10, JoinInvPartsNext

\* A step after which the join no longer collects.
LEMMA JoinSidesKept ==
  ASSUME JoinInv, \A x \in Sides : ch'[Feeds(x)] = ch[Feeds(x)],
         join'.side = join.side, join'.first = join.first,
         join'.received = join.received, join'.extra = join.extra,
         join'.pc # "collect",
         \A x \in Sides :
           /\ join'.discarded[x] \in Nat
           /\ join.received[x] = join.extra[x] + (join'.combined + join'.discarded[x])
           /\ join'.pc \in {"emit", "send"} /\ join'.errors = 0 => join'.discarded[x] = 0
  PROVE  \A x \in Sides : JoinSide(x)'
<1>1. ASSUME NEW x \in Sides
      PROVE  JoinSide(x)'
  <2>1. /\ Log([A |-> "b1", B |-> "b2"][x])' = Log([A |-> "b1", B |-> "b2"][x])
        /\ Shut([A |-> "b1", B |-> "b2"][x])' = Shut([A |-> "b1", B |-> "b2"][x])
    BY DEF Feeds, Log, Shut
  <2>2. JoinSide(x)
    BY JoinInvParts
  <2>3. QED
    BY <2>1, <2>2 DEF JoinSide
<1>2. QED
  BY <1>1

\* The counters when the join has decided, or given up, and before that.
LEMMA JoinCounts ==
  ASSUME JoinInv
  PROVE  /\ join.combined \in Nat /\ join.errors \in Nat
         /\ \A x \in Sides :
              /\ join.received[x] \in Nat /\ join.discarded[x] \in Nat /\ join.extra[x] \in Nat
              /\ join.pc = "collect" => /\ join.received[x] = join.extra[x] + One(J!HasItem(x))
                                        /\ join.discarded[x] = 0 /\ join.combined = 0 /\ join.errors = 0
              /\ join.pc # "collect" => join.received[x] = join.extra[x] + (join.combined + join.discarded[x])
<1>1. JoinShape /\ JoinRest /\ \A x \in Sides : JoinSide(x)
  BY JoinInvParts
<1>2. join.combined \in Nat /\ join.errors \in Nat
  BY <1>1 DEF JoinShape
<1>3. join.pc = "collect" => join.combined = 0 /\ join.errors = 0
  BY <1>1, <1>2 DEF JoinRest
<1>4. QED
  BY <1>1, <1>2, <1>3 DEF JoinSide

\* A cancelled join counts the first items it holds as discarded.
LEMMA JoinGivesUp ==
  ASSUME ChannelsOk, JoinInv, J!CancelCollect
  PROVE  Acts({"b1", "b2"}, {"out"}) /\ JoinInv'
<1>1. /\ join.pc = "collect" /\ canceled /\ ch' = ch /\ canceled' = canceled
      /\ join' = [J!DiscardFirsts(join) EXCEPT !.ctxErr = TRUE, !.pc = "discard"]
  BY DEF J!CancelCollect
<1>2. JoinShape /\ JoinRest /\ JoinOutput
  BY JoinInvParts
<1>3. /\ Acts({"b1", "b2"}, {"out"}) /\ (\A z \in Sides : ch'[Feeds(z)] = ch[Feeds(z)])
      /\ Log("out")' = Log("out") /\ Busy("out")' = Busy("out") /\ Shut("out")' = Shut("out")
      /\ Ready("out")' = Ready("out")
  BY <1>1, JoinAlone
<1>4. /\ JoinShape' /\ join'.pc = "discard" /\ join'.ctxErr = TRUE
      /\ join'.combined = join.combined /\ join'.errors = join.errors
      /\ join'.side = join.side /\ join'.first = join.first
      /\ join'.received = join.received /\ join'.extra = join.extra
      /\ join'.discarded = [x \in Sides |-> join.discarded[x] + IF J!HasItem(x) THEN 1 ELSE 0]
  BY <1>1, <1>2, JoinChannelOps DEF JoinShape, JoinFields, J!DiscardFirsts
<1>5. \A x \in Sides : JoinSide(x)'
  <2>1. \A x \in Sides :
          /\ join'.discarded[x] \in Nat
          /\ join.received[x] = join.extra[x] + (join'.combined + join'.discarded[x])
    BY <1>1, <1>4, JoinCounts DEF One
  <2>2. QED
    BY <1>3, <1>4, <2>1, JoinSidesKept
<1>6. join'.combined = 0 /\ join'.errors = 0 /\ join'.combined + join'.errors = 0
  BY <1>1, <1>4, JoinCounts DEF Sides
<1>7. JoinRest'
  BY <1>1, <1>4, <1>6 DEF JoinRest
<1>8. JoinOutput'
  BY <1>1, <1>2, <1>3, <1>4, <1>6 DEF JoinOutput
<1>9. QED
  BY <1>3, <1>4, <1>5, <1>7, <1>8, JoinInvPartsNext

\* The decision counts every first item once.
LEMMA JoinDecides ==
  ASSUME ChannelsOk, JoinInv, J!Combine
  PROVE  Acts({"b1", "b2"}, {"out"}) /\ JoinInv'
<1>1. /\ join.pc = "collect" /\ ch' = ch /\ canceled' = canceled
      /\ \A x \in Sides : J!HasItem(x) \/ join.side[x] = "closedEmpty"
  BY JoinChannelOps DEF J!Combine, J!Decided
<1>2. JoinShape /\ JoinRest /\ JoinOutput
  BY JoinInvParts
<1>3. /\ Acts({"b1", "b2"}, {"out"}) /\ (\A z \in Sides : ch'[Feeds(z)] = ch[Feeds(z)])
      /\ Log("out")' = Log("out") /\ (Busy("out")' <=> Busy("out")) /\ (Shut("out")' <=> Shut("out"))
      /\ (Ready("out")' <=> Ready("out"))
  BY <1>1, JoinAlone
<1>4. join.combined = 0 /\ join.errors = 0
  BY <1>1, JoinCounts DEF Sides
<1>5. ~join.ctxErr
  BY <1>1, <1>2 DEF JoinRest
<1>6. CASE (\A x \in Sides : ~J!HasItem(x)) /\ join' = [join EXCEPT !.pc = "extras"]
  <2>1. /\ JoinShape' /\ join'.pc = "extras" /\ join'.ctxErr = join.ctxErr
        /\ join'.combined = 0 /\ join'.errors = 0 /\ join'.combined + join'.errors = 0
        /\ join'.side = join.side /\ join'.first = join.first
        /\ join'.received = join.received /\ join'.extra = join.extra
        /\ join'.discarded = join.discarded
    BY <1>2, <1>4, <1>6 DEF JoinShape, JoinFields
  <2>2. \A x \in Sides : JoinSide(x)'
    <3>1. \A x \in Sides :
            /\ join'.discarded[x] \in Nat
            /\ join.received[x] = join.extra[x] + (join'.combined + join'.discarded[x])
      BY <1>1, <1>6, <2>1, JoinCounts DEF One
    <3>2. QED
      BY <1>3, <2>1, <3>1, JoinSidesKept
  <2>3. JoinRest'
    BY <1>1, <1>2, <1>6, <2>1 DEF JoinRest
  <2>4. JoinOutput'
    BY <1>1, <1>2, <1>3, <2>1 DEF JoinOutput
  <2>5. QED
    BY <1>3, <2>1, <2>2, <2>3, <2>4, JoinInvPartsNext
<1>7. CASE (\A x \in Sides : J!HasItem(x)) /\ join' = [join EXCEPT !.combined = 1, !.pc = "emit"]
  <2>1. /\ JoinShape' /\ join'.pc = "emit" /\ join'.ctxErr = FALSE
        /\ join'.combined = 1 /\ join'.errors = 0 /\ join'.combined + join'.errors = 1
        /\ join'.side = join.side /\ join'.first = join.first
        /\ join'.received = join.received /\ join'.extra = join.extra
        /\ join'.discarded = join.discarded
    BY <1>2, <1>4, <1>5, <1>7 DEF JoinShape, JoinFields
  <2>2. \A x \in Sides : JoinSide(x)'
    <3>1. \A x \in Sides :
            /\ join'.discarded[x] = 0
            /\ join.received[x] = join.extra[x] + (join'.combined + join'.discarded[x])
      BY <1>1, <1>7, <2>1, JoinCounts DEF One
    <3>2. QED
      BY <1>3, <2>1, <3>1, JoinSidesKept
  <2>3. JoinRest'
    BY <1>7, <2>1 DEF JoinRest, J!HasItem
  <2>4. JoinOutput'
    BY <1>1, <1>2, <1>3, <1>4, <2>1 DEF JoinOutput
  <2>5. QED
    BY <1>3, <2>1, <2>2, <2>3, <2>4, JoinInvPartsNext
<1>8. CASE join' = [J!DiscardFirsts(join) EXCEPT !.errors = 1, !.pc = "emit"]
  <2>1. /\ JoinShape' /\ join'.pc = "emit" /\ join'.ctxErr = FALSE
        /\ join'.combined = 0 /\ join'.errors = 1 /\ join'.combined + join'.errors = 1
        /\ join'.side = join.side /\ join'.first = join.first
        /\ join'.received = join.received /\ join'.extra = join.extra
        /\ join'.discarded = [x \in Sides |-> join.discarded[x] + IF J!HasItem(x) THEN 1 ELSE 0]
    BY <1>2, <1>4, <1>5, <1>8, JoinChannelOps DEF JoinShape, JoinFields, J!DiscardFirsts
  <2>2. \A x \in Sides : JoinSide(x)'
    <3>1. \A x \in Sides :
            /\ join'.discarded[x] \in Nat
            /\ join.received[x] = join.extra[x] + (join'.combined + join'.discarded[x])
      BY <1>1, <2>1, JoinCounts DEF One
    <3>2. QED
      BY <1>3, <2>1, <3>1, JoinSidesKept
  <2>3. JoinRest'
    BY <2>1 DEF JoinRest
  <2>4. JoinOutput'
    BY <1>1, <1>2, <1>3, <1>4, <2>1 DEF JoinOutput
  <2>5. QED
    BY <1>3, <2>1, <2>2, <2>3, <2>4, JoinInvPartsNext
<1>9. QED
  BY <1>6, <1>7, <1>8, JoinChannelOps DEF J!Combine, J!Have

\* Taking back what was counted for a result that is not delivered.
LEMMA JoinTakesBack ==
  ASSUME JoinInv, join.pc \in {"emit", "send"}, join' = J!Undelivered, canceled, canceled' = canceled
  PROVE  /\ JoinShape' /\ join'.pc = "extras" /\ join'.ctxErr = TRUE
         /\ join'.combined = 0 /\ join'.errors = 0 /\ join'.combined + join'.errors = 0
         /\ join'.side = join.side /\ join'.first = join.first
         /\ join'.received = join.received /\ join'.extra = join.extra
         /\ \A x \in Sides :
              /\ join'.discarded[x] \in Nat
              /\ join.received[x] = join.extra[x] + (join'.combined + join'.discarded[x])
         /\ JoinRest'
<1>1. JoinShape /\ JoinRest /\ join.combined \in Nat /\ join.errors \in Nat /\ join.combined + join.errors = 1
  BY JoinInvParts DEF JoinRest, JoinShape
<1>2. CASE join.combined = 1
  <2>1. join' = [J!DiscardFirsts(join) EXCEPT !.combined = 0, !.ctxErr = TRUE, !.pc = "extras"]
    BY <1>2 DEF J!Undelivered
  <2>2. /\ JoinShape' /\ join'.pc = "extras" /\ join'.ctxErr = TRUE
        /\ join'.combined = 0 /\ join'.errors = join.errors
        /\ join'.side = join.side /\ join'.first = join.first
        /\ join'.received = join.received /\ join'.extra = join.extra
        /\ join'.discarded = [x \in Sides |-> join.discarded[x] + IF J!HasItem(x) THEN 1 ELSE 0]
    BY <1>1, <2>1, JoinChannelOps DEF JoinShape, JoinFields, J!DiscardFirsts
  <2>3. join.errors = 0
    BY <1>1, <1>2
  <2>4. \A x \in Sides : J!HasItem(x)
    BY <1>1, <1>2 DEF JoinRest
  <2>5. \A x \in Sides :
          /\ join'.discarded[x] \in Nat
          /\ join.received[x] = join.extra[x] + (join'.combined + join'.discarded[x])
    <3>1. ASSUME NEW x \in Sides
          PROVE  /\ join'.discarded[x] \in Nat
                 /\ join.received[x] = join.extra[x] + (join'.combined + join'.discarded[x])
      <4>1. /\ join.received[x] \in Nat /\ join.discarded[x] \in Nat /\ join.extra[x] \in Nat
            /\ join.received[x] = join.extra[x] + (1 + join.discarded[x])
        BY <1>2, JoinCounts
      <4>2. join'.discarded[x] = join.discarded[x] + 1
        BY <2>2, <2>4
      <4>3. QED
        BY <2>2, <4>1, <4>2
    <3>2. QED
      BY <3>1
  <2>6. join'.combined + join'.errors = 0
    BY <2>2, <2>3
  <2>7. JoinRest'
    BY <2>2, <2>6 DEF JoinRest
  <2>8. QED
    BY <2>2, <2>3, <2>5, <2>6, <2>7
<1>3. CASE join.combined # 1
  <2>1. join' = [join EXCEPT !.errors = 0, !.ctxErr = TRUE, !.pc = "extras"]
    BY <1>3 DEF J!Undelivered
  <2>2. join.combined = 0
    BY <1>1, <1>3
  <2>3. /\ JoinShape' /\ join'.pc = "extras" /\ join'.ctxErr = TRUE
        /\ join'.combined = 0 /\ join'.errors = 0
        /\ join'.side = join.side /\ join'.first = join.first
        /\ join'.received = join.received /\ join'.extra = join.extra
        /\ join'.discarded = join.discarded
    BY <1>1, <2>1, <2>2 DEF JoinShape, JoinFields
  <2>4. \A x \in Sides :
          /\ join'.discarded[x] \in Nat
          /\ join.received[x] = join.extra[x] + (join'.combined + join'.discarded[x])
    BY <2>2, <2>3, JoinCounts
  <2>5. join'.combined + join'.errors = 0
    BY <2>3
  <2>6. JoinRest'
    BY <2>3, <2>5 DEF JoinRest
  <2>7. QED
    BY <2>3, <2>4, <2>5, <2>6
<1>4. QED
  BY <1>2, <1>3

\* An emission that is cancelled takes back what was counted for it.
LEMMA JoinEmits ==
  ASSUME ChannelsOk, JoinInv, J!Emit \/ J!Interrupted
  PROVE  Acts({"b1", "b2"}, {"out"}) /\ JoinInv'
<1>1. join.pc \in {"emit", "send"} /\ canceled' = canceled
  BY DEF J!Emit, J!Interrupted
<1>2. JoinShape /\ JoinRest /\ JoinOutput /\ (join.combined + join.errors = 1) /\ ~join.ctxErr
  BY <1>1, JoinInvParts DEF JoinRest
<1>3. CASE join.pc = "emit" /\ canceled /\ join' = J!Undelivered /\ ch' = ch
  <2>1. /\ Acts({"b1", "b2"}, {"out"}) /\ (\A z \in Sides : ch'[Feeds(z)] = ch[Feeds(z)])
        /\ Log("out")' = Log("out") /\ (Busy("out")' <=> Busy("out")) /\ (Shut("out")' <=> Shut("out"))
    BY <1>3, JoinAlone
  <2>2. /\ JoinShape' /\ join'.pc = "extras" /\ join'.combined + join'.errors = 0 /\ JoinRest'
        /\ \A x \in Sides : JoinSide(x)'
    BY <1>1, <1>3, <2>1, JoinTakesBack, JoinSidesKept
  <2>3. JoinOutput'
    BY <1>2, <1>3, <2>1, <2>2 DEF JoinOutput
  <2>4. QED
    BY <2>1, <2>2, <2>3, JoinInvPartsNext
<1>4. CASE join.pc = "send" /\ canceled /\ ~Taken("out") /\ join' = J!Undelivered /\ ch' = Clear(ch, "out")
  <2>1. Busy("out") /\ Ready("out") /\ Len(Log("out")) = 0
    BY <1>2, <1>4 DEF JoinOutput, Busy, Ready, Taken
  <2>2. /\ Acts({"b1", "b2"}, {"out"}) /\ (\A x \in Sides : ch'[Feeds(x)] = ch[Feeds(x)])
        /\ Log("out")' = Log("out") /\ ~Busy("out")' /\ ~Shut("out")' /\ ~Ready("out")'
    BY <1>4, <2>1, JoinClears
  <2>3. /\ JoinShape' /\ join'.pc = "extras" /\ join'.combined + join'.errors = 0 /\ JoinRest'
        /\ \A x \in Sides : JoinSide(x)'
    BY <1>1, <1>4, <2>2, JoinTakesBack, JoinSidesKept
  <2>4. JoinOutput'
    BY <2>1, <2>2, <2>3 DEF JoinOutput
  <2>5. QED
    BY <2>2, <2>3, <2>4, JoinInvPartsNext
<1>5. CASE /\ join.pc = "emit" /\ join' = [join EXCEPT !.pc = "send"]
           /\ ch' = Put(ch, "out", [ok |-> join.combined = 1, of |-> join.first])
  <2>. DEFINE v == [ok |-> join.combined = 1, of |-> join.first]
  <2>1. v \in Outcomes
    BY <1>2 DEF JoinShape, Outcomes, Sides
  <2>2. ~Busy("out") /\ ~Shut("out") /\ Len(Log("out")) = 0
    BY <1>2, <1>5 DEF JoinOutput
  <2>. HIDE DEF v
  <2>3. ch' = Put(ch, "out", v)
    BY <1>5 DEF v
  <2>4. /\ Acts({"b1", "b2"}, {"out"}) /\ (\A x \in Sides : ch'[Feeds(x)] = ch[Feeds(x)])
        /\ Log("out")' = Log("out") /\ Busy("out")' /\ ~Shut("out")' /\ Ready("out")'
    BY <2>1, <2>2, <2>3, JoinOffers
  <2>5. /\ JoinShape' /\ join'.pc = "send" /\ join'.ctxErr = join.ctxErr
        /\ join'.combined = join.combined /\ join'.errors = join.errors
        /\ join'.side = join.side /\ join'.first = join.first
        /\ join'.received = join.received /\ join'.extra = join.extra
        /\ join'.discarded = join.discarded
    BY <1>2, <1>5 DEF JoinShape, JoinFields
  <2>6. \A x \in Sides : JoinSide(x)'
    <3>1. \A x \in Sides : join.errors = 0 => join.discarded[x] = 0
      BY <1>5, JoinInvParts DEF JoinSide
    <3>2. \A x \in Sides :
            /\ join'.discarded[x] \in Nat
            /\ join.received[x] = join.extra[x] + (join'.combined + join'.discarded[x])
            /\ join'.errors = 0 => join'.discarded[x] = 0
      BY <1>5, <2>5, <3>1, JoinCounts
    <3>3. QED
      BY <2>4, <2>5, <3>2, JoinSidesKept
  <2>7. JoinRest'
    BY <1>1, <1>2, <2>5 DEF JoinRest, J!HasItem
  <2>8. JoinOutput'
    BY <2>2, <2>4, <2>5 DEF JoinOutput
  <2>9. QED
    BY <2>4, <2>5, <2>6, <2>7, <2>8, JoinInvPartsNext
<1>6. QED
  BY <1>3, <1>4, <1>5, JoinChannelOps DEF J!Emit, J!Interrupted

\* The end of the send and of the join.
LEMMA JoinEnds ==
  ASSUME ChannelsOk, JoinInv, J!Sent \/ J!Finish
  PROVE  Acts({"b1", "b2"}, {"out"}) /\ JoinInv'
<1>1. JoinShape /\ JoinRest /\ JoinOutput /\ canceled' = canceled
  BY JoinInvParts DEF J!Sent, J!Finish
<1>2. \/ /\ join.pc = "send" /\ Taken("out") /\ ch' = Clear(ch, "out")
         /\ join' = [join EXCEPT !.pc = "extras"]
      \/ /\ join.pc \in {"discard", "extras"} /\ ch' = Close(ch, {"out"})
         /\ join' = [join EXCEPT !.pc = "exited"]
  BY JoinChannelOps DEF J!Sent, J!Finish
<1>3. /\ Acts({"b1", "b2"}, {"out"}) /\ (\A x \in Sides : ch'[Feeds(x)] = ch[Feeds(x)])
      /\ Log("out")' = Log("out") /\ ~Busy("out")' /\ (Shut("out")' => join'.pc = "exited")
      /\ Len(Log("out")) = join.combined + join.errors
  <2>1. CASE join.pc = "send" /\ Taken("out") /\ ch' = Clear(ch, "out")
    <3>1. Busy("out") /\ ~Ready("out")
      BY <2>1 DEF Busy, Taken, Ready
    <3>2. QED
      BY <1>1, <2>1, <3>1, JoinClears DEF JoinOutput
  <2>2. CASE join.pc \in {"discard", "extras"} /\ ch' = Close(ch, {"out"}) /\ join' = [join EXCEPT !.pc = "exited"]
    <3>1. ~Shut("out") /\ join'.pc = "exited"
      BY <1>1, <2>2 DEF JoinOutput, JoinShape, JoinFields
    <3>2. QED
      BY <1>1, <2>2, <3>1, JoinCloses DEF JoinOutput
  <2>3. QED
    BY <1>2, <2>1, <2>2
<1>4. /\ JoinShape' /\ join'.ctxErr = join.ctxErr
      /\ join'.combined = join.combined /\ join'.errors = join.errors
      /\ join'.side = join.side /\ join'.first = join.first
      /\ join'.received = join.received /\ join'.extra = join.extra
      /\ join'.discarded = join.discarded /\ join'.pc \in {"extras", "exited"}
      /\ join.pc = "send" => join'.pc = "extras"
      /\ join.pc # "send" => join.pc \in {"discard", "extras"}
  BY <1>1, <1>2 DEF JoinShape, JoinFields
<1>5. \A x \in Sides : JoinSide(x)'
  <2>1. join.pc # "collect" /\ join'.pc \notin {"collect", "emit", "send"}
    BY <1>2, <1>4
  <2>2. \A x \in Sides :
          /\ join'.discarded[x] \in Nat
          /\ join.received[x] = join.extra[x] + (join'.combined + join'.discarded[x])
    BY <1>4, <2>1, JoinCounts
  <2>3. QED
    BY <1>3, <1>4, <2>1, <2>2, JoinSidesKept
<1>6. JoinRest'
  <2>1. CASE join.pc = "send"
    <3>1. join'.combined + join'.errors = 1 /\ join'.pc = "extras"
      BY <1>1, <1>4, <2>1 DEF JoinRest
    <3>2. QED
      BY <1>1, <1>4, <3>1 DEF JoinRest, J!HasItem
  <2>2. CASE join.pc \in {"discard", "extras"}
    BY <1>1, <1>4, <2>2 DEF JoinRest, J!HasItem
  <2>3. QED
    BY <1>4, <2>1, <2>2
<1>7. JoinOutput'
  BY <1>3, <1>4 DEF JoinOutput
<1>8. QED
  BY <1>3, <1>4, <1>5, <1>6, <1>7, JoinInvPartsNext

\* Every step of the join keeps its invariant.
LEMMA JoinSends ==
  ASSUME ChannelsOk, JoinInv, J!Next
  PROVE  Acts({"b1", "b2"}, {"out"}) /\ JoinInv' /\ canceled' = canceled
<1>1. canceled' = canceled
  BY DEF J!Next, J!Collect, J!SourceEnds, J!Drain, J!CancelCollect, J!Combine, J!Emit, J!Sent,
         J!Interrupted, J!Finish
<1>2. QED
  BY <1>1, JoinChannelOps, JoinCollects, JoinSourceEnds, JoinDrains, JoinGivesUp, JoinDecides,
     JoinEmits, JoinEnds DEF J!Next

\* The steps of the batchers and of the consumer.
LEMMA JoinKept ==
  ASSUME ChannelsOk, JoinInv, join' = join, canceled => canceled',
         Sends("b1"), Sends("b2"), Takes("out")
  PROVE  JoinInv'
<1>1. JoinShape /\ JoinRest /\ JoinOutput /\ \A x \in Sides : JoinSide(x)
  BY JoinInvParts
<1>2. ASSUME NEW x \in Sides
      PROVE  JoinSide(x)'
  <2>1. Sends(Feeds(x))
    <3>1. Feeds(x) = "b1" \/ Feeds(x) = "b2"
      BY DEF Feeds, Sides
    <3>2. QED
      BY <3>1
  <2>2. /\ Log([A |-> "b1", B |-> "b2"][x])' = Log([A |-> "b1", B |-> "b2"][x])
        /\ Shut([A |-> "b1", B |-> "b2"][x]) => Shut([A |-> "b1", B |-> "b2"][x])'
    BY <2>1 DEF Feeds, Sends, Log, Shut
  <2>3. J!HasItem(x)' = J!HasItem(x)
    BY DEF J!HasItem
  <2>4. QED
    BY <1>1, <2>2, <2>3 DEF JoinSide
<1>3. JoinRest'
  BY <1>1 DEF JoinRest, J!HasItem
<1>4. JoinOutput'
  <2>1. CASE ch'["out"] = ch["out"]
    BY <1>1, <2>1 DEF JoinOutput, Busy, Shut, Ready, Log
  <2>2. CASE Took("out")
    <3>1. Busy("out") /\ Busy("out")' /\ ~Shut("out")' /\ Ready("out") /\ ~Ready("out")'
      BY <2>2 DEF Took, Busy, Shut, Ready
    <3>2. Log("out") \in Seq(Outcomes) /\ Value("out") \in Outcomes /\ Log("out")' = Append(Log("out"), Value("out"))
      BY <2>2 DEF ChannelsOk, Names, Carries, ItemChannels, Log, Value, Took
    <3>3. join.pc = "send" /\ Len(Log("out")) = 0 /\ join.combined + join.errors = 1
      BY <1>1, <3>1 DEF JoinOutput, JoinRest
    <3>4. Len(Log("out")') = 1
      <4>1. \A s \in Seq(Outcomes), v \in Outcomes : Len(s) = 0 => Len(Append(s, v)) = 1
        OBVIOUS
      <4>2. QED
        BY <3>2, <3>3, <4>1
    <3>5. QED
      BY <3>1, <3>3, <3>4 DEF JoinOutput
  <2>3. QED
    BY <2>1, <2>2 DEF Takes
<1>5. JoinShape'
  BY <1>1 DEF JoinShape
<1>6. QED
  BY <1>2, <1>3, <1>4, <1>5, JoinInvPartsNext

-------------------------------------------------------------------------------
\* A step leaves the channels it does not use alone.
LEMMA ActsElsewhere ==
  ASSUME NEW F \in SUBSET Names, NEW G \in SUBSET Names, Acts(F, G)
  PROVE  (\A c \in Names \ G : Takes(c)) /\ (\A c \in Names \ F : Sends(c))
BY DEF Acts, OnlyOn, Takes, Sends

\* What a step of the others leaves of each part of the invariant.
LEMMA OthersKeep ==
  ASSUME NetInv, canceled => canceled'
  PROVE  /\ from1' = from1 /\ Takes("s1") => FromInv'
         /\ UNCHANGED <<pipe, from2>> /\ Takes("s2") => PipeInv'
         /\ merge' = merge /\ Sends("s1") /\ Sends("s2") /\ Takes("m") =>
              MergeInv' /\ MergeOrder' /\ MergeTotal'
         /\ tee' = tee /\ Sends("m") /\ Takes("t1") /\ Takes("t2") => TeeInv' /\ TeeCopies'
         /\ batcher' = batcher /\ Sends("t1") /\ Takes("b1") =>
              BatcherCounts(batcher, canceled)' /\ BatcherSends(batcher, ch["b1"])'
              /\ BatcherOrder(batcher, ch["b1"], Log("t1"))'
         /\ UNCHANGED <<weighted, weights>> /\ Sends("t2") /\ Takes("b2") =>
              BatcherCounts(weighted, canceled)' /\ BatcherSends(weighted, ch["b2"])'
              /\ BatcherOrder(weighted, ch["b2"], Log("t2"))' /\ WeightsInv'
         /\ join' = join /\ Sends("b1") /\ Sends("b2") /\ Takes("out") => JoinInv'
<1>1. ASSUME from1' = from1, Takes("s1") PROVE FromInv'
  BY <1>1, FromKept DEF NetInv
<1>2. ASSUME UNCHANGED <<pipe, from2>>, Takes("s2") PROVE PipeInv'
  BY <1>2, PipeKept DEF NetInv
<1>3. ASSUME merge' = merge, Sends("s1"), Sends("s2"), Takes("m")
      PROVE  MergeInv' /\ MergeOrder' /\ MergeTotal'
  BY <1>3, MergeKept DEF NetInv
<1>4. ASSUME tee' = tee, Sends("m"), Takes("t1"), Takes("t2") PROVE TeeInv' /\ TeeCopies'
  <2>1. Log("m")' = Log("m")
    BY <1>4 DEF Sends, Log
  <2>2. QED
    BY <1>4, <2>1, TeeKept DEF NetInv
<1>5. Log("t1") \in Seq(Results) /\ Log("t2") \in Seq(Results)
  BY DEF NetInv, ChannelsOk, Names, Carries, ItemChannels, Log
<1>6. ASSUME batcher' = batcher, Sends("t1"), Takes("b1")
      PROVE  BatcherCounts(batcher, canceled)' /\ BatcherSends(batcher, ch["b1"])'
             /\ BatcherOrder(batcher, ch["b1"], Log("t1"))'
  <2>1. Log("t1")' = Log("t1")
    BY <1>6 DEF Sends, Log
  <2>2. /\ BatcherCounts(batcher, canceled') /\ BatcherSends(batcher, ch'["b1"])
        /\ BatcherOrder(batcher, ch'["b1"], Log("t1"))
    BY <1>5, <1>6, BatcherKept DEF NetInv
  <2>3. QED
    BY <1>6, <2>1, <2>2
<1>7. ASSUME UNCHANGED <<weighted, weights>>, Sends("t2"), Takes("b2")
      PROVE  BatcherCounts(weighted, canceled)' /\ BatcherSends(weighted, ch["b2"])'
             /\ BatcherOrder(weighted, ch["b2"], Log("t2"))' /\ WeightsInv'
  <2>1. Log("t2")' = Log("t2")
    BY <1>7 DEF Sends, Log
  <2>2. /\ BatcherCounts(weighted, canceled') /\ BatcherSends(weighted, ch'["b2"])
        /\ BatcherOrder(weighted, ch'["b2"], Log("t2"))
    BY <1>5, <1>7, BatcherKept DEF NetInv
  <2>3. (W!WeightOf(weighted.buf))' = W!WeightOf(weighted'.buf)
    BY DEF W!WeightOf, W!MapThenSumSet, W!MapThenFoldSet
  <2>4. WeightsInv'
    BY <1>7, <2>3 DEF NetInv, WeightsInv
  <2>5. QED
    BY <1>7, <2>1, <2>2, <2>4
<1>8. ASSUME join' = join, Sends("b1"), Sends("b2"), Takes("out") PROVE JoinInv'
  BY <1>8, JoinKept DEF NetInv
<1>9. QED
  BY <1>1, <1>2, <1>3, <1>4, <1>6, <1>7, <1>8

\* Every step of the network keeps the invariant.
LEMMA NetStep ==
  ASSUME NetInv, NetNext \/ UNCHANGED netVars
  PROVE  NetInv'
<1>0. ChannelsOk /\ canceled \in BOOLEAN
  BY DEF NetInv, ChannelsOk
<1>1. CASE FromChan
  <2>1. Acts({}, {"s1"}) /\ FromInv' /\ canceled' = canceled
    BY <1>1, FromChanSends DEF NetInv
  <2>2. (\A c \in Names \ {"s1"} : Takes(c)) /\ (\A c \in Names : Sends(c)) /\ ChannelsOk'
    BY <1>0, <2>1, ActsElsewhere, ActsKeepsChannels DEF Names
  <2>3. UNCHANGED <<from2, pipe, merge, tee, batcher, weighted, weights, join>>
    BY <1>1 DEF FromChan, operators
  <2>4. QED
    BY <2>1, <2>2, <2>3, OthersKeep DEF NetInv, Names
<1>2. CASE Consume
  <2>1. Shaped(ch) /\ "out" \in Names /\ Ready("out") /\ ch' = Take(ch, "out") /\ canceled' = canceled
    BY <1>0, <1>2 DEF Consume, ChannelsOk, Shaped, Names
  <2>2. Shaped(ch') /\ Took("out") /\ OnlyOn({"out"})
    BY <2>1, TakeDoes
  <2>3. Acts({"out"}, {})
    BY <2>2 DEF Acts, Takes, OnlyOn
  <2>4. (\A c \in Names : Takes(c)) /\ (\A c \in Names \ {"out"} : Sends(c)) /\ ChannelsOk'
    BY <1>0, <2>1, <2>3, ActsElsewhere, ActsKeepsChannels DEF Names
  <2>5. UNCHANGED <<from1, from2, pipe, merge, tee, batcher, weighted, weights, join>>
    BY <1>2 DEF Consume, operators
  <2>6. QED
    BY <2>1, <2>4, <2>5, OthersKeep DEF NetInv, Names
<1>3. CASE Cancel \/ UNCHANGED netVars
  <2>1. /\ ch' = ch /\ (canceled => canceled') /\ canceled' \in BOOLEAN
        /\ UNCHANGED <<from1, from2, pipe, merge, tee, batcher, weighted, weights, join>>
    BY <1>0, <1>3 DEF Cancel, netVars, operators
  <2>2. (\A c \in Names : Takes(c) /\ Sends(c)) /\ ChannelsOk'
    BY <1>0, <2>1 DEF Takes, Sends, ChannelsOk
  <2>3. QED
    BY <2>1, <2>2, OthersKeep DEF NetInv, Names
<1>4. CASE FeederStep \/ PipeStageStep
  <2>1. Acts({}, {"s2"}) /\ PipeInv' /\ canceled' = canceled
    BY <1>4, PipeSends DEF NetInv, FeederStep, PipeStageStep
  <2>2. (\A c \in Names \ {"s2"} : Takes(c)) /\ (\A c \in Names : Sends(c)) /\ ChannelsOk'
    BY <1>0, <2>1, ActsElsewhere, ActsKeepsChannels, SMTT(30) DEF Names
  <2>3. UNCHANGED <<from1, merge, tee, batcher, weighted, weights, join>>
    BY <1>4 DEF FeederStep, PipeStageStep, operators
  <2>4. QED
    BY <2>1, <2>2, <2>3, OthersKeep DEF NetInv, Names
<1>5. CASE (\E i \in M!Sources : Forward(i)) \/ MergeClose
  <2>1. /\ Acts({"s1", "s2"}, {"m"}) /\ MergeInv' /\ canceled' = canceled
        /\ Log("m")' = Log("m") /\ \A j \in Two : Delivered(j)' = Delivered(j)
    BY <1>5, MergeSends, MergeClosesOut, MergeChannelOps DEF NetInv, Forward, MergeClose
  <2>2. (\A c \in Names \ {"m"} : Takes(c)) /\ (\A c \in Names \ {"s1", "s2"} : Sends(c)) /\ ChannelsOk'
    BY <1>0, <2>1, ActsElsewhere, ActsKeepsChannels DEF Names
  <2>3. UNCHANGED <<from1, from2, pipe, tee, batcher, weighted, weights, join>>
    BY <1>5 DEF Forward, MergeClose, notMerge
  <2>4. MergeOrder' /\ MergeTotal'
    BY <2>1, <2>2, MergeOrderStays DEF NetInv, Names
  <2>5. QED
    BY <2>1, <2>2, <2>3, <2>4, OthersKeep DEF NetInv, Names
<1>6. CASE TeeStep
  <2>1. Acts({"m"}, {"t1", "t2"}) /\ TeeInv' /\ TeeCopies' /\ canceled' = canceled
    BY <1>6, TeeCounts, TeeSends DEF NetInv, TeeStep
  <2>2. (\A c \in Names \ {"t1", "t2"} : Takes(c)) /\ (\A c \in Names \ {"m"} : Sends(c)) /\ ChannelsOk'
    BY <1>0, <2>1, ActsElsewhere, ActsKeepsChannels DEF Names
  <2>3. UNCHANGED <<from1, from2, pipe, merge, batcher, weighted, weights, join>>
    BY <1>6 DEF TeeStep
  <2>4. QED
    BY <2>1, <2>2, <2>3, OthersKeep DEF NetInv, Names
<1>7. \A c \in {"t1", "t2"} : Ready(c) => Value(c) \in Results
  BY <1>0 DEF ChannelsOk, Names, Carries, ItemChannels, Ready, Value
<1>8. CASE BatcherStep
  <2>1. BatcherMoves(batcher, batcher', "t1", "b1") /\ canceled' = canceled
    BY <1>8, BatcherIsABatcher DEF BatcherStep
  <2>2. BatcherCounts(batcher', canceled)
    BY <1>7, <2>1, BatcherKeepsCounts DEF NetInv
  <2>3. /\ Acts({"t1"}, {"b1"})
        /\ BatcherSends(batcher', ch'["b1"]) /\ BatcherOrder(batcher', ch'["b1"], ch'["t1"].log)
    BY <2>1, BatcherKeepsOrder DEF NetInv
  <2>4. (\A c \in Names \ {"b1"} : Takes(c)) /\ (\A c \in Names \ {"t1"} : Sends(c)) /\ ChannelsOk'
    BY <1>0, <2>1, <2>3, ActsElsewhere, ActsKeepsChannels DEF Names
  <2>5. UNCHANGED <<from1, from2, pipe, merge, tee, weighted, weights, join>>
    BY <1>8 DEF BatcherStep
  <2>6. /\ BatcherCounts(batcher, canceled)' /\ BatcherSends(batcher, ch["b1"])'
        /\ BatcherOrder(batcher, ch["b1"], Log("t1"))'
    BY <2>1, <2>2, <2>3 DEF Log
  <2>7. QED
    BY <2>1, <2>4, <2>5, <2>6, OthersKeep DEF NetInv, Names
<1>9. CASE WeightedStep
  <2>1. BatcherMoves(weighted, weighted', "t2", "b2") /\ canceled' = canceled
    BY <1>9, WeightedIsABatcher DEF WeightedStep
  <2>2. BatcherCounts(weighted', canceled)
    BY <1>7, <2>1, BatcherKeepsCounts DEF NetInv
  <2>3. /\ Acts({"t2"}, {"b2"})
        /\ BatcherSends(weighted', ch'["b2"]) /\ BatcherOrder(weighted', ch'["b2"], ch'["t2"].log)
    BY <2>1, BatcherKeepsOrder DEF NetInv
  <2>4. (\A c \in Names \ {"b2"} : Takes(c)) /\ (\A c \in Names \ {"t2"} : Sends(c)) /\ ChannelsOk'
    BY <1>0, <2>1, <2>3, ActsElsewhere, ActsKeepsChannels DEF Names
  <2>5. UNCHANGED <<from1, from2, pipe, merge, tee, batcher, join>>
    BY <1>9 DEF WeightedStep
  <2>6. /\ BatcherCounts(weighted, canceled)' /\ BatcherSends(weighted, ch["b2"])'
        /\ BatcherOrder(weighted, ch["b2"], Log("t2"))'
    BY <2>1, <2>2, <2>3 DEF Log
  <2>7. WeightsInv'
    BY <1>0, <1>9, WeightsKept DEF NetInv, WeightedStep
  <2>8. QED
    BY <2>1, <2>4, <2>5, <2>6, <2>7, OthersKeep DEF NetInv, Names
<1>10. CASE JoinStep
  <2>1. Acts({"b1", "b2"}, {"out"}) /\ JoinInv' /\ canceled' = canceled
    BY <1>10, JoinSends DEF NetInv, JoinStep
  <2>2. (\A c \in Names \ {"out"} : Takes(c)) /\ (\A c \in Names \ {"b1", "b2"} : Sends(c)) /\ ChannelsOk'
    BY <1>0, <2>1, ActsElsewhere, ActsKeepsChannels DEF Names
  <2>3. UNCHANGED <<from1, from2, pipe, merge, tee, batcher, weighted, weights>>
    BY <1>10 DEF JoinStep
  <2>4. QED
    BY <2>1, <2>2, <2>3, OthersKeep DEF NetInv, Names
<1>11. QED
  BY <1>1, <1>2, <1>3, <1>4, <1>5, <1>6, <1>8, <1>9, <1>10 DEF NetNext

\* The invariant holds at first.
LEMMA NetStarts ==
  ASSUME NetInit
  PROVE  NetInv
<1>1. PICK input \in Inputs : from1 = input[1] /\ P!Init(input[2])
  BY DEF NetInit
<1>2. input[1] \in Seq(Values) /\ input[2] \in Seq(Results)
  BY NetworkAssumption
<1>3. ch = [c \in Names |-> [st |-> "idle", val |-> <<>>, log |-> <<>>]] /\ canceled = FALSE
  BY DEF NetInit, Fresh, Names
<1>4. \A c \in Names : /\ ch[c].st = "idle" /\ Log(c) = <<>> /\ DOMAIN ch[c] = ChannelFields /\ Len(Log(c)) = 0
                       /\ ~Busy(c) /\ ~Shut(c) /\ ~Ready(c) /\ ~Taken(c)
  BY <1>3 DEF Log, ChannelFields, Busy, Shut, Ready, Taken
<1>5. ChannelsOk
  <2>1. \A c \in Names : ch[c].log \in Seq(Carries(c))
    <3>1. \A c \in Names : ch[c].log = <<>>
      BY <1>3
    <3>2. \A S : <<>> \in Seq(S)
      BY EmptySeq
    <3>3. QED
      BY <3>1, <3>2
  <2>2. QED
    BY <1>3, <1>4, <2>1 DEF ChannelsOk
<1>6. FromInv
  BY <1>1, <1>2, <1>4 DEF FromInv, Names
<1>7. PipeInv
  BY <1>1, <1>2, <1>4 DEF PipeInv, P!Init, PipeFields, One, Names
<1>8. /\ merge = [pc |-> [i \in Two |-> "recv"], cur |-> [i \in Two |-> <<>>],
                  ctxErr |-> FALSE, closed |-> FALSE, received |-> [i \in Two |-> 0],
                  forwarded |-> [i \in Two |-> 0], dropped |-> [i \in Two |-> 0]]
  BY MergeChannelOps DEF NetInit, M!Init
<1>9. \A i \in Two : Log(<<"s1", "s2">>[i]) = <<>> /\ Len(Log(<<"s1", "s2">>[i])) = 0
  BY <1>4 DEF Two, Names
<1>10. MergeInv
  <2>1. \A i \in Two : MergeForwarder(i)
    BY <1>8, <1>9 DEF MergeForwarder, One
  <2>2. QED
    BY <1>4, <1>8, <2>1 DEF MergeInv, MergeFields, Names, Two
<1>11. \A i \in Two : Delivered(i) = 0
  BY <1>8 DEF Delivered, One
<1>12. MergeOrder /\ MergeTotal
  <2>1. Len(Log("m")) = 0
    BY <1>4 DEF Names
  <2>. DEFINE from == [k \in 1..0 |-> 1]
  <2>2. from \in [1..Len(Log("m")) -> Two] /\ DOMAIN from = {}
    BY <2>1
  <2>3. \A i \in Two : CountTo(from, i, 0) = 0
    <3>1. \A i \in Two : {k \in 1..0 : from[k] = i} = {}
      OBVIOUS
    <3>2. QED
      BY <3>1, FS_EmptySet DEF CountTo
  <2>4. Interleaves(from)
    BY <2>2 DEF Interleaves
  <2>. HIDE DEF from
  <2>5. MergeOrder
    BY <1>11, <2>1, <2>2, <2>3, <2>4 DEF MergeOrder
  <2>6. MergeTotal
    BY <1>11, <2>1 DEF MergeTotal, Two
  <2>7. QED
    BY <2>5, <2>6
<1>13. tee = [pc |-> "recv", next |-> 0, ctxErr |-> FALSE, received |-> 0, fully |-> 0,
              partially |-> 0, undelivered |-> 0, branch |-> [k \in Two |-> 0]]
  BY DEF NetInit, T!Init, T!N, Two
<1>14. TeeInv
  BY <1>13 DEF TeeInv, TeeFields, T!Lost, One, Two
<1>15. TeeCopies
  BY <1>4, <1>13 DEF TeeCopies, Serves, T!Lost, Names
<1>16. /\ batcher = [pc |-> "recv", buf |-> <<>>, cur |-> <<>>, ctxErr |-> FALSE, received |-> 0,
                     emitted |-> 0, forwarded |-> 0, dropped |-> 0, batchCount |-> 0]
       /\ weighted = batcher /\ weights = [received |-> 0, emitted |-> 0, dropped |-> 0]
  BY DEF NetInit, B!Init, W!WInit, W!B!Init
<1>17. ASSUME NEW s, s = batcher, NEW o, o = ch["b1"] \/ o = ch["b2"]
       PROVE  BatcherCounts(s, canceled) /\ BatcherSends(s, o) /\ BatcherOrder(s, o, <<>>)
  <2>1. BatcherCounts(s, canceled)
    BY <1>16, <1>17 DEF BatcherCounts, BatcherFields, One
  <2>2. o.st = "idle" /\ o.log = <<>>
    BY <1>3, <1>17 DEF Names
  <2>3. BatcherSends(s, o)
    BY <1>16, <1>17, <2>2 DEF BatcherSends
  <2>4. Unbatch(<<>>) = <<>> /\ Items(<<>>) = <<>>
    <3>1. [k \in DOMAIN <<>> |-> IF <<>>[k].ok THEN <<>>[k].of ELSE <<<<>>[k].of>>] = <<>>
      OBVIOUS
    <3>2. QED
      BY <3>1, FlattenEmpty DEF Unbatch, Items
  <2>5. Pending(s, o) = <<>> /\ s.dropped = 0
    BY <1>16, <1>17 DEF Pending
  <2>6. <<>> \o <<>> = <<>>
    OBVIOUS
  <2>7. BatcherOrder(s, o, <<>>)
    <3>1. Unbatch(o.log) = <<>> /\ o.log = <<>> /\ <<>> \in Seq(Values) /\ DOMAIN o.log = {}
      BY <2>2, <2>4, EmptySeq
    <3>2. Items(<<>>) = Unbatch(o.log) \o Pending(s, o)
      BY <2>4, <2>5, <2>6, <3>1
    <3>3. QED
      BY <2>5, <3>1, <3>2 DEF BatcherOrder
  <2>8. QED
    BY <2>1, <2>3, <2>7
<1>18. /\ BatcherCounts(batcher, canceled) /\ BatcherSends(batcher, ch["b1"]) /\ BatcherOrder(batcher, ch["b1"], Log("t1"))
       /\ BatcherCounts(weighted, canceled) /\ BatcherSends(weighted, ch["b2"]) /\ BatcherOrder(weighted, ch["b2"], Log("t2"))
  BY <1>4, <1>16, <1>17 DEF Names
<1>19. WeightsInv
  BY <1>16, WeightOfNothing DEF WeightsInv
<1>20. JoinInv
  <2>1. join = [pc |-> "collect", side |-> [x \in Sides |-> "open"],
                first |-> [x \in Sides |-> [ok |-> TRUE, of |-> <<>>]], ctxErr |-> FALSE,
                received |-> [x \in Sides |-> 0], discarded |-> [x \in Sides |-> 0],
                extra |-> [x \in Sides |-> 0], combined |-> 0, errors |-> 0]
    BY JoinChannelOps DEF NetInit, J!Init, J!Zero, J!Ok
  <2>2. [ok |-> TRUE, of |-> <<>>] \in BatchResults
    BY DEF BatchResults
  <2>3. \A x \in Sides : Log([A |-> "b1", B |-> "b2"][x]) = <<>>
    BY <1>4 DEF Sides, Names
  <2>4. \A x \in Sides : JoinSide(x)
    BY <2>1, <2>2, <2>3 DEF JoinSide, One, J!HasItem
  <2>5. QED
    BY <1>4, <2>1, <2>2, <2>4 DEF JoinInv, JoinFields, Names
<1>21. QED
  BY <1>5, <1>6, <1>7, <1>10, <1>12, <1>14, <1>15, <1>18, <1>19, <1>20 DEF NetInv

\* The channels and the operators keep to the invariant.
THEOREM NetworkInvariant == NetSpec => []NetInv
<1>1. NetInit => NetInv
  BY NetStarts
<1>2. NetInv /\ [NetNext]_netVars => NetInv'
  BY NetStep
<1>3. QED
  BY <1>1, <1>2, PTL DEF NetSpec

-------------------------------------------------------------------------------
\* Wait of every operator tells of a loss, and of nothing else (LossIsReported).
THEOREM NetworkReportsLosses == NetSpec => []LossIsReported
<1>1. NetInv => LossIsReported
  <2>. SUFFICES ASSUME NetInv PROVE LossIsReported
    OBVIOUS
  <2>1. M!Exited => (merge.ctxErr <=> \E i \in M!Sources : merge.dropped[i] > 0)
    BY MergeChannelOps DEF NetInv, MergeInv, MergeForwarder
  <2>2. T!Exited => (tee.ctxErr <=> T!Lost > 0)
    BY DEF NetInv, TeeInv, T!Exited
  <2>3. B!Exited => (batcher.ctxErr <=> batcher.dropped > 0)
    BY DEF NetInv, BatcherCounts, B!Exited
  <2>4. W!B!Exited => (weighted.ctxErr <=> weighted.dropped > 0)
    BY DEF NetInv, BatcherCounts, W!B!Exited
  <2>5. merge.ctxErr => canceled
    BY DEF NetInv, MergeInv
  <2>6. tee.ctxErr => canceled
    BY DEF NetInv, TeeInv
  <2>7. batcher.ctxErr => canceled
    BY DEF NetInv, BatcherCounts
  <2>8. weighted.ctxErr => canceled
    BY DEF NetInv, BatcherCounts
  <2>9. join.ctxErr => canceled
    BY DEF NetInv, JoinInv
  <2>10. QED
    BY <2>1, <2>2, <2>3, <2>4, <2>5, <2>6, <2>7, <2>8, <2>9 DEF LossIsReported
<1>2. QED
  BY <1>1, NetworkInvariant, PTL

\* The forwarders of a merge that has closed its output are gone.
LEMMA MergeAtRest ==
  ASSUME NetInv, M!Exited
  PROVE  \A i \in Two : /\ merge.received[i] = merge.forwarded[i] + merge.dropped[i]
                        /\ Delivered(i) = merge.forwarded[i]
                        /\ merge.received[i] = Len(Log(Srcs[i]))
                        /\ merge.forwarded[i] \in Nat /\ merge.dropped[i] \in Nat
                        /\ ~merge.ctxErr => merge.dropped[i] = 0
<1>1. \A i \in Two : merge.pc[i] = "gone"
  BY DEF NetInv, MergeInv, M!Exited
<1>2. ASSUME NEW i \in Two
      PROVE  /\ merge.received[i] = merge.forwarded[i] + merge.dropped[i]
             /\ Delivered(i) = merge.forwarded[i]
             /\ merge.received[i] = Len(Log(Srcs[i]))
             /\ merge.forwarded[i] \in Nat /\ merge.dropped[i] \in Nat
             /\ ~merge.ctxErr => merge.dropped[i] = 0
  <2>1. MergeForwarder(i) /\ merge.pc[i] = "gone"
    BY <1>1 DEF NetInv, MergeInv
  <2>2. QED
    BY <2>1 DEF MergeForwarder, Delivered, One, Srcs
<1>3. QED
  BY <1>2

\* Every operator accounts for what it took (OperatorsAccount).
THEOREM NetworkAccounts == NetSpec => []OperatorsAccount
<1>1. NetInv => OperatorsAccount
  <2>. SUFFICES ASSUME NetInv PROVE OperatorsAccount
    OBVIOUS
  <2>1. PipeAccount
    <3>1. PipeInv
      BY DEF NetInv
    <3>2. P!Exited => pipe.pc = "gone" /\ pipe.worker = "idle"
      BY <3>1, PipeChannelOps DEF PipeInv, P!Exited
    <3>3. P!Exited => /\ pipe.received = pipe.submitted + pipe.forwarded + pipe.dropped
                      /\ Len(Log("s2")) = pipe.submitted + pipe.forwarded
      <4>1. Log("s2") \in Seq(Results)
        BY DEF NetInv, ChannelsOk, Names, Carries, ItemChannels, Log
      <4>2. Len(Log("s2")) \in Nat
        BY <4>1
      <4>3. QED
        BY <3>1, <3>2, <4>2 DEF PipeInv, One
    <3>4. pipe.dropped > 0 => P!StageDone
      BY <3>1 DEF PipeInv, P!StageDone
    <3>5. QED
      BY <3>3, <3>4 DEF PipeAccount
  <2>2. MergeAccount
    <3>1. M!Exited => \A i \in M!Sources : merge.received[i] = merge.forwarded[i] + merge.dropped[i]
      BY MergeAtRest, MergeChannelOps
    <3>2. PICK from \in [1..Len(Log("m")) -> Two] :
            Interleaves(from) /\ \A i \in Two : CountTo(from, i, Len(Log("m"))) = Delivered(i)
      BY DEF NetInv, MergeOrder
    <3>3. M!Exited => \A i \in M!Sources : CountTo(from, i, Len(Log("m"))) = merge.forwarded[i]
      BY <3>2, MergeAtRest, MergeChannelOps
    <3>4. from \in [1..Len(Log("m")) -> M!Sources]
      BY MergeChannelOps
    <3>5. QED
      BY <3>1, <3>2, <3>3, <3>4 DEF MergeAccount
  <2>3. TeeAccount
    <3>1. TeeInv /\ TeeCopies
      BY DEF NetInv
    <3>2. T!Exited => /\ tee.received = tee.fully + tee.partially + tee.undelivered
                      /\ tee.branch[1] = tee.fully + tee.partially
                      /\ tee.branch[2] = tee.fully
      BY <3>1 DEF TeeInv, T!Exited, T!Lost, One
    <3>3. tee.partially <= 1
      BY <3>1 DEF TeeInv
    <3>4. /\ Log("m") \in Seq(Results) /\ Log("t1") \in Seq(Results) /\ Log("t2") \in Seq(Results)
          /\ Busy("t1") => Value("t1") \in Results
          /\ Busy("t2") => Value("t2") \in Results
      BY DEF NetInv, ChannelsOk, Names, Carries, ItemChannels, Log, Busy, Value
    <3>. DEFINE Ahead(s, t) == t = s \/ \E x \in Results : t = Append(s, x)
    <3>5. ASSUME NEW s \in Seq(Results), NEW t \in Seq(Results), Ahead(s, t)
          PROVE  IsPrefix(s, t) /\ Len(t) <= Len(s) + 1
      <4>1. CASE t = s
        BY <4>1, PrefixSelf
      <4>2. ASSUME NEW x \in Results, t = Append(s, x)
            PROVE  IsPrefix(s, t) /\ Len(t) <= Len(s) + 1
        BY <4>2, PrefixSelf, PrefixAppend
      <4>3. QED
        BY <3>5, <4>1, <4>2
    <3>6. IsPrefix(Log("t1"), Log("m")) /\ Ahead(Log("t2"), Log("t1"))
      <4>1. \A k \in {1, 2} : Serves(k) => Busy("t1") \/ Busy("t2")
        BY <3>1 DEF TeeCopies
      <4>2. CASE T!Lost > 0
        BY <3>1, <4>2 DEF TeeCopies
      <4>3. CASE Serves(1)
        <5>1. /\ Value("t1") \in Results /\ Log("m") = Append(Log("t2"), Value("t1"))
              /\ Log("t1") = IF Taken("t1") THEN Log("m") ELSE Log("t2")
          BY <3>1, <3>4, <4>3 DEF TeeCopies
        <5>2. CASE Taken("t1")
          BY <3>4, <5>1, <5>2, PrefixSelf
        <5>3. CASE ~Taken("t1")
          <6>1. Log("t1") = Log("t2") /\ Ahead(Log("t1"), Log("m"))
            BY <5>1, <5>3
          <6>2. QED
            BY <3>4, <3>5, <6>1
        <5>4. QED
          BY <5>2, <5>3
      <4>4. CASE Serves(2)
        <5>1. /\ Value("t2") \in Results /\ Log("t1") = Log("m")
              /\ IF Taken("t2") THEN Log("t2") = Log("m") ELSE Log("m") = Append(Log("t2"), Value("t2"))
          BY <3>1, <3>4, <4>4 DEF TeeCopies
        <5>2. QED
          BY <3>4, <5>1, PrefixSelf
      <4>5. CASE T!Lost = 0 /\ ~Serves(1) /\ ~Serves(2)
        <5>1. Log("t1") = Log("m") /\ Log("t2") = Log("m")
          BY <3>1, <4>5 DEF TeeCopies
        <5>2. QED
          BY <3>4, <5>1, PrefixSelf
      <4>6. T!Lost > 0 \/ T!Lost = 0
        BY <3>1 DEF TeeInv, T!Lost
      <4>7. QED
        BY <4>2, <4>3, <4>4, <4>5, <4>6
    <3>7. IsPrefix(Log("t2"), Log("t1")) /\ Len(Log("t1")) <= Len(Log("t2")) + 1
      BY <3>4, <3>5, <3>6
    <3>8. QED
      BY <3>2, <3>3, <3>6, <3>7 DEF TeeAccount
  <2>4. BatchOrder
    <3>1. ASSUME NEW s, NEW c \in {"b1", "b2"}, NEW src \in Seq(Results),
                 BatcherCounts(s, canceled), BatcherOrder(s, ch[c], src)
          PROVE  Batches(Log(c), src)
      <4>1. Unbatch(Log(c)) \in Seq(Values) /\ Items(src) \in Seq(Values)
        <5>1. Unbatch(Log(c)) \in Seq(Values)
          BY <3>1 DEF BatcherOrder, Log
        <5>2. \A r \in Results : r.of \in Values
          BY DEF Results
        <5>3. Items(src) \in Seq(Values)
          BY <5>2 DEF Items
        <5>4. QED
          BY <5>1, <5>3
      <4>2. IsPrefix(Unbatch(Log(c)), Items(src))
        <5>1. CASE s.dropped > 0
          BY <3>1, <5>1 DEF BatcherOrder, Log
        <5>2. CASE s.dropped = 0
          <6>1. Items(src) = Unbatch(Log(c)) \o Pending(s, ch[c])
            BY <3>1, <5>2 DEF BatcherOrder, Log
          <6>2. Pending(s, ch[c]) \in Seq(Values)
            <7>1. s.buf \in Seq(Values) /\ (s.pc \in {"flush", "error"} => s.cur \in Results)
              BY <3>1 DEF BatcherCounts
            <7>2. \A r \in Results : r.of \in Values
              BY DEF Results
            <7>3. s.pc \in {"flush", "error"} => s.cur.of \in Values
              BY <7>1, <7>2
            <7>4. <<>> \in Seq(Values) /\ \A v \in Values : <<v>> \in Seq(Values) /\ Append(s.buf, v) \in Seq(Values)
              BY <7>1
            <7>5. QED
              BY <7>1, <7>3, <7>4 DEF Pending
          <6>3. QED
            BY <4>1, <6>1, <6>2, PrefixConcat
        <5>3. s.dropped > 0 \/ s.dropped = 0
          BY <3>1 DEF BatcherCounts
        <5>4. QED
          BY <5>1, <5>2, <5>3
      <4>3. \A k \in DOMAIN Log(c) : Log(c)[k].ok => Log(c)[k].of # <<>>
        BY <3>1 DEF BatcherOrder, Log
      <4>4. QED
        BY <4>2, <4>3 DEF Batches
    <3>2. Log("t1") \in Seq(Results) /\ Log("t2") \in Seq(Results)
      BY DEF NetInv, ChannelsOk, Names, Carries, ItemChannels, Log
    <3>3. Batches(Log("b1"), Log("t1"))
      BY <3>1, <3>2 DEF NetInv
    <3>4. Batches(Log("b2"), Log("t2"))
      BY <3>1, <3>2 DEF NetInv
    <3>5. QED
      BY <3>3, <3>4 DEF BatchOrder
  <2>5. BatcherAccount
    <3>1. Len(<<>>) = 0
      OBVIOUS
    <3>2. B!Exited => Accounts(batcher)
      BY <3>1 DEF NetInv, BatcherCounts, B!Exited, Accounts, One
    <3>3. W!B!Exited => Accounts(weighted) /\ weighted.buf = <<>>
      BY <3>1 DEF NetInv, BatcherCounts, W!B!Exited, Accounts, One
    <3>4. W!B!Exited => weights.received = weights.emitted + weights.dropped
      BY <3>3, WeightOfNothing DEF NetInv, WeightsInv
    <3>5. QED
      BY <3>2, <3>3, <3>4 DEF BatcherAccount
  <2>6. JoinAccount
    <3>1. JoinInv /\ J!Sides = Sides
      BY JoinChannelOps DEF NetInv
    <3>2. J!Exited => \A x \in {"A", "B"} :
                        join.received[x] = join.combined + join.discarded[x] + join.extra[x]
      BY <3>1, JoinCounts DEF J!Exited, Sides
    <3>3. join.combined + join.errors <= 1
      BY <3>1 DEF JoinInv
    <3>4. Len(Log("out")) <= 1
      BY <3>1, <3>3 DEF JoinInv
    <3>5. J!Exited => join.combined + join.errors = Len(Log("out"))
      BY <3>1 DEF JoinInv, J!Exited
    <3>6. QED
      BY <3>2, <3>4, <3>5 DEF JoinAccount
  <2>7. QED
    BY <2>1, <2>2, <2>3, <2>4, <2>5, <2>6 DEF OperatorsAccount
<1>2. QED
  BY <1>1, NetworkInvariant, PTL

\* Without a cancel nothing is lost on the way (UncanceledIsComplete).
THEOREM NetworkIsComplete == NetSpec => []UncanceledIsComplete
<1>1. NetInv => UncanceledIsComplete
  <2>. SUFFICES ASSUME NetInv, AllExited, ~canceled
                PROVE  /\ pipe.failed \/ Len(Log("s2")) = pipe.received
                       /\ Len(Log("m")) = Len(Log("s1")) + Len(Log("s2"))
                       /\ Unbatch(Log("b1")) = Items(Log("m")) /\ Unbatch(Log("b2")) = Items(Log("m"))
                       /\ Log("m") # <<>> => Len(Log("out")) = 1
    BY DEF UncanceledIsComplete
  <2>1. pipe.failed \/ Len(Log("s2")) = pipe.received
    <3>1. PipeInv /\ pipe.pc = "gone" /\ pipe.worker = "idle"
      BY PipeChannelOps DEF NetInv, PipeInv, AllExited, P!Exited
    <3>2. Log("s2") \in Seq(Results)
      BY DEF NetInv, ChannelsOk, Names, Carries, ItemChannels, Log
    <3>3. Len(Log("s2")) \in Nat
      BY <3>2
    <3>4. QED
      BY <3>1, <3>3 DEF PipeInv, One
  <2>2. Len(Log("m")) = Len(Log("s1")) + Len(Log("s2"))
    <3>1. ~merge.ctxErr /\ M!Exited
      BY DEF NetInv, MergeInv, AllExited
    <3>2. ASSUME NEW i \in Two
          PROVE  Delivered(i) = Len(Log(Srcs[i]))
      BY <3>1, MergeAtRest
    <3>3. Srcs[1] = "s1" /\ Srcs[2] = "s2" /\ 1 \in Two /\ 2 \in Two
      BY DEF Srcs, Two
    <3>4. Delivered(1) = Len(Log("s1")) /\ Delivered(2) = Len(Log("s2"))
      BY <3>2, <3>3
    <3>5. QED
      BY <3>4 DEF NetInv, MergeTotal
  <2>3. Log("t1") = Log("m") /\ Log("t2") = Log("m")
    <3>1. T!Lost = 0 /\ tee.pc = "exited"
      BY DEF NetInv, TeeInv, T!Lost, AllExited, T!Exited
    <3>2. QED
      BY <3>1 DEF NetInv, TeeCopies, Serves
  <2>4. ASSUME NEW s, NEW c \in {"b1", "b2"}, NEW src, s.pc = "exited",
               BatcherCounts(s, canceled), BatcherOrder(s, ch[c], src)
        PROVE  Unbatch(Log(c)) = Items(src)
    <3>1. s.dropped = 0 /\ s.buf = <<>>
      BY <2>4 DEF BatcherCounts
    <3>2. Pending(s, ch[c]) = <<>>
      BY <2>4, <3>1 DEF Pending
    <3>3. Unbatch(Log(c)) \in Seq(Values) /\ Items(src) = Unbatch(Log(c)) \o <<>>
      BY <2>4, <3>1, <3>2 DEF BatcherOrder, Log
    <3>4. QED
      BY <3>3
  <2>5. Unbatch(Log("b1")) = Items(Log("m"))
    <3>1. batcher.pc = "exited"
      BY DEF AllExited, B!Exited
    <3>2. QED
      BY <2>3, <2>4, <3>1 DEF NetInv
  <2>6. Unbatch(Log("b2")) = Items(Log("m"))
    <3>1. weighted.pc = "exited"
      BY DEF AllExited, W!B!Exited
    <3>2. QED
      BY <2>3, <2>4, <3>1 DEF NetInv
  <2>7. ASSUME Log("m") # <<>>
        PROVE  Len(Log("out")) = 1
    <3>1. join.pc = "exited" /\ JoinInv /\ ~join.ctxErr
      BY DEF AllExited, J!Exited, NetInv, JoinInv
    <3>2. /\ join.combined \in Nat /\ join.errors \in Nat /\ join.combined + join.errors <= 1
          /\ Len(Log("out")) = join.combined + join.errors
      BY <3>1 DEF JoinInv
    <3>3. CASE join.combined + join.errors = 0
      <4>1. join.side["A"] = "closedEmpty" /\ "A" \in Sides
        BY <3>1, <3>3 DEF JoinInv, Sides
      <4>2. Log("b1") = <<>>
        <5>1. JoinSide("A")
          BY <3>1, <4>1 DEF JoinInv
        <5>2. QED
          BY <4>1, <5>1 DEF JoinSide
      <4>3. Unbatch(<<>>) = <<>>
        <5>1. [k \in DOMAIN <<>> |-> IF <<>>[k].ok THEN <<>>[k].of ELSE <<<<>>[k].of>>] = <<>>
          OBVIOUS
        <5>2. QED
          BY <5>1, FlattenEmpty DEF Unbatch
      <4>4. Items(Log("m")) = <<>>
        BY <2>5, <4>2, <4>3
      <4>5. Log("m") \in Seq(Results)
        BY DEF NetInv, ChannelsOk, Names, Carries, ItemChannels, Log
      <4>6. DOMAIN Items(Log("m")) = 1..Len(Log("m")) /\ Len(Log("m")) # 0 /\ Len(Log("m")) \in Nat
        BY <2>7, <4>5 DEF Items
      <4>7. 1 \in 1..Len(Log("m"))
        BY <4>6
      <4>8. DOMAIN <<>> = {}
        OBVIOUS
      <4>9. QED
        BY <4>4, <4>6, <4>7, <4>8
    <3>4. CASE join.combined + join.errors # 0
      <4>1. \A x, y \in Nat : x + y <= 1 /\ x + y # 0 => x + y = 1
        OBVIOUS
      <4>2. join.combined + join.errors = 1
        BY <3>2, <3>4, <4>1
      <4>3. QED
        BY <3>2, <4>2
    <3>5. QED
      BY <3>3, <3>4
  <2>8. QED
    BY <2>1, <2>2, <2>5, <2>6, <2>7
<1>2. QED
  BY <1>1, NetworkInvariant, PTL
==============================================================================
