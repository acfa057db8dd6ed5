---------------------------- MODULE NatsTransport ----------------------------
(***************************************************************************)
(* The NATS transport: publishing, and one subscription from Subscribe to  *)
(* the end of Close (natstransport/).  The server and its client library   *)
(* are external: they deliver in order, may lose messages, and call back   *)
(* from one goroutine per subscription.                                    *)
(*                                                                         *)
(* A subject is <<infix, pipeline>>, the prefix being the same throughout. *)
(***************************************************************************)
EXTENDS Convert

CONSTANTS
  Tokens,             \* pipeline IDs that are a single subject token
  Interest,           \* the pipeline subscribed to, or "*" for all
  MaxPayload,         \* largest batch the server takes, 0 if it does not tell
  Users,              \* goroutines that call Close
  Garbage,            \* data that is no protobuf message
  ForeignMessages,    \* what other clients may send, each once
  MaxSent             \* bound: messages published; later ones fail

Watcher == "watcher"
Closers == Users \cup {Watcher}

ASSUME TransportAssumption ==
  /\ Interest \in Tokens \cup {"*"} /\ "*" \notin Tokens /\ NoName \notin Tokens
  /\ MaxPayload \in Nat /\ Watcher \notin Users

VARIABLES
  infix,              \* "observe" or "diagnose": what is subscribed to
  wire,               \* messages under way to the subscription
  foreign,            \* those of ForeignMessages still to come
  subscribed,         \* "no", "registered", "yes" (natsSub set), "failed"
  interest,           \* the server knows of the subscription
  ctxDone,            \* subCtx is done
  closing, active, doneCloses,   \* the gate; how often done has been closed
  once,               \* sync.Once of Close: "fresh", "running", "over"
  closer,             \* where each goroutine is in Close
  cb,                 \* the callback: [at |-> ...] and its message
  sent, heard         \* history: what was published, what handlers were given

gateVars == <<closing, active, doneCloses>>
subscriptionVars == <<infix, subscribed, interest, ctxDone, closing, active, doneCloses, once, closer>>
transportVars == <<subscriptionVars, wire, foreign, cb, sent, heard>>

Matches(subject) == subject[1] = infix /\ Interest \in {"*", subject[2]}

Idle == [at |-> "idle"]

TransportInit ==
  /\ infix \in {"observe", "diagnose"}
  /\ wire = <<>> /\ foreign = {m \in ForeignMessages : Matches(m.subject)}
  /\ subscribed = "no" /\ interest = FALSE /\ ctxDone = FALSE
  /\ closing = FALSE /\ active = 0 /\ doneCloses = 0
  /\ once = "fresh" /\ closer = [c \in Closers |-> "away"]
  /\ cb = Idle /\ sent = <<>> /\ heard = <<>>
------------------------------------------------------------------------------
(* Publishing.                                                             *)

ValidatePipelineID(id) == id \in Tokens
CheckPayloadSize(size) == MaxPayload = 0 \/ size <= MaxPayload

\* At most once: a message that the client has accepted is delivered or lost.
Transmit(m) ==
  /\ wire' \in {wire} \cup (IF interest /\ Matches(m.subject) THEN {Append(wire, m)} ELSE {})

\* A context that is done, an invalid ID, a payload that is too large or a
\* connection that is closed: the caller gets an error and nothing is sent.
PublishFails == UNCHANGED <<wire, sent>>

PublishObservations(b) ==
  /\ \/ /\ ValidatePipelineID(b.pipeline) /\ CheckPayloadSize(Len(b.observations))
        /\ Len(sent) < MaxSent
        /\ Transmit([subject |-> <<"observe", b.pipeline>>, data |-> BatchToProto(b), header |-> <<>>])
        /\ sent' = Append(sent, b)
     \/ PublishFails
  /\ UNCHANGED <<subscriptionVars, foreign, cb, heard>>

PublishDiagnosis(msg) ==
  /\ \/ /\ ValidatePipelineID(msg.pipeline) /\ CheckPayloadSize(Len(msg.diagnosis.stages))
        /\ Len(sent) < MaxSent
        /\ Transmit([subject |-> <<"diagnose", msg.pipeline>>, data |-> DiagnosisToProto(msg.diagnosis),
                     header |-> <<msg.timestamp>>])
        /\ sent' = Append(sent, msg)
     \/ PublishFails
  /\ UNCHANGED <<subscriptionVars, foreign, cb, heard>>

ForeignMessage ==
  /\ \E m \in foreign : foreign' = foreign \ {m} /\ Transmit(m)
  /\ UNCHANGED <<subscriptionVars, cb, sent, heard>>
------------------------------------------------------------------------------
(* The callback.                                                           *)

\* The client takes the next message: enterCallback lets it pass until Close
\* has begun, even before Subscribe has returned and after Unsubscribe.
EnterCallback ==
  /\ wire # <<>> /\ cb = Idle
  /\ wire' = Tail(wire)
  /\ IF closing THEN UNCHANGED <<active, cb>>
     ELSE /\ active' = active + 1
          /\ cb' = [at |-> "entered", msg |-> Head(wire)]
  /\ UNCHANGED <<infix, subscribed, interest, ctxDone, closing, doneCloses, once, closer,
                 foreign, sent, heard>>

\* Once it has unsubscribed the client may drop what is pending.
DropPending ==
  /\ ~interest /\ wire # <<>>
  /\ wire' = <<>>
  /\ UNCHANGED <<subscriptionVars, foreign, cb, sent, heard>>

\* parseTimestampHeader takes one header, a number that is not negative.
HasTimestamp(header) == Len(header) = 1 /\ header[1] \in Int /\ header[1] >= 0

\* What the handler will be given, or Refused: then only onError hears of it.
DecodedBatchOf(m) ==
  IF m.data = Garbage THEN Refused
  ELSE LET b == BatchFromProto(m.data) IN
       IF b = Refused THEN Refused
       ELSE IF b.pipeline # m.subject[2] THEN Refused ELSE b
DecodedDiagnosisOf(m) ==
  IF m.data = Garbage THEN Refused
  ELSE LET d == DiagnosisFromProto(m.data) IN
       IF d = Refused \/ ~HasTimestamp(m.header) THEN Refused
       ELSE [pipeline |-> m.subject[2], timestamp |-> m.header[1], diagnosis |-> d]
Decoded(m) == IF infix = "observe" THEN DecodedBatchOf(m) ELSE DecodedDiagnosisOf(m)

CallHandler ==
  /\ cb.at = "entered"
  /\ LET x == Decoded(cb.msg) IN
     IF x = Refused
     THEN cb' = [cb EXCEPT !.at = "leaving"] /\ UNCHANGED heard
     ELSE cb' = [cb EXCEPT !.at = "handler"] /\ heard' = Append(heard, x)
  /\ UNCHANGED <<subscriptionVars, wire, foreign, sent>>

\* With nil, an error or a panic: all are followed by exitCallback.
HandlerReturns ==
  /\ cb.at = "handler"
  /\ cb' = [cb EXCEPT !.at = "leaving"]
  /\ UNCHANGED <<subscriptionVars, wire, foreign, sent, heard>>

\* Mutant of ExitCallback: done is left to Close.
ExitCallbackSilently ==
  /\ cb.at = "leaving"
  /\ cb' = Idle /\ active' = active - 1
  /\ UNCHANGED <<infix, subscribed, interest, ctxDone, closing, doneCloses, once, closer,
                 wire, foreign, sent, heard>>

ExitCallback ==
  /\ cb.at = "leaving"
  /\ cb' = Idle
  /\ active' = active - 1
  /\ doneCloses' = IF closing /\ active = 1 THEN doneCloses + 1 ELSE doneCloses
  /\ UNCHANGED <<infix, subscribed, interest, ctxDone, closing, once, closer,
                 wire, foreign, sent, heard>>
------------------------------------------------------------------------------
(* Subscribe and Close.                                                    *)

\* The client registers the callback, or fails.
Register ==
  /\ subscribed = "no"
  /\ \/ subscribed' = "registered" /\ interest' = TRUE /\ UNCHANGED ctxDone
     \/ subscribed' = "failed" /\ ctxDone' = TRUE /\ UNCHANGED interest
  /\ UNCHANGED <<infix, gateVars, once, closer, wire, foreign, cb, sent, heard>>

\* natsSub is set, the watcher started, the subscription handed to the caller.
SubscribeReturns ==
  /\ subscribed = "registered" /\ subscribed' = "yes"
  /\ UNCHANGED <<infix, interest, ctxDone, gateVars, once, closer, wire, foreign, cb, sent, heard>>

CancelParent ==
  /\ ~ctxDone /\ ctxDone' = TRUE
  /\ UNCHANGED <<infix, subscribed, interest, gateVars, once, closer, wire, foreign, cb, sent, heard>>

CloseStep(c, from, to) ==
  /\ closer[c] = from
  /\ closer' = [closer EXCEPT ![c] = to]
  /\ UNCHANGED <<infix, subscribed, wire, foreign, cb, sent, heard>>

\* once.Do: the first runs, the others wait until it is over.
CallClose(c) ==
  /\ subscribed = "yes"
  /\ c = Watcher => ctxDone
  /\ \/ once = "fresh" /\ once' = "running" /\ CloseStep(c, "away", "gate")
     \/ once # "fresh" /\ UNCHANGED once /\ CloseStep(c, "away", "second")
  /\ UNCHANGED <<interest, ctxDone, gateVars>>

\* Mutant of ShutGate: done is closed whoever is in a callback.
ShutGateAtOnce(c) ==
  /\ CloseStep(c, "gate", "cancel")
  /\ closing' = TRUE /\ doneCloses' = doneCloses + 1
  /\ UNCHANGED <<interest, ctxDone, active, once>>

ShutGate(c) ==
  /\ CloseStep(c, "gate", "cancel")
  /\ closing' = TRUE
  /\ doneCloses' = IF active = 0 THEN doneCloses + 1 ELSE doneCloses
  /\ UNCHANGED <<interest, ctxDone, active, once>>

CancelHandlers(c) ==
  /\ CloseStep(c, "cancel", "unsubscribe")
  /\ ctxDone' = TRUE
  /\ UNCHANGED <<interest, gateVars, once>>

Unsubscribe(c) ==
  /\ CloseStep(c, "unsubscribe", "drain")
  /\ interest' = FALSE
  /\ UNCHANGED <<ctxDone, gateVars, once>>

CloseEnds(c) ==
  /\ doneCloses > 0
  /\ CloseStep(c, "drain", "returned")
  /\ once' = "over"
  /\ UNCHANGED <<interest, ctxDone, gateVars>>

SecondCloseEnds(c) ==
  /\ once = "over"
  /\ CloseStep(c, "second", "returned")
  /\ UNCHANGED <<interest, ctxDone, gateVars, once>>

\* The watcher leaves when somebody else has closed.
WatcherLeaves ==
  /\ subscribed = "yes" /\ doneCloses > 0
  /\ CloseStep(Watcher, "away", "returned")
  /\ UNCHANGED <<interest, ctxDone, gateVars, once>>
------------------------------------------------------------------------------
CallbackStep == EnterCallback \/ CallHandler \/ HandlerReturns \/ ExitCallback

CloserStep(c) ==
  \/ ShutGate(c) \/ CancelHandlers(c) \/ Unsubscribe(c) \/ CloseEnds(c) \/ SecondCloseEnds(c)

SubscriptionStep ==
  \/ CallbackStep \/ DropPending \/ ForeignMessage
  \/ Register \/ SubscribeReturns \/ CancelParent
  \/ \E c \in Closers : CallClose(c) \/ CloserStep(c)
  \/ WatcherLeaves

(* The handler returns, the client calls back, and whoever is in Close goes *)
(* on; nobody need call Close or cancel.                                    *)
TransportFairness ==
  /\ WF_transportVars(CallbackStep)
  /\ WF_transportVars(SubscribeReturns)
  /\ \A c \in Closers : WF_transportVars(CloserStep(c))
  /\ WF_transportVars(CallClose(Watcher) \/ WatcherLeaves)
------------------------------------------------------------------------------
(* Whoever has returned from Close finds no handler running, now or later, *)
(* and done is closed once, for a second close would panic                 *)
(* (subscription.go:12-46, 69-91).                                         *)
QuietAfterClose ==
  /\ (\E c \in Closers : closer[c] = "returned") => cb = Idle /\ closing
  /\ doneCloses <= 1

(* A Close that was called returns, and a context that is done closes the  *)
(* subscription as well, if handlers return (subscription.go:69-74,        *)
(* transport.go:243-249; "Subscription is also closed when ctx is          *)
(* canceled", transport.go:89).                                            *)
SubscriptionEnds ==
  /\ \A c \in Users : closer[c] # "away" ~> closer[c] = "returned"
  /\ ctxDone /\ subscribed = "yes" ~> closer[Watcher] = "returned" /\ ~interest
==============================================================================
