----------------------------- MODULE Collector -----------------------------
(***************************************************************************)
(* The collector service: the handlers of collector-service/internal/      *)
(* handler/event.go, the producer of internal/kafka/producer.go and the    *)
(* life of the process in cmd/main.go.                                     *)
(*                                                                         *)
(* A client has one request, which it posts again, up to MaxPosts times,   *)
(* while it has no answer that settles it; it may lose patience while an   *)
(* earlier post is still being handled.  A post is <<client, n>>.          *)
(*                                                                         *)
(* Clients, fiber, sarama and Kafka are external.  sarama sends a message  *)
(* again, up to RetryMax times, when the broker's answer is lost, and the  *)
(* producer is not idempotent, so the topic can hold several copies of it. *)
(* Whether a copy precedes another in its partition is left out, and so is *)
(* the partition: a function of the id (NewHashPartitioner).               *)
(* An event that BodyParser accepts may still be one that json.Marshal     *)
(* refuses: a created_at with the offset +24:00 is read and not written.   *)
(***************************************************************************)
EXTENDS Naturals, FiniteSets, Sequences

CONSTANTS
    Clients,
    Bodies,     \* the requests clients may have
    Ids,        \* event ids given by clients
    NoId,       \* the client gave none
    MaxBatch,   \* 1000 in the code
    RetryMax,   \* Producer.Retry.Max
    MaxPosts,   \* bound: posts of one client
    MaxStops    \* bound: stops and crashes of the process

ASSUME NoIdAssumption == NoId \notin Ids
ASSUME BoundsAssumption ==
    MaxBatch \in Nat /\ RetryMax \in Nat /\ MaxPosts \in Nat /\ MaxStops \in Nat

\* An event as the handlers look at it: complete when event_type, user_id and
\* campaign_id are present; marshals when json.Marshal takes it.
Event == [id : Ids \cup {NoId}, complete : BOOLEAN, marshals : BOOLEAN]

ASSUME BodiesAssumption ==
    \A b \in Bodies :
        /\ b.batch \in BOOLEAN /\ b.parses \in BOOLEAN
        /\ b.events \in Seq(Event)
        /\ b.batch \/ Len(b.events) = 1

VARIABLES
    body,     \* body[c]: the request of client c
    stage,    \* stage[a]: where the handler of post a is
    out,      \* out[a]: messages of a that the producer has not settled
    erred,    \* posts for which the producer reported an error
    answer,   \* answer[a]: the status of the response
    log,      \* the topic
    proc,     \* the process
    stops     \* stops and crashes so far

vars == <<body, stage, out, erred, answer, log, proc, stops>>

Posts == Clients \X (1..MaxPosts)
EventsOf(a) == body[a[1]].events
ItemsOf(a) == DOMAIN EventsOf(a)
Marshalled(a) == {i \in ItemsOf(a) : EventsOf(a)[i].marshals}

\* uuid.NewString does not repeat itself.
FreshId(a, i) == <<a, i>>

\* Nor does it draw an id that a client gave.
ASSUME FreshAssumption ==
    \A a \in Posts, b \in Bodies : \A i \in DOMAIN b.events : FreshId(a, i) \notin Ids

\* Mutant: one uuid for the request, drawn beside now and ip.
IdOf_OnePerBatch(a, i) ==
    IF EventsOf(a)[i].id = NoId THEN FreshId(a, 1) ELSE EventsOf(a)[i].id

IdOf(a, i) ==
    IF EventsOf(a)[i].id = NoId THEN FreshId(a, i) ELSE EventsOf(a)[i].id

\* A message on its way, and a record of the topic; sends counts the transmissions.
Message(i, k) == [item |-> i, sends |-> k]
Record(a, m) == [post |-> a, item |-> m.item, id |-> IdOf(a, m.item), copy |-> m.sends]

Init ==
    /\ body \in [Clients -> Bodies]
    /\ stage = [a \in Posts |-> "new"]
    /\ out = [a \in Posts |-> {}]
    /\ erred = {}
    /\ answer = [a \in Posts |-> "none"]
    /\ log = {}
    /\ proc = "up"
    /\ stops = 0

-----------------------------------------------------------------------------
(* The client                                                              *)

\* An answer after which a client does not post again.
Settled(a) == answer[a] \in {"202", "400"}

\* The listener accepts a connection.
Post(c, n) ==
    /\ stage[<<c, n>>] = "new"
    /\ \A k \in 1..(n - 1) : stage[<<c, k>>] # "new" /\ ~Settled(<<c, k>>)
    /\ proc = "up"
    /\ stage' = [stage EXCEPT ![<<c, n>>] = "handling"]
    /\ UNCHANGED <<body, out, erred, answer, log, proc, stops>>

-----------------------------------------------------------------------------
(* The handlers                                                            *)

Valid(a) ==
    LET b == body[a[1]] IN
    /\ b.parses
    /\ b.batch => Len(b.events) \in 1..MaxBatch
    /\ ~b.batch => b.events[1].complete

Reject(a) ==
    /\ stage[a] = "handling"
    /\ ~Valid(a)
    /\ stage' = [stage EXCEPT ![a] = "done"]
    /\ answer' = [answer EXCEPT ![a] = "400"]
    /\ UNCHANGED <<body, out, erred, log, proc, stops>>

\* SendEvent and SendEventBatch hand one message per event to the producer; SendEventBatch
\* logs and skips an event that does not marshal.
Queue(a) ==
    /\ stage[a] = "handling"
    /\ Valid(a) /\ Marshalled(a) # {}
    /\ proc \in {"up", "closing"}
    /\ stage' = [stage EXCEPT ![a] = "sending"]
    /\ out' = [out EXCEPT ![a] = {Message(i, 0) : i \in Marshalled(a)}]
    /\ UNCHANGED <<body, erred, answer, log, proc, stops>>

\* With no message to send both return an error.
NothingToSend(a) ==
    /\ stage[a] = "handling"
    /\ Valid(a) /\ Marshalled(a) = {}
    /\ stage' = [stage EXCEPT ![a] = "sending"]
    /\ erred' = erred \cup {a}
    /\ UNCHANGED <<body, out, answer, log, proc, stops>>

\* A producer that is being closed takes no message (ErrShuttingDown).
QueueRefused(a) ==
    /\ stage[a] = "handling"
    /\ Valid(a) /\ Marshalled(a) # {}
    /\ proc = "flushing"
    /\ stage' = [stage EXCEPT ![a] = "sending"]
    /\ erred' = erred \cup {a}
    /\ UNCHANGED <<body, out, answer, log, proc, stops>>

\* Mutant: the handler does not wait for the producer (an AsyncProducer).
Answer_Unwaited(a) ==
    /\ stage[a] = "sending"
    /\ stage' = [stage EXCEPT ![a] = "done"]
    /\ answer' = [answer EXCEPT ![a] = IF a \in erred THEN "500" ELSE "202"]
    /\ UNCHANGED <<body, out, erred, log, proc, stops>>

\* Mutant: a batch is answered by its successes; a failed one is waited for.
Answer_OnSuccess(a) ==
    /\ stage[a] = "sending"
    /\ out[a] = {} /\ a \notin erred
    /\ stage' = [stage EXCEPT ![a] = "done"]
    /\ answer' = [answer EXCEPT ![a] = "202"]
    /\ UNCHANGED <<body, out, erred, log, proc, stops>>

\* SendEvent or SendEventBatch has returned: 500 on an error, which any message that failed
\* is, otherwise 202.
Answer(a) ==
    /\ stage[a] = "sending"
    /\ out[a] = {}
    /\ stage' = [stage EXCEPT ![a] = "done"]
    /\ answer' = [answer EXCEPT ![a] = IF a \in erred THEN "500" ELSE "202"]
    /\ UNCHANGED <<body, out, erred, log, proc, stops>>

-----------------------------------------------------------------------------
(* The producer                                                            *)

\* All replicas have the message and the producer learns it.
Stored(a, m) ==
    /\ m \in out[a]
    /\ log' = log \cup {Record(a, m)}
    /\ out' = [out EXCEPT ![a] = @ \ {m}]
    /\ UNCHANGED <<body, stage, erred, answer, proc, stops>>

\* Mutant: one retry more than configured.
StoredResend_OneMore(a, m) ==
    /\ m \in out[a]
    /\ m.sends <= RetryMax
    /\ log' = log \cup {Record(a, m)}
    /\ out' = [out EXCEPT ![a] = (@ \ {m}) \cup {Message(m.item, m.sends + 1)}]
    /\ UNCHANGED <<body, stage, erred, answer, proc, stops>>

\* The topic has the message but the answer is lost: it is sent again.
StoredResend(a, m) ==
    /\ m \in out[a]
    /\ m.sends < RetryMax
    /\ log' = log \cup {Record(a, m)}
    /\ out' = [out EXCEPT ![a] = (@ \ {m}) \cup {Message(m.item, m.sends + 1)}]
    /\ UNCHANGED <<body, stage, erred, answer, proc, stops>>

\* The answer to the last retry is lost: an error for a message that is stored.
StoredGiveUp(a, m) ==
    /\ m \in out[a]
    /\ m.sends = RetryMax
    /\ log' = log \cup {Record(a, m)}
    /\ out' = [out EXCEPT ![a] = @ \ {m}]
    /\ erred' = erred \cup {a}
    /\ UNCHANGED <<body, stage, answer, proc, stops>>

\* The message is refused for good, or the last retry finds no broker.
Fails(a, m) ==
    /\ m \in out[a]
    /\ out' = [out EXCEPT ![a] = @ \ {m}]
    /\ erred' = erred \cup {a}
    /\ UNCHANGED <<body, stage, answer, log, proc, stops>>

-----------------------------------------------------------------------------
(* The process                                                             *)

Busy(a) == stage[a] \in {"handling", "sending"}

\* The process is gone, and with it every handler; their clients get no answer.
Gone ==
    /\ proc' = "down"
    /\ stage' = [a \in Posts |-> IF Busy(a) THEN "cut" ELSE stage[a]]
    /\ out' = [a \in Posts |-> {}]
    /\ UNCHANGED <<body, erred, answer, log>>

\* SIGTERM: app.Shutdown closes the listener; handlers go on.
Shutdown ==
    /\ proc = "up"
    /\ stops < MaxStops
    /\ proc' = "closing"
    /\ stops' = stops + 1
    /\ UNCHANGED <<body, stage, out, erred, answer, log>>

\* Listen returns as soon as the listener is closed, whatever the handlers do, and
\* main runs its deferred producer.Close.
CloseProducer ==
    /\ proc = "closing"
    /\ proc' = "flushing"
    /\ UNCHANGED <<body, stage, out, erred, answer, log, stops>>

\* producer.Close waits for the messages it was given.
Flushed == proc = "flushing" /\ \A a \in Posts : out[a] = {}

\* main returns, although handlers may still have to write their answers.
Exit == Flushed /\ Gone /\ UNCHANGED stops

Crash ==
    /\ proc # "down"
    /\ stops < MaxStops
    /\ Gone
    /\ stops' = stops + 1

Restart ==
    /\ proc = "down"
    /\ proc' = "up"
    /\ UNCHANGED <<body, stage, out, erred, answer, log, stops>>

-----------------------------------------------------------------------------

Handler(a) == Reject(a) \/ Queue(a) \/ NothingToSend(a) \/ QueueRefused(a) \/ Answer(a)

Settle(a) ==
    \E m \in out[a] :
        Stored(a, m) \/ StoredResend(a, m) \/ StoredGiveUp(a, m) \/ Fails(a, m)

Next ==
    \/ \E c \in Clients, n \in 1..MaxPosts : Post(c, n)
    \/ \E a \in Posts : Handler(a) \/ Settle(a)
    \/ Shutdown \/ CloseProducer \/ Exit \/ Crash \/ Restart

Spec == Init /\ [][Next]_vars

\* Goroutines are scheduled, and sarama settles every message: its timeouts and
\* retries are bounded.  Nothing obliges a client to post or the process to stop.
Fairness ==
    /\ \A a \in Posts : WF_vars(Handler(a)) /\ WF_vars(Settle(a))
    /\ WF_vars(CloseProducer) /\ WF_vars(Exit)

FairSpec == Spec /\ Fairness

-----------------------------------------------------------------------------
(* Properties                                                              *)

MessageSet == [item : Nat, sends : 0..RetryMax]

TypeOK ==
    /\ body \in [Clients -> Bodies]
    /\ stage \in [Posts -> {"new", "handling", "sending", "done", "cut"}]
    /\ out \in [Posts -> SUBSET MessageSet]
    /\ erred \in SUBSET Posts
    /\ answer \in [Posts -> {"none", "202", "400", "500"}]
    /\ \A r \in log : r.post \in Posts /\ r.item \in ItemsOf(r.post) /\ r.copy \in 0..RetryMax
    /\ proc \in {"up", "closing", "flushing", "down"}
    /\ stops \in 0..MaxStops

InTopic(a, i) == \E r \in log : r.post = a /\ r.item = i

\* A 202 means that every event of the request that marshals is in the topic, and that
\* there is one, although sarama may have failed, repeated or lost track of some of its
\* messages and the process may be stopping.  It says nothing of an event that does not
\* marshal, although the "count" of the response includes it.
AckedIsQueued ==
    \A a \in Posts : answer[a] = "202" =>
        Marshalled(a) # {} /\ \A i \in Marshalled(a) : InTopic(a, i)

\* Item i of post a has an id of the collector.
Drawn(a, i) == EventsOf(a)[i].id = NoId

\* The ids under which an event of a client is in the topic.
IdsOf(c, i) == {r.id : r \in {s \in log : s.post[1] = c /\ s.item = i}}
PostsOf(c) == {n \in 1..MaxPosts : stage[<<c, n>>] # "new"}

\* What the worker's deduplication relies on.  Copies of an event, made by sarama or by
\* a client that posts again, carry its own id if it has one, and otherwise at most one
\* id per post; an id that the collector drew belongs to one event only.
Recognisable ==
    /\ \A c \in Clients : \A i \in ItemsOf(<<c, 1>>) :
          Cardinality(IdsOf(c, i)) <= IF Drawn(<<c, 1>>, i) THEN Cardinality(PostsOf(c)) ELSE 1
    /\ \A r, s \in log :
          r.id = s.id /\ Drawn(r.post, r.item) => r.post = s.post /\ r.item = s.item

\* The promise to clients.
Verdict == [a \in Posts |-> CASE answer[a] = "202" -> "accepted"
                              [] answer[a] = "400" -> "refused"
                              [] answer[a] = "500" -> "failed"
                              [] OTHER -> "none"]
Contract == INSTANCE IngestContract WITH
    Posts <- Posts,
    Items <- Nat,
    carried <- [a \in Posts |-> Marshalled(a)],
    topic <- {<<r.post, r.item>> : r \in log},
    verdict <- Verdict

\* The collector implements IngestContract: besides AckedIsQueued, nothing of a refused
\* request reaches the topic, nothing that does not marshal ever does, and nothing of a
\* request reaches it after the answer.
ImplementsIngest == Contract!ISpec

\* Every post that is being handled is answered, or ends with the process.
EveryPostEnds == \A a \in Posts : stage[a] = "handling" ~> stage[a] \in {"done", "cut"}
=============================================================================
