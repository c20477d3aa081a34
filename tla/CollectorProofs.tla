-------------------------- MODULE CollectorProofs --------------------------
(***************************************************************************)
(* The collector keeps its promise to clients, and the ids in the topic    *)
(* are what the worker's deduplication needs, for any requests, any number *)
(* of clients, posts, retries, stops and crashes.                          *)
(***************************************************************************)
EXTENDS Collector, FiniteSetTheorems, TLAPS

Stages == {"new", "handling", "sending", "done", "cut"}
Answers == {"none", "202", "400", "500"}

\* A message is with the producer only while its handler waits, and until there is an error
\* each item that marshals is with the producer or in the topic.
Flight ==
    \A a \in Posts :
        /\ stage[a] # "sending" => out[a] = {}
        /\ \A m \in out[a] : m.item \in Marshalled(a)
        /\ stage[a] = "sending" /\ a \notin erred =>
              /\ Marshalled(a) # {}
              /\ \A i \in Marshalled(a) : InTopic(a, i) \/ \E m \in out[a] : m.item = i

\* Answers end the handling.
Told == \A a \in Posts : answer[a] # "none" => stage[a] = "done"

\* Nothing of a post is in the topic before the producer has it, or after a 400.
Untouched ==
    \A a \in Posts :
        stage[a] \in {"new", "handling"} \/ answer[a] = "400" => \A r \in log : r.post # a

\* The id of a record is the one its handler gave it.
Named == \A r \in log : r.id = IdOf(r.post, r.item)

IInv == TypeOK /\ Flight /\ Told /\ Untouched /\ Named /\ AckedIsQueued

-----------------------------------------------------------------------------

LEMMA BodyFacts ==
    ASSUME body \in [Clients -> Bodies], NEW a \in Posts
    PROVE  /\ a[1] \in Clients
           /\ EventsOf(a) \in Seq(Event)
           /\ ItemsOf(a) \subseteq Nat /\ Marshalled(a) \subseteq ItemsOf(a)
           /\ \A i \in ItemsOf(a) : EventsOf(a)[i] \in Event
<1>1. a[1] \in Clients
  BY DEF Posts
<1>2. EventsOf(a) \in Seq(Event)
  BY <1>1, BodiesAssumption DEF EventsOf
<1> QED
  BY <1>1, <1>2 DEF ItemsOf, Marshalled

LEMMA InitInv == Init => IInv
<1> SUFFICES ASSUME Init PROVE IInv
  OBVIOUS
<1>1. TypeOK
  BY BoundsAssumption DEF Init, TypeOK, MessageSet
<1>2. Flight /\ Told /\ Untouched /\ Named /\ AckedIsQueued
  BY DEF Init, Flight, Told, Untouched, Named, AckedIsQueued
<1> QED
  BY <1>1, <1>2 DEF IInv

\* The items and the ids of a post do not change.
LEMMA BodyKept ==
    ASSUME body' = body
    PROVE  /\ \A a : ItemsOf(a)' = ItemsOf(a) /\ Marshalled(a)' = Marshalled(a)
           /\ \A a, i : IdOf(a, i)' = IdOf(a, i)
BY DEF ItemsOf, Marshalled, IdOf, EventsOf

\* A handler moves on and may answer, with nothing in flight; the topic stays.
LEMMA HandlerMoves ==
    ASSUME IInv, NEW a \in Posts, NEW s \in Stages, NEW v \in Answers,
           stage[a] \in {"new", "handling", "sending"}, out[a] = {},
           stage' = [stage EXCEPT ![a] = s], answer' = [answer EXCEPT ![a] = v],
           UNCHANGED <<body, out, log>>,
           erred \subseteq erred', erred' \in SUBSET Posts,
           UNCHANGED stops, proc' = proc,
           s # "new", s = "sending" => a \in erred', s = "handling" => stage[a] = "new",
           v # "none" => s = "done",
           v = "400" => stage[a] = "handling",
           v = "202" => stage[a] = "sending" /\ a \notin erred
    PROVE  IInv'
<1> USE DEF IInv
<1>0. /\ stage' \in [Posts -> Stages] /\ answer' \in [Posts -> Answers]
      /\ \A b \in Posts : b # a => stage'[b] = stage[b] /\ answer'[b] = answer[b]
      /\ stage'[a] = s /\ answer'[a] = v
  BY DEF TypeOK, Stages, Answers
<1>1. /\ \A b : ItemsOf(b)' = ItemsOf(b) /\ Marshalled(b)' = Marshalled(b)
      /\ \A b, i : IdOf(b, i)' = IdOf(b, i)
      /\ \A b, i : InTopic(b, i)' = InTopic(b, i)
  BY BodyKept DEF InTopic
<1>2. TypeOK'
  BY <1>0, <1>1 DEF TypeOK, Stages, Answers
<1>3. Flight'
  BY <1>0, <1>1 DEF Flight
<1>4. Told'
  BY <1>0 DEF Told
<1>5. Untouched'
  BY <1>0 DEF Untouched, TypeOK
<1>6. Named'
  BY <1>1 DEF Named
<1>7. v = "202" => Marshalled(a) # {} /\ \A i \in Marshalled(a) : InTopic(a, i)
  BY DEF Flight
<1>8. AckedIsQueued'
  BY <1>0, <1>1, <1>7 DEF AckedIsQueued
<1> QED
  BY <1>2, <1>3, <1>4, <1>5, <1>6, <1>8

\* The producer settles, or sends again, a message of post a.  New is what stays with it.
LEMMA ProducerMoves ==
    ASSUME IInv, NEW a \in Posts, NEW m \in out[a], NEW New \in SUBSET MessageSet,
           \A k \in New : k.item = m.item,
           out' = [out EXCEPT ![a] = (@ \ {m}) \cup New],
           log' = log \cup {Record(a, m)} \/ (log' = log /\ a \in erred'),
           erred \subseteq erred', erred' \in SUBSET Posts,
           UNCHANGED <<body, stage, answer, proc, stops>>
    PROVE  IInv'
<1> USE DEF IInv
<1> DEFINE rec == Record(a, m)
<1>0. /\ out' \in [Posts -> SUBSET MessageSet]
      /\ \A b \in Posts : b # a => out'[b] = out[b]
      /\ out'[a] = (out[a] \ {m}) \cup New
      /\ m \in MessageSet
  BY DEF TypeOK
<1>1. /\ \A b : ItemsOf(b)' = ItemsOf(b) /\ Marshalled(b)' = Marshalled(b)
      /\ \A b, i : IdOf(b, i)' = IdOf(b, i)
  BY BodyKept
<1>2. /\ rec.post = a /\ rec.item = m.item /\ rec.id = IdOf(a, m.item)
      /\ rec.copy \in 0..RetryMax /\ m.item \in Marshalled(a)
  BY <1>0 DEF Record, MessageSet, Flight
<1>3. log \subseteq log' /\ \A r \in log' : r \in log \/ r = rec
  OBVIOUS
<1>4. /\ \A b, i : InTopic(b, i) => InTopic(b, i)'
      /\ InTopic(a, m.item)' \/ a \in erred'
  BY <1>2, <1>3 DEF InTopic
<1>5. stage[a] = "sending" /\ answer[a] = "none"
  BY DEF Flight, Told
<1>6. TypeOK'
  BY <1>0, <1>1, <1>2, <1>3 DEF TypeOK, Marshalled
<1>7. Flight'
  <2>1. ASSUME NEW b \in Posts
        PROVE  /\ stage'[b] # "sending" => out'[b] = {}
               /\ \A k \in out'[b] : k.item \in Marshalled(b)
    BY <1>0, <1>2, <1>5 DEF Flight
  <2>2. ASSUME NEW b \in Posts, stage'[b] = "sending", b \notin erred', NEW i \in Marshalled(b)
        PROVE  InTopic(b, i)' \/ \E k \in out'[b] : k.item = i
    <3>1. InTopic(b, i) \/ \E k \in out[b] : k.item = i
      BY <2>2 DEF Flight
    <3>2. CASE b # a
      BY <3>1, <3>2, <1>0, <1>4
    <3>3. CASE b = a
      <4>1. InTopic(a, m.item)'
        BY <2>2, <3>3, <1>4
      <4> QED
        BY <3>1, <3>3, <4>1, <1>0, <1>4
    <3> QED
      BY <3>2, <3>3
  <2>3. ASSUME NEW b \in Posts, stage'[b] = "sending", b \notin erred'
        PROVE  Marshalled(b) # {}
    BY <2>3 DEF Flight
  <2> QED
    BY <2>1, <2>2, <2>3, <1>1 DEF Flight
<1>8. Told'
  BY DEF Told
<1>9. Untouched'
  BY <1>2, <1>3, <1>5 DEF Untouched
<1>10. Named'
  BY <1>1, <1>2, <1>3 DEF Named
<1>11. AckedIsQueued'
  BY <1>1, <1>4 DEF AckedIsQueued
<1> QED
  BY <1>6, <1>7, <1>8, <1>9, <1>10, <1>11

\* The process moves on or ends; when it ends, every handler ends with it.
LEMMA ProcessMoves ==
    ASSUME IInv,
           UNCHANGED <<body, erred, answer, log>>,
           proc' \in {"up", "closing", "flushing", "down"}, stops' \in 0..MaxStops,
           UNCHANGED <<stage, out>> \/ Gone
    PROVE  IInv'
<1> USE DEF IInv
<1>1. /\ \A b : ItemsOf(b)' = ItemsOf(b) /\ Marshalled(b)' = Marshalled(b)
      /\ \A b, i : IdOf(b, i)' = IdOf(b, i)
      /\ \A b, i : InTopic(b, i)' = InTopic(b, i)
  BY BodyKept DEF InTopic
<1>2. /\ stage' \in [Posts -> Stages] /\ out' \in [Posts -> SUBSET MessageSet]
      /\ \A b \in Posts : \/ stage'[b] = stage[b] /\ out'[b] = out[b]
                          \/ stage'[b] = stage[b] /\ ~Busy(b) /\ out'[b] = {}
                          \/ stage'[b] = "cut" /\ Busy(b) /\ out'[b] = {}
  <2>1. CASE UNCHANGED <<stage, out>>
    BY <2>1 DEF TypeOK, Stages
  <2>2. CASE Gone
    <3>1. stage' = [a \in Posts |-> IF Busy(a) THEN "cut" ELSE stage[a]]
      BY <2>2 DEF Gone
    <3>2. out' = [a \in Posts |-> {}]
      BY <2>2 DEF Gone
    <3>3. \A b \in Posts : stage[b] \in Stages
      BY DEF TypeOK, Stages
    <3>4. stage' \in [Posts -> Stages]
      BY <3>1, <3>3 DEF Stages
    <3> QED
      BY <3>1, <3>2, <3>4
  <2> QED
    BY <2>1, <2>2
<1>3. TypeOK'
  BY <1>1, <1>2 DEF TypeOK, Stages
<1>4. Flight'
  <2>1. ASSUME NEW b \in Posts
        PROVE  /\ stage'[b] # "sending" => out'[b] = {}
               /\ \A m \in out'[b] : m.item \in Marshalled(b)
               /\ stage'[b] = "sending" /\ b \notin erred =>
                    /\ Marshalled(b) # {}
                    /\ \A i \in Marshalled(b) : InTopic(b, i) \/ \E m \in out'[b] : m.item = i
    BY <1>2 DEF Flight, Busy
  <2> QED
    BY <2>1, <1>1 DEF Flight
<1>5. Told'
  BY <1>2 DEF Told, Busy
<1>6. Untouched'
  BY <1>2 DEF Untouched
<1>7. Named'
  BY <1>1 DEF Named
<1>8. AckedIsQueued'
  BY <1>1 DEF AckedIsQueued
<1> QED
  BY <1>3, <1>4, <1>5, <1>6, <1>7, <1>8

\* What marshals of a valid request goes to the producer.
LEMMA QueueMoves ==
    ASSUME IInv, NEW a \in Posts, Queue(a)
    PROVE  IInv'
<1> USE DEF IInv, Queue
<1>0. /\ stage' \in [Posts -> Stages] /\ stage'[a] = "sending"
      /\ \A b \in Posts : b # a => stage'[b] = stage[b] /\ out'[b] = out[b]
      /\ out'[a] = {Message(i, 0) : i \in Marshalled(a)}
  BY DEF TypeOK, Stages
<1>1. /\ \A b : ItemsOf(b)' = ItemsOf(b) /\ Marshalled(b)' = Marshalled(b)
      /\ \A b, i : IdOf(b, i)' = IdOf(b, i)
      /\ \A b, i : InTopic(b, i)' = InTopic(b, i)
  BY BodyKept DEF InTopic
<1>2. Marshalled(a) \subseteq Nat
  BY BodyFacts DEF TypeOK
<1>3. \A i \in Marshalled(a) : Message(i, 0) \in MessageSet /\ Message(i, 0).item = i
  BY <1>2, BoundsAssumption DEF Message, MessageSet
<1>4. out' \in [Posts -> SUBSET MessageSet]
  BY <1>0, <1>3 DEF TypeOK
<1>5. TypeOK'
  BY <1>0, <1>1, <1>4 DEF TypeOK, Stages
<1>6. Flight'
  BY <1>0, <1>1, <1>3 DEF Flight
<1>7. Told' /\ Named' /\ AckedIsQueued'
  BY <1>0, <1>1 DEF Told, Named, AckedIsQueued
<1>8. Untouched'
  BY <1>0 DEF Untouched
<1> QED
  BY <1>5, <1>6, <1>7, <1>8

LEMMA NextInv == IInv /\ [Next]_vars => IInv'
<1> SUFFICES ASSUME IInv, [Next]_vars PROVE IInv'
  OBVIOUS
<1>0. /\ TypeOK /\ Flight /\ Told
      /\ \A a \in Posts : answer[a] \in Answers
      /\ erred \in SUBSET Posts
  BY DEF IInv, TypeOK, Answers
<1>1. ASSUME NEW c \in Clients, NEW n \in 1..MaxPosts, Post(c, n) PROVE IInv'
  <2>1. <<c, n>> \in Posts
    BY DEF Posts
  <2>2. answer[<<c, n>>] = "none" /\ out[<<c, n>>] = {}
    BY <2>1, <1>0, <1>1 DEF Told, Flight, Post
  <2>3. answer' = [answer EXCEPT ![<<c, n>>] = "none"]
    BY <2>1, <2>2, <1>0, <1>1 DEF Post, TypeOK
  <2> QED
    BY <1>0, <1>1, <2>1, <2>2, <2>3, HandlerMoves DEF Post, Stages, Answers
<1>2. ASSUME NEW a \in Posts, Reject(a) PROVE IInv'
  <2>1. out[a] = {}
    BY <1>0, <1>2 DEF Flight, Reject
  <2> QED
    BY <1>0, <1>2, <2>1, HandlerMoves DEF Reject, Stages, Answers
<1>3. ASSUME NEW a \in Posts, Queue(a) PROVE IInv'
  BY <1>3, QueueMoves
<1>4. ASSUME NEW a \in Posts, NothingToSend(a) \/ QueueRefused(a) PROVE IInv'
  <2>1. out[a] = {} /\ answer[a] = "none"
    BY <1>0, <1>4 DEF Flight, Told, NothingToSend, QueueRefused
  <2>2. answer' = [answer EXCEPT ![a] = "none"]
    BY <2>1, <1>0, <1>4 DEF NothingToSend, QueueRefused, TypeOK
  <2> QED
    BY <1>0, <1>4, <2>1, <2>2, HandlerMoves DEF NothingToSend, QueueRefused, Stages, Answers
<1>5. ASSUME NEW a \in Posts, Answer(a) PROVE IInv'
  <2>1. CASE a \in erred
    BY <1>0, <1>5, <2>1, HandlerMoves DEF Answer, Stages, Answers
  <2>2. CASE a \notin erred
    BY <1>0, <1>5, <2>2, HandlerMoves DEF Answer, Stages, Answers
  <2> QED
    BY <2>1, <2>2
<1>6. ASSUME NEW a \in Posts, NEW m \in out[a], Stored(a, m) PROVE IInv'
  <2> DEFINE New == {}
  <2>1. out' = [out EXCEPT ![a] = (@ \ {m}) \cup New]
    BY <1>6 DEF Stored
  <2>2. New \in SUBSET MessageSet /\ \A k \in New : k.item = m.item
    OBVIOUS
  <2>3. /\ log' = log \cup {Record(a, m)} \/ (log' = log /\ a \in erred')
        /\ erred \subseteq erred' /\ erred' \in SUBSET Posts
        /\ UNCHANGED <<body, stage, answer, proc, stops>>
    BY <1>0, <1>6 DEF Stored
  <2> HIDE DEF New
  <2> QED
    BY <1>0, <2>1, <2>2, <2>3, ProducerMoves
<1>7. ASSUME NEW a \in Posts, NEW m \in out[a], StoredResend(a, m) PROVE IInv'
  <2>1. m \in MessageSet
    BY <1>0 DEF TypeOK
  <2>2. Message(m.item, m.sends + 1) \in MessageSet /\ Message(m.item, m.sends + 1).item = m.item
    BY <2>1, <1>7, BoundsAssumption DEF Message, MessageSet, StoredResend
  <2> DEFINE New == {Message(m.item, m.sends + 1)}
  <2>3. New \in SUBSET MessageSet /\ \A k \in New : k.item = m.item
    BY <2>2
  <2>4. out' = [out EXCEPT ![a] = (@ \ {m}) \cup New]
    BY <1>7 DEF StoredResend
  <2> HIDE DEF New
  <2> QED
    BY <1>0, <1>7, <2>3, <2>4, ProducerMoves DEF StoredResend
<1>8. ASSUME NEW a \in Posts, NEW m \in out[a], StoredGiveUp(a, m) PROVE IInv'
  <2> DEFINE New == {}
  <2>1. out' = [out EXCEPT ![a] = (@ \ {m}) \cup New]
    BY <1>8 DEF StoredGiveUp
  <2>2. New \in SUBSET MessageSet /\ \A k \in New : k.item = m.item
    OBVIOUS
  <2>3. /\ log' = log \cup {Record(a, m)} \/ (log' = log /\ a \in erred')
        /\ erred \subseteq erred' /\ erred' \in SUBSET Posts
        /\ UNCHANGED <<body, stage, answer, proc, stops>>
    BY <1>0, <1>8 DEF StoredGiveUp
  <2> HIDE DEF New
  <2> QED
    BY <1>0, <2>1, <2>2, <2>3, ProducerMoves
<1>9. ASSUME NEW a \in Posts, NEW m \in out[a], Fails(a, m) PROVE IInv'
  <2> DEFINE New == {}
  <2>1. out' = [out EXCEPT ![a] = (@ \ {m}) \cup New]
    BY <1>9 DEF Fails
  <2>2. New \in SUBSET MessageSet /\ \A k \in New : k.item = m.item
    OBVIOUS
  <2>3. /\ log' = log \cup {Record(a, m)} \/ (log' = log /\ a \in erred')
        /\ erred \subseteq erred' /\ erred' \in SUBSET Posts
        /\ UNCHANGED <<body, stage, answer, proc, stops>>
    BY <1>0, <1>9 DEF Fails
  <2> HIDE DEF New
  <2> QED
    BY <1>0, <2>1, <2>2, <2>3, ProducerMoves
<1>10. CASE Shutdown \/ CloseProducer \/ Exit \/ Crash \/ Restart
  <2>1. stops' \in 0..MaxStops /\ proc' \in {"up", "closing", "flushing", "down"}
    BY <1>0, <1>10, BoundsAssumption
       DEF TypeOK, Shutdown, CloseProducer, Exit, Crash, Restart, Gone
  <2>2. UNCHANGED <<body, erred, answer, log>> /\ (UNCHANGED <<stage, out>> \/ Gone)
    BY <1>10 DEF Shutdown, CloseProducer, Exit, Crash, Restart, Gone
  <2> QED
    BY <2>1, <2>2, ProcessMoves
<1>11. CASE UNCHANGED vars
  <2>1. stops' \in 0..MaxStops /\ proc' \in {"up", "closing", "flushing", "down"}
    BY <1>0, <1>11 DEF TypeOK, vars
  <2> QED
    BY <1>11, <2>1, ProcessMoves DEF vars
<1> QED
  BY <1>1, <1>2, <1>3, <1>4, <1>5, <1>6, <1>7, <1>8, <1>9, <1>10, <1>11
     DEF Next, Handler, Settle

\* The inductive invariant.
THEOREM Inductive == Spec => []IInv
<1>1. IInv /\ [Next]_vars => IInv'
  BY NextInv
<1> QED
  BY <1>1, InitInv, PTL DEF Spec

\* The collector's variables keep their types; no message is sent more often than
\* Producer.Retry.Max allows.
THEOREM TypeCorrect == Spec => []TypeOK
<1>1. IInv => TypeOK
  BY DEF IInv
<1> QED
  BY <1>1, Inductive, PTL

\* A 202 of HandleEvent or HandleEventBatch means that the request has events that marshal
\* and that all of those are in the topic.
THEOREM AckedAlwaysQueued == Spec => []AckedIsQueued
<1>1. IInv => AckedIsQueued
  BY DEF IInv
<1> QED
  BY <1>1, Inductive, PTL

-----------------------------------------------------------------------------

\* What the records of one event of a client have in common.
LEMMA RecordFacts ==
    ASSUME IInv, NEW r \in log
    PROVE  /\ r.post = <<r.post[1], r.post[2]>> /\ r.post[2] \in PostsOf(r.post[1])
           /\ EventsOf(r.post)[r.item].id \in Ids \cup {NoId}
           /\ ~Drawn(r.post, r.item) => r.id = EventsOf(r.post)[r.item].id
           /\ Drawn(r.post, r.item) => r.id = <<r.post, r.item>>
<1>1. r.post \in Posts /\ r.item \in ItemsOf(r.post)
  BY DEF IInv, TypeOK
<1>2. r.post = <<r.post[1], r.post[2]>> /\ r.post[2] \in 1..MaxPosts
  BY <1>1 DEF Posts
<1>3. stage[r.post] # "new"
  BY <1>1 DEF IInv, Untouched
<1>4. EventsOf(r.post)[r.item] \in Event
  BY <1>1, BodyFacts DEF IInv, TypeOK
<1>5. r.id = IdOf(r.post, r.item)
  BY DEF IInv, Named
<1>6. r.post[2] \in PostsOf(r.post[1])
  BY <1>2, <1>3 DEF PostsOf
<1>7. EventsOf(r.post)[r.item].id \in Ids \cup {NoId}
  BY <1>4 DEF Event
<1> QED
  BY <1>2, <1>5, <1>6, <1>7 DEF IdOf, Drawn, FreshId

LEMMA FewIds ==
    ASSUME IInv, NEW c \in Clients, NEW i
    PROVE  Cardinality(IdsOf(c, i)) <= IF Drawn(<<c, 1>>, i) THEN Cardinality(PostsOf(c)) ELSE 1
<1>1. \A n : EventsOf(<<c, n>>) = body[c].events
  BY DEF EventsOf
<1>2. \A n : Drawn(<<c, n>>, i) <=> Drawn(<<c, 1>>, i)
  BY <1>1 DEF Drawn
<1>3. \A x \in IdsOf(c, i) : \E n \in PostsOf(c) :
         x = IF Drawn(<<c, 1>>, i) THEN <<<<c, n>>, i>> ELSE body[c].events[i].id
  <2> SUFFICES ASSUME NEW r \in log, r.post[1] = c, r.item = i
               PROVE  \E n \in PostsOf(c) :
                        r.id = IF Drawn(<<c, 1>>, i) THEN <<<<c, n>>, i>> ELSE body[c].events[i].id
    BY DEF IdsOf
  <2> DEFINE n == r.post[2]
  <2>1. r.post = <<c, n>> /\ n \in PostsOf(c)
    BY RecordFacts
  <2>2. r.id = IF Drawn(<<c, n>>, i) THEN <<<<c, n>>, i>> ELSE EventsOf(<<c, n>>)[i].id
    BY <2>1, RecordFacts
  <2> QED
    BY <2>1, <2>2, <1>1, <1>2
<1>4. IsFiniteSet(PostsOf(c)) /\ Cardinality(PostsOf(c)) \in Nat
  <2>1. PostsOf(c) \in SUBSET (1..MaxPosts) /\ IsFiniteSet(1..MaxPosts)
    BY BoundsAssumption, FS_Interval DEF PostsOf
  <2> QED
    BY <2>1, FS_Subset, FS_CardinalityType
<1>5. CASE Drawn(<<c, 1>>, i)
  <2> DEFINE f == [n \in PostsOf(c) |-> <<<<c, n>>, i>>]
             T == {f[n] : n \in PostsOf(c)}
  <2>1. f \in Surjection(PostsOf(c), T)
    BY DEF Surjection
  <2>2. IsFiniteSet(T) /\ Cardinality(T) <= Cardinality(PostsOf(c))
    BY <2>1, <1>4, FS_Surjection
  <2>3. IdsOf(c, i) \in SUBSET T
    BY <1>3, <1>5
  <2>4. Cardinality(IdsOf(c, i)) <= Cardinality(T) /\ IsFiniteSet(IdsOf(c, i))
    BY <2>2, <2>3, FS_Subset
  <2>5. Cardinality(IdsOf(c, i)) \in Nat /\ Cardinality(T) \in Nat
    BY <2>2, <2>4, FS_CardinalityType
  <2> QED
    BY <2>2, <2>4, <2>5, <1>4, <1>5
<1>6. CASE ~Drawn(<<c, 1>>, i)
  <2> DEFINE T == {body[c].events[i].id}
  <2>1. IsFiniteSet(T) /\ Cardinality(T) = 1
    BY FS_Singleton
  <2>2. IdsOf(c, i) \in SUBSET T
    BY <1>3, <1>6
  <2>3. Cardinality(IdsOf(c, i)) <= 1
    BY <2>1, <2>2, FS_Subset
  <2> QED
    BY <2>3, <1>6
<1> QED
  BY <1>5, <1>6

LEMMA PairsEqual ==
    ASSUME NEW x, NEW y, NEW u, NEW v, <<x, y>> = <<u, v>>
    PROVE  x = u /\ y = v
OBVIOUS

LEMMA OneEventPerId ==
    ASSUME IInv, NEW r \in log, NEW s \in log, r.id = s.id, Drawn(r.post, r.item)
    PROVE  r.post = s.post /\ r.item = s.item
<1>1. r.id = <<r.post, r.item>> /\ r.post \in Posts /\ r.item \in ItemsOf(r.post)
  BY RecordFacts DEF IInv, TypeOK
<1>2. body[r.post[1]] \in Bodies
  BY <1>1, BodyFacts DEF IInv, TypeOK
<1>3. r.id \notin Ids
  BY <1>1, <1>2, FreshAssumption DEF FreshId, ItemsOf, EventsOf
<1>4. Drawn(s.post, s.item)
  BY <1>3, RecordFacts, NoIdAssumption DEF Drawn
<1>5. <<r.post, r.item>> = <<s.post, s.item>>
  BY <1>1, <1>4, RecordFacts
<1> QED
  BY <1>5, PairsEqual

\* Whatever is repeated by sarama or by clients, an event with an id of its own is in the
\* topic under that id only, and an id the collector drew belongs to one event.
THEOREM AlwaysRecognisable == Spec => []Recognisable
<1>1. IInv => Recognisable
  BY FewIds, OneEventPerId DEF Recognisable
<1> QED
  BY <1>1, Inductive, PTL

-----------------------------------------------------------------------------
(* The collector implements IngestContract.                                *)

Carried == [a \in Posts |-> Marshalled(a)]
Topic == {<<r.post, r.item>> : r \in log}

LEMMA Publishes ==
    ASSUME IInv, NEW a \in Posts, NEW m \in out[a],
           log' = log \cup {Record(a, m)}, UNCHANGED <<body, answer>>
    PROVE  Contract!Publish(a, m.item) /\ m.item \in Carried[a]
<1>1. stage[a] = "sending" /\ m.item \in Marshalled(a)
  BY DEF IInv, Flight
<1>2. answer[a] = "none"
  BY <1>1 DEF IInv, Told
<1>3. Record(a, m).post = a /\ Record(a, m).item = m.item
  BY DEF Record
<1>4. Topic' = Topic \cup {<<a, m.item>>}
  BY <1>3 DEF Topic
<1>5. Carried' = Carried /\ Verdict' = Verdict
  BY BodyKept DEF Carried, Verdict
<1>6. Verdict[a] = "none"
  BY <1>2 DEF Verdict
<1>7. m.item \in Carried[a]
  BY <1>1 DEF Carried
<1> QED
  BY <1>4, <1>5, <1>6, <1>7 DEF Contract!Publish, Carried, Topic

LEMMA Tells ==
    ASSUME IInv, NEW a \in Posts, NEW v \in {"202", "400", "500"},
           stage[a] \in {"handling", "sending"},
           answer' = [answer EXCEPT ![a] = v], UNCHANGED <<body, log>>,
           v = "202" => Marshalled(a) # {} /\ \A i \in Marshalled(a) : InTopic(a, i),
           v = "400" => stage[a] = "handling"
    PROVE  \E w \in Contract!Verdicts \ {"none"} : Contract!Tell(a, w)
<1> DEFINE w == CASE v = "202" -> "accepted" [] v = "400" -> "refused" [] v = "500" -> "failed"
<1>1. answer[a] = "none"
  BY DEF IInv, Told
<1>2. Topic' = Topic /\ Carried' = Carried
  BY BodyKept DEF Carried, Topic
<1>3. Verdict[a] = "none"
  BY <1>1 DEF Verdict
<1>4. Verdict' = [Verdict EXCEPT ![a] = w]
  <2>1. \A b \in Posts : answer'[b] = IF b = a THEN v ELSE answer[b]
    BY DEF IInv, TypeOK
  <2> QED
    BY <2>1 DEF Verdict
<1>5. v = "202" => Carried[a] # {} /\ \A i \in Carried[a] : <<a, i>> \in Topic
  BY DEF Carried, Topic, InTopic
<1>6. v = "400" => \A i \in Carried[a] : <<a, i>> \notin Topic
  <2> SUFFICES ASSUME v = "400", NEW i \in Carried[a], NEW r \in log, <<a, i>> = <<r.post, r.item>>
               PROVE  FALSE
    BY DEF Topic
  <2>1. r.post = a
    BY PairsEqual
  <2> QED
    BY <2>1 DEF IInv, Untouched
<1>7. w \in Contract!Verdicts \ {"none"}
  BY DEF Contract!Verdicts
<1>8. Contract!Tell(a, w)
  BY <1>2, <1>3, <1>4, <1>5, <1>6 DEF Contract!Tell, Carried, Topic
<1> QED
  BY <1>7, <1>8

LEMMA ContractInit == Init => Contract!IInit
<1> SUFFICES ASSUME Init PROVE Contract!IInit
  OBVIOUS
<1>1. body \in [Clients -> Bodies] /\ log = {} /\ answer = [a \in Posts |-> "none"]
  BY DEF Init
<1>2. Carried \in [Posts -> SUBSET Nat]
  BY <1>1, BodyFacts DEF Carried
<1>3. Verdict = [a \in Posts |-> "none"]
  BY <1>1 DEF Verdict
<1>4. Topic = {}
  BY <1>1 DEF Topic
<1> QED
  BY <1>2, <1>3, <1>4 DEF Contract!IInit, Carried, Topic

LEMMA ContractStep == IInv /\ [Next]_vars => [Contract!INext]_(Contract!ivars)
<1> SUFFICES ASSUME IInv, [Next]_vars PROVE [Contract!INext]_(Contract!ivars)
  OBVIOUS
<1>1. ASSUME UNCHANGED <<body, log, answer>> PROVE UNCHANGED Contract!ivars
  <2>1. Topic' = Topic /\ Carried' = Carried /\ Verdict' = Verdict
    BY <1>1, BodyKept DEF Carried, Topic, Verdict
  <2> QED
    BY <2>1 DEF Contract!ivars, Carried, Topic
<1>2. ASSUME NEW a \in Posts, NEW m \in out[a],
             Stored(a, m) \/ StoredResend(a, m) \/ StoredGiveUp(a, m)
      PROVE  Contract!INext
  <2>1. Contract!Publish(a, m.item) /\ m.item \in Carried[a]
    BY <1>2, Publishes DEF Stored, StoredResend, StoredGiveUp
  <2> QED
    BY <2>1 DEF Contract!INext, Carried
<1>3. ASSUME NEW a \in Posts, Reject(a) PROVE Contract!INext
  <2>1. \E w \in Contract!Verdicts \ {"none"} : Contract!Tell(a, w)
    BY <1>3, Tells DEF Reject
  <2> QED
    BY <2>1 DEF Contract!INext
<1>4. ASSUME NEW a \in Posts, Answer(a) PROVE Contract!INext
  <2> DEFINE v == IF a \in erred THEN "500" ELSE "202"
  <2>1. v = "202" => Marshalled(a) # {} /\ \A i \in Marshalled(a) : InTopic(a, i)
    BY <1>4 DEF Answer, IInv, Flight
  <2>2. \E w \in Contract!Verdicts \ {"none"} : Contract!Tell(a, w)
    BY <1>4, <2>1, Tells DEF Answer
  <2> QED
    BY <2>2 DEF Contract!INext
<1>5. ASSUME NEW c \in Clients, NEW n \in 1..MaxPosts, Post(c, n) PROVE UNCHANGED <<body, log, answer>>
  BY <1>5 DEF Post
<1>6. ASSUME NEW a \in Posts, Queue(a) \/ NothingToSend(a) \/ QueueRefused(a)
      PROVE  UNCHANGED <<body, log, answer>>
  BY <1>6 DEF Queue, NothingToSend, QueueRefused
<1>7. ASSUME NEW a \in Posts, NEW m \in out[a], Fails(a, m) PROVE UNCHANGED <<body, log, answer>>
  BY <1>7 DEF Fails
<1>8. CASE Shutdown \/ CloseProducer \/ Exit \/ Crash \/ Restart \/ UNCHANGED vars
  <2>1. UNCHANGED <<body, log, answer>>
    BY <1>8 DEF Shutdown, CloseProducer, Exit, Crash, Restart, Gone, vars
  <2> QED
    BY <2>1, <1>1
<1> QED
  BY <1>1, <1>2, <1>3, <1>4, <1>5, <1>6, <1>7, <1>8 DEF Next, Handler, Settle

\* The collector refines the contract of its two endpoints, step by step.
THEOREM RefinesIngest == Spec => ImplementsIngest
<1>1. Init => Contract!IInit
  BY ContractInit
<1>2. ASSUME IInv, [Next]_vars
      PROVE  [Contract!INext]_(Contract!ivars)
  BY <1>2, ContractStep
<1> QED
  BY <1>1, <1>2, Inductive, PTL DEF Spec, ImplementsIngest, Contract!ISpec
=============================================================================
