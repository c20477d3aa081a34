----------------------------- MODULE SmartWorker -----------------------------
(***************************************************************************)
(* The Smart Worker chain of worker-service and the consumer group that    *)
(* drives it: internal/kafka/consumer.go, internal/service/service.go,     *)
(* internal/dedupe/redis.go, internal/fraud/scorer.go,                     *)
(* internal/repo/repo.go and the shutdown sequence of cmd/main.go.         *)
(*                                                                         *)
(* A claim <<p, g>> is the goroutine running ConsumeClaim for partition p  *)
(* in its g-th assignment.  Kafka may give p to another worker while the   *)
(* claim before still runs (a zombie: its commits are refused, its Redis   *)
(* and Postgres calls are not).  A delivery is <<claim, position>>: one    *)
(* call of ProcessEvent.  Positions count from 1; an offset 0 stands for   *)
(* "the group has committed nothing".                                      *)
(*                                                                         *)
(* Kafka, sarama's session, Redis and Postgres are external: they appear   *)
(* as the calls of this program see them.  A call that fails may have had  *)
(* its effect (the answer was lost).                                       *)
(***************************************************************************)
EXTENDS Naturals, Sequences, FiniteSets

CONSTANTS Partitions,
          Workers,    \* worker processes
          Nobody,     \* the host of a claim that does not exist yet
          Ids,        \* event_id values
          IPs,        \* ip_address values
          Blank,      \* the blank ip_address
          Log,        \* Log[p]: the messages that reach partition p, in order
          Threshold,  \* FRAUD_IP_THRESHOLD
          Faults,     \* the services that may fail by themselves
          MaxGen,     \* bound on assignments per partition
          MaxExpiry,  \* bound on expiries of one dedupe key
          MaxWindows  \* bound on expiries of one IP counter

\* ok: it unmarshals and passes ValidateKafkaMessage.
Message == [ok : BOOLEAN, id : Ids, ip : IPs \cup {Blank}]

ASSUME LogType == Log \in [Partitions -> Seq(Message)]
ASSUME NobodyIsNoWorker == Nobody \notin Workers
ASSUME ThresholdPositive == Threshold \in Nat \ {0}
ASSUME BlankIsNoAddress == Blank \notin IPs
ASSUME FaultsType == Faults \subseteq {"redis", "postgres", "kafka"}
ASSUME BoundTypes == MaxGen \in Nat /\ MaxExpiry \in Nat /\ MaxWindows \in Nat

Claims == Partitions \X (1..MaxGen)
Positions(p) == 1..Len(Log[p])
Deliveries == UNION {{c} \X Positions(c[1]) : c \in Claims}
Statuses == {"raw", "duplicate", "fraud", "accepted"}

VARIABLES
    \* --- Kafka
    produced,   \* produced[p]: messages of Log[p] available so far
    committed,  \* committed[p]: next position to read for the group, 0 if none
    gen,        \* gen[p]: assignments of p so far
    \* --- worker processes
    up,         \* up[w]: how far main is
    \* --- claims
    host,       \* host[c]: the worker that runs c
    pc,         \* pc[c]: where ConsumeClaim and ProcessEvent are
    next,       \* next[c]: the message in hand, or the next one to fetch
    marked,     \* marked[c]: what MarkMessage left for the next commit, 0 if nothing
    revoked,    \* claims whose session context was cancelled by a rebalance
    \* --- Redis
    seen,       \* event ids whose dedupe key exists
    count,      \* count[i]: the counter fraud:ip:i, 0 if it does not exist
    \* --- Postgres
    rows,       \* deliveries with a row in raw_events
    counted,    \* deliveries added to campaign_stats
    \* --- the archiver's input
    archived,   \* archived[s]: deliveries for which Enqueue(s, _) returned nil
    \* --- history
    base,       \* base[p]: where the first claim of p that committed had started
    start,      \* start[c]: where claim c started
    expiries,   \* expiries[id]: expiries of the dedupe key so far
    windows,    \* windows[i]: expiries of the IP counter so far
    claimed,    \* [id, epoch, d]: d was told that its id is new in this epoch
    seats       \* [ip, window, rank, d]: d was the rank-th of its window and was let pass

kafkaVars == <<produced, committed, gen, base>>
redisVars == <<seen, count, expiries, windows, claimed, seats>>
dbVars == <<rows, counted>>
claimVars == <<host, pc, next, marked, start>>
vars == <<kafkaVars, up, claimVars, revoked, redisVars, dbVars, archived>>

Init ==
    /\ produced = [p \in Partitions |-> 0]
    /\ committed = [p \in Partitions |-> 0]
    /\ gen = [p \in Partitions |-> 0]
    /\ base = [p \in Partitions |-> 0]
    /\ up = [w \in Workers |-> "running"]
    /\ host = [c \in Claims |-> Nobody]
    /\ pc = [c \in Claims |-> "unborn"]
    /\ next = [c \in Claims |-> 0]
    /\ marked = [c \in Claims |-> 0]
    /\ start = [c \in Claims |-> 0]
    /\ revoked = {}
    /\ seen = {}
    /\ count = [i \in IPs |-> 0]
    /\ rows = {}
    /\ counted = {}
    /\ archived = [s \in Statuses |-> {}]
    /\ expiries = [id \in Ids |-> 0]
    /\ windows = [i \in IPs |-> 0]
    /\ claimed = {}
    /\ seats = {}

-----------------------------------------------------------------------------
(* Vocabulary                                                              *)

Msg(c) == Log[c[1]][next[c]]         \* the message in hand of claim c
Hand(c) == <<c, next[c]>>            \* its delivery
EventOf(d) == Log[d[1][1]][d[2]]     \* the event of a delivery

Live(c) == pc[c] \notin {"unborn", "ended", "dead"}
Current(c) == gen[c[1]] = c[2]       \* Kafka still accepts commits of c
MayFollow(p) == gen[p] < MaxGen      \* p can be assigned once more

\* session.Context(): cancelled by a rebalance or by main's cancel().
CtxDone(c) == c \in revoked \/ up[host[c]] # "running"
CanFail(c, service) == service \in Faults \/ CtxDone(c)
ArchiverOpen(c) == up[host[c]] \in {"running", "cancelled"}

Goto(c, l) ==
    /\ pc' = [pc EXCEPT ![c] = l]
    /\ UNCHANGED <<host, next, marked, start>>

\* ProcessEvent has returned, with or without an error: consumer.go marks the
\* message either way and goes back to its select.
Conclude(c) ==
    /\ pc' = [pc EXCEPT ![c] = "poll"]
    /\ marked' = [marked EXCEPT ![c] = next[c] + 1]
    /\ next' = [next EXCEPT ![c] = @ + 1]
    /\ UNCHANGED <<host, start>>

-----------------------------------------------------------------------------
(* Kafka and the session (external)                                        *)

Produce(p) ==
    /\ produced[p] < Len(Log[p])
    /\ produced' = [produced EXCEPT ![p] = @ + 1]
    /\ UNCHANGED <<committed, gen, base, up, claimVars, revoked, redisVars, dbVars, archived>>

\* Mutant: the session starts from the beginning of the log each time.
StartClaim_FromOldest(p, w) ==
    /\ MayFollow(p)
    /\ up[w] = "running"
    /\ \A g \in 1..gen[p] : Live(<<p, g>>) => host[<<p, g>>] # w
    /\ LET c == <<p, gen[p] + 1>>
       IN  /\ gen' = [gen EXCEPT ![p] = @ + 1]
           /\ host' = [host EXCEPT ![c] = w]
           /\ pc' = [pc EXCEPT ![c] = "poll"]
           /\ next' = [next EXCEPT ![c] = 1]
           /\ start' = [start EXCEPT ![c] = 1]
    /\ UNCHANGED <<produced, committed, base, up, marked, revoked, redisVars, dbVars, archived>>

\* Partition p is assigned to worker w, which may happen before the claim that had
\* it has noticed.  Without a committed offset the claim starts at the end of the
\* log (OffsetNewest).
StartClaim(p, w) ==
    /\ MayFollow(p)
    /\ up[w] = "running"
    /\ \A g \in 1..gen[p] : Live(<<p, g>>) => host[<<p, g>>] # w
    /\ LET c == <<p, gen[p] + 1>>
           from == IF committed[p] = 0 THEN produced[p] + 1 ELSE committed[p]
       IN  /\ gen' = [gen EXCEPT ![p] = @ + 1]
           /\ host' = [host EXCEPT ![c] = w]
           /\ pc' = [pc EXCEPT ![c] = "poll"]
           /\ next' = [next EXCEPT ![c] = from]
           /\ start' = [start EXCEPT ![c] = from]
    /\ UNCHANGED <<produced, committed, base, up, marked, revoked, redisVars, dbVars, archived>>

\* A rebalance cancels the session context of a claim.
Revoke(c) ==
    /\ Live(c)
    /\ c \notin revoked
    /\ MayFollow(c[1]) \/ ~Current(c)
    /\ revoked' = revoked \cup {c}
    /\ UNCHANGED <<kafkaVars, up, claimVars, redisVars, dbVars, archived>>

\* Something is marked that the group has not committed.
Dirty(c) == marked[c] \notin {0, committed[c[1]]}

Commit(c) ==
    /\ committed' = [committed EXCEPT ![c[1]] = marked[c]]
    /\ base' = [base EXCEPT ![c[1]] = IF @ = 0 THEN start[c] ELSE @]

\* sarama commits what is marked from time to time; Kafka refuses a zombie.
AutoCommit(c) ==
    /\ Live(c)
    /\ Current(c)
    /\ Dirty(c)
    /\ Commit(c)
    /\ UNCHANGED <<produced, gen, up, claimVars, revoked, redisVars, dbVars, archived>>

\* ConsumeClaim has returned; the session commits what is marked before it ends,
\* unless Kafka refuses or the request fails.
EndClaim(c) ==
    /\ pc[c] = "returned"
    /\ Goto(c, "ended")
    /\ \/ /\ Current(c) /\ Dirty(c)
          /\ Commit(c)
       \/ /\ ~Current(c) \/ ~Dirty(c) \/ "kafka" \in Faults
          /\ UNCHANGED <<committed, base>>
    /\ UNCHANGED <<produced, gen, up, revoked, redisVars, dbVars, archived>>

-----------------------------------------------------------------------------
(* ConsumeClaim                                                            *)

HasMessage(c) == pc[c] = "poll" /\ next[c] <= produced[c[1]]

\* Mutant: the message is marked when it is taken, not when it is finished.
Fetch_MarksFirst(c) ==
    /\ HasMessage(c)
    /\ Msg(c).ok
    /\ pc' = [pc EXCEPT ![c] = "raw"]
    /\ marked' = [marked EXCEPT ![c] = next[c] + 1]
    /\ UNCHANGED <<kafkaVars, up, host, next, start, revoked, redisVars, dbVars, archived>>

Fetch(c) ==
    /\ HasMessage(c)
    /\ Msg(c).ok
    /\ Goto(c, "raw")
    /\ UNCHANGED <<kafkaVars, up, revoked, redisVars, dbVars, archived>>

\* Mutant: no MarkMessage before continue.
FetchInvalid_NotMarked(c) ==
    /\ HasMessage(c)
    /\ ~Msg(c).ok
    /\ next' = [next EXCEPT ![c] = @ + 1]
    /\ UNCHANGED <<kafkaVars, up, host, pc, marked, start, revoked, redisVars, dbVars, archived>>

\* A message that does not unmarshal or does not validate is marked and passed over.
FetchInvalid(c) ==
    /\ HasMessage(c)
    /\ ~Msg(c).ok
    /\ Conclude(c)
    /\ UNCHANGED <<kafkaVars, up, revoked, redisVars, dbVars, archived>>

\* The Done branch of the select, which may win against a message or lose.
ReturnClaim(c) ==
    /\ pc[c] = "poll"
    /\ CtxDone(c)
    /\ Goto(c, "returned")
    /\ UNCHANGED <<kafkaVars, up, revoked, redisVars, dbVars, archived>>

-----------------------------------------------------------------------------
(* ProcessEvent, one step per call to the outside                          *)

Archive(c, s) == archived' = [archived EXCEPT ![s] = @ \cup {Hand(c)}]

\* An Enqueue after Close is an error and ends ProcessEvent.
EnqueueRefused(c) ==
    /\ pc[c] \in {"raw", "duplicate", "fraud", "accepted"}
    /\ ~ArchiverOpen(c)
    /\ Conclude(c)
    /\ UNCHANGED <<kafkaVars, up, revoked, redisVars, dbVars, archived>>

EnqueueRaw(c) ==
    /\ pc[c] = "raw"
    /\ ArchiverOpen(c)
    /\ Archive(c, "raw")
    /\ Goto(c, "setnx")
    /\ UNCHANGED <<kafkaVars, up, revoked, redisVars, dbVars>>

\* Mutant: no return after the fraud branch.
EnqueueFinal_FallsThrough(c) ==
    /\ pc[c] \in {"duplicate", "fraud"}
    /\ ArchiverOpen(c)
    /\ Archive(c, pc[c])
    /\ IF pc[c] = "fraud" THEN Goto(c, "accepted") ELSE Conclude(c)
    /\ UNCHANGED <<kafkaVars, up, revoked, redisVars, dbVars>>

\* Enqueue of the final status "duplicate" or "fraud"; ProcessEvent returns nil.
EnqueueFinal(c) ==
    /\ pc[c] \in {"duplicate", "fraud"}
    /\ ArchiverOpen(c)
    /\ Archive(c, pc[c])
    /\ Conclude(c)
    /\ UNCHANGED <<kafkaVars, up, revoked, redisVars, dbVars>>

EnqueueAccepted(c) ==
    /\ pc[c] = "accepted"
    /\ ArchiverOpen(c)
    /\ Archive(c, "accepted")
    /\ Goto(c, "insert")
    /\ UNCHANGED <<kafkaVars, up, revoked, redisVars, dbVars>>

\* SETNX event:<id>.
TakeKey(c) ==
    /\ seen' = seen \cup {Msg(c).id}
    /\ claimed' = claimed \cup {[id |-> Msg(c).id, epoch |-> expiries[Msg(c).id], d |-> Hand(c)]}

\* Mutant: EXISTS, and the key is never written.
IsDuplicate_NeverSet(c) ==
    /\ pc[c] = "setnx"
    /\ Goto(c, IF Msg(c).id \in seen THEN "duplicate" ELSE "score")
    /\ UNCHANGED <<kafkaVars, up, revoked, redisVars, dbVars, archived>>

IsDuplicate(c) ==
    /\ pc[c] = "setnx"
    /\ IF Msg(c).id \in seen
       THEN Goto(c, "duplicate") /\ UNCHANGED <<seen, claimed>>
       ELSE Goto(c, "score") /\ TakeKey(c)
    /\ UNCHANGED <<kafkaVars, up, revoked, count, expiries, windows, seats, dbVars, archived>>

\* SETNX fails.  A cancelled context stops it before it is sent; a fault may hide
\* that it took effect.
IsDuplicateFails(c) ==
    /\ pc[c] = "setnx"
    /\ CanFail(c, "redis")
    /\ Conclude(c)
    /\ seen' \in {seen} \cup (IF "redis" \in Faults THEN {seen \cup {Msg(c).id}} ELSE {})
    /\ UNCHANGED <<kafkaVars, up, revoked, count, expiries, windows, claimed, seats, dbVars,
                   archived>>

\* The answer to SETNX is lost and the client sends it again: the event meets its
\* own key.
IsDuplicateRetried(c) ==
    /\ pc[c] = "setnx"
    /\ "redis" \in Faults
    /\ seen' = seen \cup {Msg(c).id}
    /\ Goto(c, "duplicate")
    /\ UNCHANGED <<kafkaVars, up, revoked, count, expiries, windows, claimed, seats, dbVars,
                   archived>>

\* CheckFraud: no address scores 0 without asking Redis.
CheckFraudBlank(c) ==
    /\ pc[c] = "score"
    /\ Msg(c).ip = Blank
    /\ Goto(c, "accepted")
    /\ UNCHANGED <<kafkaVars, up, revoked, redisVars, dbVars, archived>>

\* The script runs once, or twice when the client sends it again after a lost answer.
Increments == IF "redis" \in Faults THEN {1, 2} ELSE {1}

\* Mutant: the threshold is off by one.
CheckFraud_OneMore(c) ==
    LET i == Msg(c).ip IN
    /\ pc[c] = "score"
    /\ i # Blank
    /\ \E n \in Increments : count' = [count EXCEPT ![i] = @ + n]
    /\ IF count'[i] > Threshold + 1
       THEN Goto(c, "fraud") /\ UNCHANGED seats
       ELSE /\ Goto(c, "accepted")
            /\ seats' = seats \cup
                 {[ip |-> i, window |-> windows[i], rank |-> count'[i], d |-> Hand(c)]}
    /\ UNCHANGED <<kafkaVars, up, revoked, seen, expiries, windows, claimed, dbVars, archived>>

\* Mutant: the event that reaches the threshold is fraud already.
CheckFraud_AtThreshold(c) ==
    LET i == Msg(c).ip IN
    /\ pc[c] = "score"
    /\ i # Blank
    /\ \E n \in Increments : count' = [count EXCEPT ![i] = @ + n]
    /\ IF count'[i] >= Threshold
       THEN Goto(c, "fraud") /\ UNCHANGED seats
       ELSE /\ Goto(c, "accepted")
            /\ seats' = seats \cup
                 {[ip |-> i, window |-> windows[i], rank |-> count'[i], d |-> Hand(c)]}
    /\ UNCHANGED <<kafkaVars, up, revoked, seen, expiries, windows, claimed, dbVars, archived>>

\* INCR, and EXPIRE when the counter is new, run as one script; only a count above
\* the threshold scores above 80.
CheckFraud(c) ==
    LET i == Msg(c).ip IN
    /\ pc[c] = "score"
    /\ i # Blank
    /\ \E n \in Increments : count' = [count EXCEPT ![i] = @ + n]
    /\ IF count'[i] > Threshold
       THEN Goto(c, "fraud") /\ UNCHANGED seats
       ELSE /\ Goto(c, "accepted")
            /\ seats' = seats \cup
                 {[ip |-> i, window |-> windows[i], rank |-> count'[i], d |-> Hand(c)]}
    /\ UNCHANGED <<kafkaVars, up, revoked, seen, expiries, windows, claimed, dbVars, archived>>

\* The script fails; after a fault the counter may have moved.
CheckFraudFails(c) ==
    LET i == Msg(c).ip IN
    /\ pc[c] = "score"
    /\ i # Blank
    /\ CanFail(c, "redis")
    /\ count' \in {count} \cup (IF "redis" \in Faults THEN {[count EXCEPT ![i] = @ + 1]} ELSE {})
    /\ Conclude(c)
    /\ UNCHANGED <<kafkaVars, up, revoked, seen, expiries, windows, claimed, seats, dbVars,
                   archived>>

\* ProcessRawEvent: BeginTx and the INSERT, visible to nobody until Commit.
Insert(c) ==
    /\ pc[c] = "insert"
    /\ Goto(c, "stats")
    /\ UNCHANGED <<kafkaVars, up, revoked, redisVars, dbVars, archived>>

\* The upsert of campaign_stats goes through r.db, not through the transaction: it
\* is committed by itself.
UpsertStats(c) ==
    /\ pc[c] = "stats"
    /\ counted' = counted \cup {Hand(c)}
    /\ Goto(c, "commit")
    /\ UNCHANGED <<kafkaVars, up, revoked, redisVars, rows, archived>>

CommitRow(c) ==
    /\ pc[c] = "commit"
    /\ rows' = rows \cup {Hand(c)}
    /\ Conclude(c)
    /\ UNCHANGED <<kafkaVars, up, revoked, redisVars, counted, archived>>

\* Begin or INSERT fails, the upsert fails, or Commit fails; the deferred Rollback
\* undoes the row.  The upsert may have taken effect before it was cancelled or its
\* answer lost; Commit is not interrupted, so it may have only after a fault.
PersistFails(c) ==
    /\ pc[c] \in {"insert", "stats", "commit"}
    /\ CanFail(c, "postgres")
    /\ counted' \in {counted} \cup (IF pc[c] = "stats" THEN {counted \cup {Hand(c)}} ELSE {})
    /\ rows' \in {rows} \cup (IF pc[c] = "commit" /\ "postgres" \in Faults
                             THEN {rows \cup {Hand(c)}} ELSE {})
    /\ Conclude(c)
    /\ UNCHANGED <<kafkaVars, up, revoked, redisVars, archived>>

-----------------------------------------------------------------------------
(* Redis on its own (external)                                             *)

\* The time to live of a dedupe key runs out.
ExpireKey(id) ==
    /\ id \in seen
    /\ expiries[id] < MaxExpiry
    /\ seen' = seen \ {id}
    /\ expiries' = [expiries EXCEPT ![id] = @ + 1]
    /\ UNCHANGED <<kafkaVars, up, claimVars, revoked, count, windows, claimed, seats, dbVars,
                   archived>>

\* The window of an IP counter runs out.
ExpireWindow(i) ==
    /\ count[i] > 0
    /\ windows[i] < MaxWindows
    /\ count' = [count EXCEPT ![i] = 0]
    /\ windows' = [windows EXCEPT ![i] = @ + 1]
    /\ UNCHANGED <<kafkaVars, up, claimVars, revoked, seen, expiries, claimed, seats, dbVars,
                   archived>>

-----------------------------------------------------------------------------
(* The worker process                                                      *)

ClaimsOf(w) == {c \in Claims : Live(c) /\ host[c] = w}

\* A worker with claims goes away only while they can be assigned once more.
MayLeave(w) ==
    /\ ClaimsOf(w) # {}
    /\ \A c \in ClaimsOf(w) : MayFollow(c[1]) \/ ~Current(c)

Crash(w) ==
    /\ up[w] # "down"
    /\ MayLeave(w)
    /\ up' = [up EXCEPT ![w] = "down"]
    /\ pc' = [c \in Claims |-> IF c \in ClaimsOf(w) THEN "dead" ELSE pc[c]]
    /\ UNCHANGED <<kafkaVars, host, next, marked, start, revoked, redisVars, dbVars, archived>>

Restart(w) ==
    /\ up[w] = "down"
    /\ up' = [up EXCEPT ![w] = "running"]
    /\ UNCHANGED <<kafkaVars, claimVars, revoked, redisVars, dbVars, archived>>

\* A signal arrives and main calls cancel().
Cancel(w) ==
    /\ up[w] = "running"
    /\ MayLeave(w)
    /\ up' = [up EXCEPT ![w] = "cancelled"]
    /\ UNCHANGED <<kafkaVars, claimVars, revoked, redisVars, dbVars, archived>>

\* EventService.Shutdown closes the archiver; it does not wait for ProcessEvent.
CloseArchiver(w) ==
    /\ up[w] = "cancelled"
    /\ up' = [up EXCEPT ![w] = "archiverClosed"]
    /\ UNCHANGED <<kafkaVars, claimVars, revoked, redisVars, dbVars, archived>>

\* Consumer.Close returns when the last claim has ended; then main returns.
Exit(w) ==
    /\ up[w] = "archiverClosed"
    /\ ClaimsOf(w) = {}
    /\ up' = [up EXCEPT ![w] = "down"]
    /\ UNCHANGED <<kafkaVars, claimVars, revoked, redisVars, dbVars, archived>>

\* Not a step of the code: everything has been read and committed.
Idle ==
    /\ \A p \in Partitions :
          /\ produced[p] = Len(Log[p])
          /\ gen[p] > 0
          /\ next[<<p, gen[p]>>] > produced[p]
          /\ pc[<<p, gen[p]>>] = "poll"
    /\ UNCHANGED vars

-----------------------------------------------------------------------------
ProcessStep(c) ==
    \/ EnqueueRefused(c) \/ EnqueueRaw(c) \/ EnqueueFinal(c) \/ EnqueueAccepted(c)
    \/ IsDuplicate(c) \/ IsDuplicateFails(c) \/ IsDuplicateRetried(c)
    \/ CheckFraudBlank(c) \/ CheckFraud(c) \/ CheckFraudFails(c)
    \/ Insert(c) \/ UpsertStats(c) \/ CommitRow(c) \/ PersistFails(c)

ClaimStep(c) == Fetch(c) \/ FetchInvalid(c) \/ ReturnClaim(c) \/ EndClaim(c) \/ ProcessStep(c)

Next ==
    \/ \E p \in Partitions : Produce(p)
    \/ \E p \in Partitions, w \in Workers : StartClaim(p, w)
    \/ \E c \in Claims : Revoke(c) \/ AutoCommit(c) \/ ClaimStep(c)
    \/ \E id \in Ids : ExpireKey(id)
    \/ \E i \in IPs : ExpireWindow(i)
    \/ \E w \in Workers : Crash(w) \/ Restart(w) \/ Cancel(w) \/ CloseArchiver(w) \/ Exit(w)
    \/ Idle

Spec == Init /\ [][Next]_vars

\* Goroutines run, calls return, sarama commits periodically, an unassigned partition
\* is assigned, a stopped worker is restarted by its supervisor.
Fairness ==
    /\ \A c \in Claims : WF_vars(ClaimStep(c)) /\ WF_vars(AutoCommit(c))
    /\ \A p \in Partitions :
          WF_vars(/\ gen[p] = 0 \/ ~Live(<<p, gen[p]>>)
                  /\ \E w \in Workers : StartClaim(p, w))
    /\ \A w \in Workers : WF_vars(Restart(w)) /\ WF_vars(CloseArchiver(w)) /\ WF_vars(Exit(w))

FairSpec == Spec /\ Fairness

-----------------------------------------------------------------------------
(* Properties                                                              *)

PCs == {"unborn", "poll", "raw", "setnx", "duplicate", "score", "fraud", "accepted",
        "insert", "stats", "commit", "returned", "ended", "dead"}

TypeOK ==
    /\ produced \in [Partitions -> Nat] /\ \A p \in Partitions : produced[p] <= Len(Log[p])
    /\ committed \in [Partitions -> Nat]
    /\ gen \in [Partitions -> 0..MaxGen]
    /\ base \in [Partitions -> Nat]
    /\ up \in [Workers -> {"running", "cancelled", "archiverClosed", "down"}]
    /\ host \in [Claims -> Workers \cup {Nobody}]
    /\ pc \in [Claims -> PCs]
    /\ next \in [Claims -> Nat]
    /\ marked \in [Claims -> Nat]
    /\ start \in [Claims -> Nat]
    /\ revoked \in SUBSET Claims
    /\ seen \in SUBSET Ids
    /\ count \in [IPs -> Nat]
    /\ rows \in SUBSET Deliveries
    /\ counted \in SUBSET Deliveries
    /\ archived \in [Statuses -> SUBSET Deliveries]
    /\ expiries \in [Ids -> 0..MaxExpiry]
    /\ windows \in [IPs -> 0..MaxWindows]
    /\ claimed \in SUBSET [id : Ids, epoch : 0..MaxExpiry, d : Deliveries]
    /\ seats \in SUBSET [ip : IPs, window : 0..MaxWindows, rank : 1..Threshold, d : Deliveries]

RowsOf(id) == {d \in rows : EventOf(d).id = id}
RowsFrom(i) == {d \in rows : EventOf(d).ip = i}

\* raw_events holds at most one row per event id and dedupe epoch, whatever is
\* redelivered after a crash, processed at once by a zombie and its successor, or
\* produced twice: only an expired key lets an id in again.
OneRowPerKey == \A id \in Ids : Cardinality(RowsOf(id)) <= 1 + expiries[id]

\* The same for the aggregates: no id is added to campaign_stats twice in one epoch.
CountedOncePerKey ==
    \A id \in Ids : Cardinality({d \in counted : EventOf(d).id = id}) <= 1 + expiries[id]

\* In one counting window at most Threshold events of an address reach Postgres, on
\* however many partitions and workers they are processed at the same time.
FraudCap == \A i \in IPs : Cardinality(RowsFrom(i)) <= Threshold * (1 + windows[i])

\* A row is an event that was archived raw and then accepted, and is in no other
\* final status; every delivery gets one final status at most.
OnlyAcceptedPersisted ==
    /\ rows \subseteq archived["accepted"] /\ counted \subseteq archived["accepted"]
    /\ \A s \in Statuses : archived[s] \subseteq archived["raw"]
    /\ \A s, t \in Statuses \ {"raw"} : s # t => archived[s] \cap archived[t] = {}

\* campaign_stats never falls behind raw_events: the upsert takes effect before the
\* row can become visible.
RowsAreCounted == rows \subseteq counted

Handled(p, o) == \E g \in 1..gen[p] : start[<<p, g>>] <= o /\ o < next[<<p, g>>]

\* Below the committed offset there is no message (after the first one the group
\* ever committed from) that was not handed to ProcessEvent and finished: neither a
\* crash, nor a zombie, nor the hand-over between claims makes the group skip one.
NoMessageSkipped ==
    \A p \in Partitions : \A o \in base[p]..(committed[p] - 1) : Handled(p, o)

\* Commits never go back, whatever zombies and their successors ask for; neither a commit
\* nor the reading position of a claim passes the end of the log, beyond which messages
\* would be skipped unseen; and a new claim does not start before an offset that Kafka
\* has accepted.
OffsetsForward ==
    [][\A p \in Partitions :
          /\ committed[p] <= committed'[p] /\ committed'[p] <= produced'[p] + 1
          /\ \A g \in 1..MaxGen :
                /\ next'[<<p, g>>] <= produced'[p] + 1
                /\ gen[p] < g /\ g <= gen'[p] => committed[p] <= start'[<<p, g>>]]_vars

\* Once the group has committed an offset, every message from there on is consumed
\* and committed in the end: an event that fails is passed over, not retried for
\* ever, and no hand-over of the partition leaves it unread.
EventuallyConsumed ==
    \A p \in Partitions : \A o \in Positions(p) :
        committed[p] # 0 /\ committed[p] <= o /\ o <= produced[p] ~> committed[p] > o

\* c is consuming: no rebalance, shutdown or crash has reached it.
Undisturbed(c) == Live(c) /\ ~CtxDone(c)

InHand(d) == Live(d[1]) /\ next[d[1]] = d[2]

\* Another delivery of the same id took the key, and has got, or is on its way to, a final
\* status, unless it was disturbed.
HasOriginal(d) ==
    \E x \in claimed :
        /\ x.id = EventOf(d).id /\ x.d # d
        /\ \/ x.d \in archived["fraud"] \cup archived["accepted"]
           \/ InHand(x.d) \/ ~Undisturbed(x.d[1])

\* In some window of the address of d, Threshold others were let pass.
OverThreshold(d) ==
    \E w \in 0..MaxWindows : \A k \in 1..Threshold : \E x \in seats :
        x.ip = EventOf(d).ip /\ x.window = w /\ x.rank = k /\ x.d # d

\* While Redis does not fail, no event is called a duplicate or fraud without a cause,
\* and a claim that nobody disturbs leaves no valid message behind without its final
\* status, nor, if Postgres does not fail either, without a row if it was accepted.
VerdictsJustified ==
    "redis" \notin Faults =>
        /\ \A d \in archived["duplicate"] : HasOriginal(d)
        /\ \A d \in archived["fraud"] : OverThreshold(d)
        /\ \A c \in Claims : Undisturbed(c) =>
              \A o \in start[c]..(next[c] - 1) : EventOf(<<c, o>>).ok =>
                  \/ <<c, o>> \in archived["duplicate"] \cup archived["fraud"]
                  \/ /\ <<c, o>> \in archived["accepted"]
                     /\ "postgres" \notin Faults => <<c, o>> \in rows

Ledger ==
    INSTANCE EventLedger WITH
        Tries <- Deliveries, IdOf <- [d \in Deliveries |-> EventOf(d).id],
        life <- expiries, taken <- claimed,
        flagged <- archived["fraud"], accepted <- archived["accepted"], persisted <- rows

\* The chain implements the ledger: whatever fails, crashes, is redelivered or runs
\* as a zombie, an event id goes through the chain at most once per life of its key,
\* and in the ledger's order.
ImplementsLedger == Ledger!LSpec

-----------------------------------------------------------------------------
(* What the repository says and the code does not keep                     *)

\* README.md:15 "persist only accepted events to Postgres and upsert campaign
\* aggregates": once ProcessRawEvent is over, an event that was added to
\* campaign_stats has its row.
StatsMatchRows == \A d \in counted : d \in rows \/ InHand(d)

\* service.go:106 "Duplicate detected": an event archived as a duplicate has an
\* original that got a final status of its own or is still on its way.
DuplicateHasOriginal ==
    \A d \in archived["duplicate"] :
        \E c \in Claims : \E o \in 1..next[c] :
            /\ c[2] <= gen[c[1]]
            /\ <<c, o>> # d
            /\ o <= Len(Log[c[1]]) /\ EventOf(<<c, o>>).id = EventOf(d).id
            /\ <<c, o>> \in archived["fraud"] \cup archived["accepted"] \/ InHand(<<c, o>>)

\* cmd/main.go:140 "Shutting down gracefully": when a worker leaves by its shutdown
\* sequence, every valid message its claims marked has a row or a final status that
\* explains why not.
GracefulShutdown ==
    [][\A w \in Workers : Exit(w) =>
         \A c \in Claims : host[c] = w =>
            \A o \in start[c]..(next[c] - 1) :
               EventOf(<<c, o>>).ok =>
                  <<c, o>> \in rows \cup archived["duplicate"] \cup archived["fraud"]]_vars
=============================================================================
