# Verification of go-event-pipeline

TLA+ specifications of the event pipeline in `src/`, the TLC configurations that
check them, and TLAPS proofs about them. This file is the inventory of the system,
the guide to the modules and their runs and proofs, and says what is left out.

## 1. The system

```
 client -> collector-service -> Kafka "raw-events" -> worker-service -> Postgres <- query-service
                                                       |      |
                                                     Redis   S3/MinIO (archiver)
```

| Component | State it keeps | Operations | What is hard | What makes it correct |
|---|---|---|---|---|
| Collector (`collector-service`) | none (a sarama producer) | `HandleEvent`, `HandleEventBatch` (at most 1000), `SendEvent`, `SendBatchEvents` | a batch that Kafka took in part is answered with 500 and repeated by the client; ids made by the server differ on each repetition; only the single handler validates; a batch skips events that cannot be written as JSON | every event of an acknowledged request that can be written is in Kafka; a repetition with client ids is recognised downstream |
| Kafka and the sarama session (external) | log, committed offset per partition, generation | append, assign, revoke, commit | hand-over between claims, zombies, redelivery, no committed offset at first (`OffsetNewest`) | no message is skipped after the first commit, offsets never go back nor past the log |
| Consumer (`worker-service/internal/kafka/consumer.go`) | reading position and mark of each claim | `ConsumeClaim`, `Start`, `Close` | marks after success and after failure; `select` between message and cancellation | a mark stands for a message that was finished |
| Smart Worker chain (`internal/service`, `dedupe`, `fraud`) | keys and counters in Redis; metrics | `ProcessEvent`: raw archive, `SETNX`, fraud counter, final archive, Postgres; `Shutdown` | several claims and workers at once on the same Redis; answers lost and repeated; keys that expire | at most one row per event id and life of its key; at most threshold accepted events per address and window; order of the chain |
| Worker repository (`internal/repo`) | `raw_events`, `campaign_stats` | `ProcessRawEvent`, `ProcessRawEventsBatch` (never called) | the upsert of the aggregates is outside the row's transaction and needs a second connection, from a pool of which the migrator keeps one; a batch locks rows in the random order of a Go map; two groups of a batch can meet in one row | every total is the number of events added to it; every call ends |
| Hour bucket (`internal/utils/time.go`) | none | `GetHourBucket` | keeps the zone of the event, which the column drops | one row per campaign and hour |
| Batch archiver (`internal/archive`) | buffers per prefix, `closed`, `flushCh`, `stopCh`, two WaitGroups, uploads in flight | `Enqueue`, `Flush`, `Close`, `flusherLoop`, upload and `requeue` | five kinds of goroutine around one mutex; wake-up sent outside it; failed uploads come back while callers append | no accepted record lost, none held twice, Close drains and leaves nothing running |
| Worker process (`cmd/main.go`, `config`, `db`, metrics) | how far `main` is, the schema's version and dirty mark, five counters | configuration, migrations, start, signal, `cancel`, `Shutdown`, `Close`, reports | the order of the shutdown; counters read between two increments; a migration cut short; a start with variables missing | no row without its archive records, no message without a trace, true reports, start and shutdown end |
| Query service | none | `GET /campaigns`, `GET /campaigns/:id` | `GetCampaignByID` picks one hourly row without ORDER BY or SUM; the database is closed at shutdown | answers agree with `campaign_stats`; every request is answered |
| Kubernetes, Terraform, compose, `test.sh` | none | none | none | used as statements of intent only |

## 2. Modules

| Module | Models | Main state |
|---|---|---|
| `ArchiveContract` | what the archiver promises its callers: accepts until Close begins, tries every record it accepted before Close ends, then is silent | `phase`, `accepted`, `stored`, `refused` |
| `BatchArchiver` | `archiver.go`, one action per critical section or channel operation; implements `ArchiveContract` | buffers, channels, `pc` of each flusher, local maps, uploads |
| `EventLedger` | what the chain promises about an event id: taken by one try per life of its key, classified once, counted once, persisted once, in this order | `life` (expiries of each key), `taken`, `flagged`, `accepted`, `counted`, `persisted` |
| `SmartWorker` | consumer, chain, Redis, Postgres and hand-over of partitions, for several workers; implements `EventLedger` | see below |
| `ConnPool` | the connections `ProcessRawEvent` takes from the pool of one worker | `at`, `inTx`, `open`, `cancelled` |
| `WorkerProcess` | one worker process from start to exit: configuration, migrations, claims, counters, shutdown, crash; composed with `ArchiveContract` in place of the archiver | `stage`, `schema`, `pc`, the contract's variables, `metrics`, `rows` |
| `IngestContract` | what a POST promises a client: what 202, 400 and 500 mean for the topic and the events that can be written as JSON | `carried`, `topic`, `verdict` |
| `Collector` | handlers, producer and process of collector-service, with clients that post again; implements `IngestContract` | `stage`, `out`, `erred`, `answer`, `log`, `proc` |
| `CampaignStats` | both writers of `raw_events` and `campaign_stats` with row locks, deadlocks and full columns; the hour bucket | `written`, `stats`, `raw`, `stray` |
| `QueryService` | the read endpoints and the shutdown of query-service, composed with the writers of `CampaignStats` | `server`, `req`, `found` |
| `MCBatchArchiver`, `MCSmartWorker`, `MCCollector`, `MCCampaignStats`, `MCQueryService`, `MCWorkerProcess` | symmetry sets, logs, requests and events of the finite instances | |
| `BatchArchiverProofs`, `SmartWorkerProofs`, `ConnPoolProofs`, `WorkerProcessProofs`, `CollectorProofs`, `CampaignStatsProofs`, `QueryServiceProofs` | TLAPS proofs about the module they are named after | |
| `ContractProofs` | TLAPS proofs about the three contracts `EventLedger`, `ArchiveContract` and `IngestContract` alone | |

`BatchArchiver` shows that the archiver keeps its contract; `WorkerProcess` uses the contract
where the program uses the archiver. `SmartWorker` details what `WorkerProcess` leaves
open (any answer of Redis and Postgres), `ConnPool` and `CampaignStats` what `SmartWorker` takes
for granted (connections, one event counted at a time).

Each specification also holds a few definitions whose comment begins with "Mutant".
They are wrong versions of the definition that follows, such as a plausible slip in
the code; no specification uses them. They exist to show that each property fails
when the code is wrong.

### BatchArchiver and the code

A critical section under `b.mu` is one step: `Enqueue` (append and the decision to
wake the loop), `SnapshotBatches`, the part of `CloseBegin` that sets `closed`, and
`requeue` inside `UploadFails`. What happens between two of them is a step of its
own: the non-blocking send on `flushCh` (`Signal`), one turn of the loop over the
snapshot (`SpawnUpload`: `uploadWG.Add(1)`, `go`), the end of that loop
(`FlushReturn`), the three branches of the select of `flusherLoop`, and the steps of
`Close` (`close(stopCh)`, `loopWG.Wait`, last flush, `uploadWG.Wait`).

Failing and requeueing are one step because a batch that has failed and is not yet
requeued is still in the hands of its goroutine, which nothing else can observe. An
upload may fail before or after the object was written. A record is one token per
call of `Enqueue`; the order inside a batch is not kept, since nothing is promised
about it. Compression, object keys and the two clients (`s3.go`, `minio.go`) appear
as an `Upload` that may fail: an error of any of them has the same consequence.
`FlushCallers` are goroutines that call the exported `Flush`. This program has none;
the runs and theorems that need their absence say so.

### SmartWorker and the code

A *claim* `<<p, g>>` is the goroutine that runs `ConsumeClaim` for partition `p` in
its `g`-th assignment; a *delivery* is a claim and a position: one call of
`ProcessEvent`. `pc[c]` names the call the goroutine is about to make. One step is
one call to the outside (an `Enqueue`, `SETNX`, the counter script, a statement to
Postgres), so all claims interleave between any two of them. Each call has its
failing version: a cancelled context can only stop it, a fault of a service in `Faults` can also
hide that it took effect, and go-redis may send a command twice. `Conclude` is the
end of `ProcessEvent` in all its forms followed by `MarkMessage`, which the code calls after
success and after failure.

A claim whose partition was given away goes on as a zombie: Kafka refuses its
commits, Redis and Postgres do not refuse its calls. A crash ends the claims of a
worker at once. Shutdown is the sequence of `main`: `cancel()`, `Shutdown` (closes the
archiver, waits for nothing because `s.wg` is never used), `Consumer.Close` (waits
for the claims).

`INSERT` inside the transaction is invisible until `Commit` and has no variable of
its own; the upsert goes through `r.db` and is visible at once. The history variables
`start`, `base`, `expiries`, `windows`, `claimed`, `seats` are written, and read only by bounds
and properties.

### ConnPool and the code

`ProcessRawEvent` begins a transaction (`repo.go:27`, one connection) and runs the
upsert through `r.db` (`repo.go:92`, a second one) before it commits. `SmartWorker` has
these as `insert`, `stats`, `commit` and takes connections for granted; `ConnPool` has
only them, and splits each in waiting for a connection and using it. `Return` is every
way out, with the deferred `Rollback`. The session context is one for all claims; when it is
done, waiting ends with an error, and database/sql rolls transactions back
by itself (`Rollback`), so a transaction can be gone before its goroutine knows.
`InitDB` runs the migrations on a connection of the same pool (`postgres.WithInstance`, `db.go:36`),
and nothing closes the migrator: `Kept` is the one connection that is in use from the start, so
that 24 of the 25 that `main.go:35` allows are left for `ProcessRawEvent`.

### WorkerProcess and the code

`stage` is where `main` is: "down", "booting" (from `LoadConfig` to the return of
`Consumer.Start`), "migrating" (inside `m.Up`), "up", "cancelled" (after `cancel()`),
"closing" (inside `archiver.Close`), "archiverClosed", "closed" (after
`kafkaConsumer.Close`). An environment is the set of variables that are set. `validate`
stops at the first one that is missing, before it fills in defaults, and `LoadConfig` drops its
error: without PORT the archive backend stays empty and the start ends in the `default`
branch of `main`; without topics `Consumer.Start` never gets its assignment. golang-migrate
marks the schema dirty while a file runs; a process that dies then leaves a schema with
which every later start ends in `logrus.Fatalf`.

A claim runs `ProcessEvent` with one message at a time: `Enqueue` (the contract's
`Accept`), `CountArchived` (the counter is a step of its own, after the call),
`Classify` (any answer of Redis, or an error), `Persist`, and `Tally` (the last counter and
`MarkMessage`). `label` is the status being archived, or the counter due. Counters are copied by
`GetMetrics` under their lock, so a report shows one state; an invariant about
`metrics` is what every report shows. The average processing time is left out: it is
overwritten by each event and nothing depends on it.

The end: `Cancel`, `CloseArchiver` (`EventService.Shutdown`), `ArchiverClosed` (`Close`
returns), `CloseConsumer`, `Exit`. Claims go on until `EndClaim`; a call in hand
after `CloseArchiver` has its `Enqueue` refused. A crash may come at any time. `lost` holds what
was only in memory at a crash, or was refused by the bucket and still unstored at an exit.
An upload gets `context.Background()` and may never return (`Hang`): then `Close`, and with it
`main`, waits for ever; the 30 seconds of `shutdownCtx` bound only `s.wg`, to which nothing is
added.

### Collector and the code

A post is one HTTP request of a client; a client posts again while it has no 202 or 400. Handlers
validate (`Reject`), hand one message per event to sarama (`Queue`) and answer when
`SendMessage` or `SendMessages` returns (`Answer`): 500 if any message failed, although others
are stored. sarama stores a message and learns it (`Stored`), stores it and sends it again
(`StoredResend`: the producer is not idempotent), gives up on one that is stored (`StoredGiveUp`) or
fails (`Fails`). The id is the client's or a fresh one for each event and post. On SIGTERM
`app.Shutdown` closes the listener; `Listen` returns at once and `main` runs its deferred
`producer.Close` while handlers are still sending, which flushes what the producer holds and
refuses the rest.

An event that was parsed need not marshal: `UnmarshalJSON` of time.Time reads a `created_at` with the
offset +24:00, which `MarshalJSON` refuses. `Marshalled` are the events of a request that do.
`SendEventBatch` logs and skips the others (`producer.go:96-99`), so `Queue` hands over `Marshalled`
only; when there is nothing to send, both handlers answer 500 (`NothingToSend`). The 202 of a batch
counts the skipped events too (section 6). The order of copies inside a partition and the IP of the client are left out.

### CampaignStats and the code

A job is a goroutine that calls one of the two writers. `ProcessRawEvent` is `Insert`, `Upsert` (through
`r.db`, committed at once) and `Commit`; events that were added and have no row (yet) are
`stray`. `ProcessRawEventsBatch` is `Copy` (COPY of the rows and the grouping in
`statsMap`), `Visit` and `UpsertGroup` once per group in any order, `CommitBatch`. The key of
`statsMap` is formatted with the zone and the column has none, so two groups of a batch can
meet in the same row; `TypeOK` and `StatsAccounted` show that they add up. Row locks are what a
transaction has `written`; Postgres breaks a cycle of waiters by failing one of them
(`BreakDeadlock`), and a sum that does not fit an INTEGER fails (`OutOfRange`), alone or
with its whole batch. `ProcessRawEventsBatch` has no caller in the program yet; it is modelled as
it would run beside `ProcessRawEvent`.

Time counts half hours. `GetHourBucket` truncates the wall clock of the event's zone; the comment
at `time.go:5` says "nearest hour".

### QueryService and the code

It extends `CampaignStats`: a step is one of the writers or one of the reader. A handler runs one
statement on committed rows (`SelectAll`, `GetByID`), which may fail, and answers 200, 404 or 500.
`GetByID` takes any row of the campaign: the query has neither ORDER BY nor SUM, so the
totals of two answers for one campaign may belong to different hours and go down.
`FoundStaysFound` and `AnswersCurrent` say what does hold. The 400 for an empty id is not
reachable, since fiber routes "/campaigns/" to the list.

## 3. Runs

| Run | Question | Bounds |
|---|---|---|
| `archiver_safety` | types; duplicates in the bucket only after an error; the archiver is quiet after Close; it implements `ArchiveContract` (Close tries everything it accepted) | 4 records, 2 prefixes, 2 callers, batches of 2, no caller of `Flush` |
| `archiver_liveness` | nothing lost, nothing held twice, no full buffer without a coming flush while another goroutine calls `Flush` at any time; Close returns although uploads may fail for ever; a failed batch reaches a recovering bucket | 2 records, 2 prefixes, 1 caller, 1 caller of `Flush`, batches of 2 |
| `worker_safety` | no message skipped, offsets only forward and within the log, one row per id and life of its key, the cap per address; the chain implements `EventLedger`, which bounds the counts too | 1 partition, one event twice, the second time without address, 2 workers, 2 assignments, threshold 1, 1 expiry of the key and 1 of the counter, faults |
| `worker_liveness` | every duplicate has an original, every fraud a full window of others, and a claim that nobody disturbs leaves no valid message without its due, all this while Redis does not fail; consumption goes on | 1 partition, 2 messages, 2 workers, 2 assignments, faults of Postgres and Kafka, 1 expiry of the key and 1 of the counter |
| `conn_pool` | the two connections of `ProcessRawEvent` neither leak nor block the worker | 3 claims, 5 connections, one of them the migrator's |
| `worker_process` | rows have their archive records; committed messages leave a trace; reports are true and the final one complete; shutdown and start end | 1 partition with an invalid, a garbled and a valid message, 3 environments, 2 lives |
| `collector` | ids stay recognisable through repetitions; handlers, producer and process implement `IngestContract`; every post ends | 1 client, 2 posts, 9 kinds of request, batches of at most 2, 1 retry, 2 stops or crashes |
| `query_service` | every total is the number of events added; answers lie between question and now, lists are complete, what was found stays found; every call and every request ends | 2 jobs, each with one of two single events or a batch of 3 events in 3 groups and 2 rows of one campaign; totals up to 3; 1 client with 2 requests |
| `stats_match_rows`, `duplicate_has_original`, `graceful_shutdown` | three things the repository says and the code does not keep (section 6) | 2 events, 2 assignments |
| `one_row_per_hour` | a fourth | 1 job, 2 runs |

Why these bounds are enough to meet the interesting cases. Archiver: with batches of
two and four records a buffer can be full while an older batch is in flight,
come back over the threshold by `requeue`, and be drained by Close while the loop
flushes; two records suffice for a third flusher to take what the loop was woken for.
Worker: two assignments give a zombie beside its successor, and a
redelivery after a crash or a refused commit; an event produced twice with threshold one puts
the counter at, and by a repeated script above, the threshold; one expiry lets an id
in again while its first delivery is still in hand, and one of the counter lets its window run out
between the scores of two claims. Several partitions add no
behaviour between two claims that a zombie and its successor do not have (they share
Redis and Postgres in the same way), and the theorems hold for any number.

Pool: three claims and five connections, of which the migrator keeps one, are the tightest case
without deadlock; with four, as many claims as connections are left, TLC finds all claims waiting in
"stats".

Process: the three messages take every way through `ProcessEvent` and `ConsumeClaim`; with two
lives a crash or a shutdown in any state is followed by a redelivery. The environments lack
only what has a default, PORT, and the topics.

Collector: two posts are a repetition beside a post that is still being handled; the
requests are single and batch, valid and not, empty and over the limit, with and without ids, and with one, no or
only events that marshal. Writers:
the single event and one group of the batch share a row while another group of the batch
goes to the same row from another zone, so locks, the meeting of groups and the full column
all occur, and a third group goes to another hour of the same campaign, so that `GetByID` has two rows
to choose from; two batches that lock in opposite orders occur because each job may be a batch.

Bounds that are not in the code: `MaxGen` (assignments per partition), `MaxExpiry`
(expiries of a key), `MaxWindows` (expiries of a counter), `Log` (the messages of each
partition), `MaxLives` (starts of a process), `MaxPosts` (posts of a client), `MaxStops` (stops and
crashes of the collector), `MaxRuns` (calls of a writer), `MaxAsks` (requests of a reader); and
`MaxInt`, `MaxBatch` and `RetryMax` have small values. `MayFollow` and `MayLeave` keep a partition from being orphaned by the
bound on assignments: workers leave and claims are revoked only while another
assignment is still possible. `Terminated` and `Idle` are stuttering steps that mark
the states in which the system may stop, and so is `Ended` in `WorkerProcess`; in every other state
deadlock is checked. `collector`, `query_service` and `one_row_per_hour` do not check it: their
clients and jobs run out of requests, and that they do not stop earlier is what `EveryPostEnds`,
`RunEnds` and `EveryAskEnds` say.

### Fairness

Archiver: a runnable goroutine runs (`WF` on each step), the ticker fires
(`WF` on `LoopTick`), and Go's random `select` does not starve the stop channel
(`SF` on `LoopStop`). Each upload returns at last; the code sets no deadline, so this
is an assumption about the client. `CloseReturns` allows that a goroutine which goes on calling
`Flush` keeps Close waiting. `EventuallyStored` has the further premise
`StoreRecovers`: a prefix uploaded again and again is taken at last.

Worker: goroutines run and calls return (`WF` on `ClaimStep`), sarama commits
periodically (`WF` on `AutoCommit`), an unassigned partition is assigned, and a stopped
worker is started again (Kubernetes Deployment). Faults, crashes, revocations and expiries are not
fair.

Pool: Postgres answers (`WF` on `Running`), and database/sql hands a connection that is given back
to a waiter chosen at random, so none is passed over for ever (`SF` on `BeginTx` and
`TakeConn`). Cancellation is not fair: nobody is rescued by a rebalance.

Process: claims and `main` go on, the archiver uploads what it has not tried, and the supervisor
starts the process again (`WF`); when Postgres, Redis, Kafka and the bucket answer again and
again the start gets through (`SF` on `Migrate \/ Boot`). Signals, crashes, hung uploads and
failing starts are not fair. `ShutdownEnds` names the hung upload, and `ComesUp` the dirty schema and
the missing variables, as what is left.

Collector: fiber runs its handlers, sarama settles every message it took (its retries
are bounded), and `main` goes on (`WF`). Signals and crashes are not fair.

Writers and readers: Postgres queues the waiters for a row and serves them in turn, and its detector
finds every deadlock, so a run that can go on again and again does (`SF` on `Progress`). Handlers and the
return of `app.Shutdown` are `WF`.

## 4. Proofs

`BatchArchiverProofs` proves, for all sets of records, prefixes, callers and every
batch size: types (`TypeCorrect`), nothing lost (`NothingEverLost`), nothing held
twice (`AlwaysHeldOnce`), duplicates only after an error
(`DuplicatesOnlyAfterError`), no lost wake-up (`NoWakeUpLost`), and, when nobody else
calls `Flush`, `CloseDrainsAll`, `QuietOnceClosed` and `ImplementsArchiveContract`. Two
more are the part of `CloseReturns` that needs no fairness: Close, or the loop or upload that it waits
for, can always go on (`CloseNeverStuck`, also beside callers of `Flush`), and the uploads it waits
for only become fewer, because a failed one goes back to a buffer that nobody takes any more
(`UploadsRunOut`).

The argument. `HeldOnce` and `NothingLost` are inductive only together with three
facts: a flusher's local map is empty outside "spawn" (`MapOnlyWhileSpawning`), a
record is accepted under one prefix (`AcceptedOnce`), and what is held was accepted
under that prefix (`HeldAccepted`). `NoStrandedBatch` needs the order of Close as well:
the loop does not end before `stopCh` is closed and Close flushes after that. For
`CloseDrains` the invariant follows the phases of Close: after its snapshot,
what remains in a buffer was in a failed batch, because with `closed` set only
`requeue` adds to buffers. This is false if a third goroutine may hold a snapshot over
Close, hence the assumption `FlushCallers = {}`.

`SmartWorkerProofs` proves, for all logs, partitions, workers, ids, addresses,
thresholds and bounds, with and without faults: types (`TypeCorrect`), no message
skipped (`NothingSkipped`), offsets that only go forward, and not past the log (`OffsetsGoForward`),
the order of the
chain (`OnlyAcceptedArePersisted`, `RowsAreAlwaysCounted`), one row and one count per id
and life of its key (`RowOncePerKey`, `CountOncePerKey`), the cap per address and window
(`FraudIsCapped`), that verdicts have a cause and undisturbed claims leave nothing undecided
(`VerdictsAreJustified`), and that the chain implements `EventLedger`
(`ChainImplementsLedger`). They rest on the named assumptions of `SmartWorker` only, and
on nothing about the finiteness of any set.

The argument has five layers.

1. *Claims.* Whatever step is taken, a claim stays, proceeds with the same message,
   passes it, or is assigned (`ClaimMoves`). From this alone follows `PositionInv`: a
   claim is unborn exactly while its number is above the generation of its partition,
   never reads before its start, and marks only what it has passed. With `OffsetInv` (a
   committed offset lies between the start and the position of the current claim, and
   its mark is not behind it) the two offset theorems are inductive. Without the second
   half a new claim that has inherited an offset could mark behind it. `EndInv` keeps positions and
commits within the log: a claim goes on to a message only when it has been produced, and the log
never shrinks (`LogGrows`).
2. *Traces.* A delivery leaves a trace at each call that has an effect: raw archive, key,
   seat, final archive, aggregates, row. `TracesLeft` says that a claim at a
   stage has left the traces before it; `TracesBehind` says that a delivery with a trace
   is past that stage for good. Together they make each trace unique to one step, and
   give the order of the chain (`OrderInv`).
3. *Uniqueness.* `KeyInv`: an entry of the current epoch means that the key exists, so
   no second entry can be made. `SeatInv`: no rank of the current window is above the counter, so a new
   seat has a new rank, also when a script ran twice. Rows of an id are then injected
   into the epochs of its key, rows of an address into windows times ranks, which
   gives the bounds on cardinalities.
4. *Causes* (`VerdictInv`). While Redis does not fail, a key that exists was taken by a
   delivery (`KeyHeld`), and the ranks of the current window up to the counter, as far as
   the threshold, are seats of deliveries (`SeatsFull`). So who is told "duplicate" or "fraud" can
   name another delivery, which stays known for ever although key and counter expire
   (`DuplicateCaused`, `FraudCaused`). That the other one also gets, or has in hand, its own final status
   unless it was disturbed needs the third part: a claim whose worker is up and whose partition was not
   taken away has settled every valid message behind it (`AllSettled`), since each call it makes
   answers. A restart does not make a disturbed claim undisturbed: a worker comes up again only
   when its claims have ended.
5. *Refinement.* A step that leaves a key, a final status, a count or a row is the
   ledger's `Take`, `Flag`, `Accept`, `Count` or `Persist`, the end of a key is its `Expire`; every
   other one stutters.

`ConnPoolProofs` proves, for any finite set of claims and any pool size, that nothing
leaks (`PoolNeverLeaks`): the pool's count is the migrator's connection, the number of open
transactions and that of running upserts. From this, when all connections are taken and nobody is
in a call that needs no other, the transactions fill what the migrator leaves, so there are as many
claims as connections beside the migrator's (`FewerClaimsNeverBlock`, assuming fewer). The deployment
has 6 partitions (`topic-job.yaml:20`) and 24 connections left of 25 (`main.go:35`); nothing in the
code relates the two numbers.

`WorkerProcessProofs` proves, for any log, partitions, environments and number of lives:
types (`TypeCorrect`), `RowsHaveRecords`, `NothingEverVanishes`, `ReportsAlwaysTrue`,
`FinalMetricsAreComplete`, and two that no run lists: `ShutdownNeverStuck` (whatever main waits for after a
signal can go on, and no call of `ProcessEvent` waits for the archiver) and
`CutMigrationIsFinal` (a dirty schema is never left). `PInv` has the process (`StageInv`: what is in memory at
each stage; after Close what was accepted is stored or was refused), the claims (`ClaimInv`:
committed, marked and reading position in order, and which label goes with which
place) and the records a call in hand has left (`RecordInv`). A record that is stored, in memory or
lost stays so (`TracesStay`): this is where the order of the shutdown is needed, because at `Exit`
the memory may be dropped only when Close has tried everything. `NothingVanishes` becomes inductive for all
positions that have been passed (`BehindInv`). The counters are tied to sets (`CountInv`): the
outcomes to the calls behind the reading position, `archived` to the accepted records except
those between `Enqueue` and `incrementArchived`, the settled calls injected twice into those records,
which gives the factor two of `ReportsTrue`. `ShutdownNeverStuck` needs that the contract always takes what a
claim hands to it while open: no record of a claim is already there (`EndInv`: the archive is
never ahead of a claim). This is what `ArchiveContract` asks of its callers, shown here of the one it has.

`CollectorProofs` proves for any clients, requests and bounds: types, `AckedAlwaysQueued` (a 202 means
that the request has events that marshal, and all of them are in the topic), `AlwaysRecognisable` and
`RefinesIngest`. The invariant says of each post in hand that every event that marshals is in the
topic, still with the producer, or that the post has an error to answer with, and that a post without
an error has such an event.

`CampaignStatsProofs` proves for any number of jobs, events and batches, and any `MaxInt`, that no
total passes its column and no lock is left (`TypeCorrect`), and that every total is the number of
events added to it (`StatsAlwaysAccounted`). Inductive is this only with what an open
transaction has written (`Sums`: the events of the groups it has visited), with the locks
(`Locks`: two transactions never have written the same row, without which their sums could
exceed the column together), the room left under `MaxInt` (`Room`), and the freshness of tokens.
`NoLockDeadlock` says for any finite set of jobs that some call in hand can go on: a job that waits for
a row waits for a batch, a least set of batches that all wait inside it (by well-founded induction
on finite sets) is one cycle or several, and `InCycle` holds of its members, so Postgres breaks it.
`OneClockOneRow` is the converse of the finding `one_row_per_hour`: with one zone for all
events, a whole number of hours from UTC, `OneRowPerHour` would hold.

`QueryServiceProofs` proves `AnswersAlwaysCurrent`, `ListsComplete` and `FoundAlwaysStaysFound` from the fact that
totals only grow, the rows found were rows of the table, and what was shown is still there.

`ContractProofs` says what a caller may conclude from the contracts alone. `LedgerIsBounded`: at most one try
of an id for each life of its key is classified, and no more are counted or persisted; with
`ChainImplementsLedger` this bounds fraud verdicts and accepted ones of an id together. `ArchiveIsSorted` and
`CloseIsFinal`: objects hold one status, and nothing follows a Close that has returned.
`AnswersStayTrue`: a 202 stays right for what the post carries, and nothing of a post that got 400 ever reaches the topic.

In `NeverStuck`, `CloseNotStuck` and `NobodyStuck` "can go on" is written out as the guards of the actions, since
the prover does not know `ENABLED`; TLC finds the two equal on the instances of the runs (but for
`OutOfRange` of a single event, which waits for no lock).

Some theorems state what no run lists because a refinement that is checked implies it:
`CloseDrainsAll`, `OnlyAcceptedArePersisted`, `RowsAreAlwaysCounted`, `CountOncePerKey`, `AckedAlwaysQueued`;
`QTypeCorrect` adds the types of the reader.

Only model-checked: liveness (the prover has no support for fairness; the theorems on what can go on are the
safety part of `CloseReturns`, `ShutdownEnds` and `RunEnds`) and the four runs of section 6.

## 5. Not modelled

- `GetCurrentHour` and `ProcessEventBatch` have no caller; the latter only repeats `ProcessEvent`.
  `ProcessRawEventsBatch` has none either, but is modelled, since it shares its tables with
  `ProcessRawEvent`.
- Several replicas that migrate at once: golang-migrate takes an advisory lock in Postgres, which the code
  leaves to the library.
- Wording of log lines, JSON field names, compression, object keys, extraction of the IP address,
  credentials, addresses and pool settings other than the number of connections are data no property
  depends on. In the worker `json.Marshal` does not fail: an event of the topic was written by it before.
- The order of records inside a batch and of batches in the bucket (`archiver.go:203`): nothing is
  promised about it.
- Manifests, Terraform and scripts hold no program state.

## 6. What the code does and the repository denies

- `stats_match_rows`: `README.md:15` says to "persist only accepted events to Postgres and
  upsert campaign aggregates"; `repo.go:92` runs the upsert outside the transaction, so
  an event whose commit fails stays in `campaign_stats` without a row. The batch variant
  at `repo.go:198` uses the transaction.
- `duplicate_has_original`: after a crash between `SETNX` and the final status the
  redelivered event meets its own key, is logged "Duplicate detected" (`service.go:106`)
  and never scored or persisted.
- `graceful_shutdown`: `cmd/main.go:140` says "Shutting down gracefully"; the sequence
  cancels the session and closes the archiver under the event in hand, which then fails,
  is marked (`consumer.go:110`) and committed.
- `one_row_per_hour`: `migrations/0001_init.up.sql:30` says "Composite primary key ensures only one
  row per campaign per hour"; the bucket keeps the wall clock of the event's zone and the column
  drops the zone, so events of one instant are counted in two rows.

One more has no run. `handler/event.go:124` answers `"count": len(events)` to a batch of which
`producer.go:96-99` may have skipped events that do not marshal; the client reads "queued" for all of them.
`AckedIsQueued` and `IngestContract` say what does hold: a 202 is right for the events that marshal.
Likewise `GET /campaigns/:id` answers with the totals of one hour of the campaign, whichever Postgres
returns first, and nothing in the repository says which it should be.

## 7. Plan

All components that hold state are modelled, checked and proved about. Done, in this order:
`BatchArchiver` with `ArchiveContract`; `SmartWorker` with `EventLedger`; `ConnPool`; `Collector` with
`IngestContract`; `CampaignStats`; `QueryService`; `WorkerProcess`; and the proofs of each.

What could follow:

1. `WorkerProcess` as an abstraction of `SmartWorker` with one worker, shown by a refinement mapping instead
   of by reading.
2. The path of one event id from a post to its row: `IngestContract`'s topic as the log of
   `SmartWorker`, to state end to end how many rows a client that posts again can cause.
3. A bound on the size of the archiver's buffers while the bucket is down: the code has none, so this
   needs a decision about what the program should do.
