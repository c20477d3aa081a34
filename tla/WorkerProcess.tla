--------------------------- MODULE WorkerProcess ---------------------------
(***************************************************************************)
(* One worker-service process from outside: cmd/main.go starts it, its     *)
(* claims call EventService.ProcessEvent, the archiver keeps its           *)
(* ArchiveContract, the counters of Metrics are read by the reporter and   *)
(* by main, and a signal or a crash ends it.  SmartWorker has the details  *)
(* of Redis, Postgres and rebalances; here the process is the only member  *)
(* of its group, which has committed before, and every call to Redis and   *)
(* Postgres may give any answer or fail.                                   *)
(*                                                                         *)
(* A call is <<life, partition, position>>: ProcessEvent in one life of    *)
(* the process.  GetMetrics copies the counters under their lock, so that  *)
(* every report shows the counters of one state.                           *)
(***************************************************************************)
EXTENDS Naturals, Sequences, FiniteSets

CONSTANTS
    Partitions,
    Log,       \* Log[p]: "event", "invalid" (fails validation), "garbled" (no JSON)
    Envs,      \* environments the process may be given: the variables that are set
               \* (ARCHIVE_BACKEND to a backend that exists)
    MaxLives   \* bound: starts of the process that get as far as consuming

ASSUME LogAssumption == Log \in [Partitions -> Seq({"event", "invalid", "garbled"})]
ASSUME LivesAssumption == MaxLives \in Nat \ {0}

Positions(p) == 1..Len(Log[p])
Calls == UNION {(1..MaxLives) \X {p} \X Positions(p) : p \in Partitions}
Finals == {"duplicate", "fraud", "accepted"}
Statuses == {"raw"} \cup Finals
Counters == {"processed", "failed", "duplicate", "fraud", "archived"}
Records == Calls \X Statuses

VARIABLES
    stage,      \* where main is
    env,        \* the variables that are set
    schema,     \* the migrations: "none", "dirty" (begun), "ready"
    life,       \* starts so far
    committed,  \* committed[p]: the group's offset
    start,      \* start[p]: where the claim of this life began
    next,       \* next[p]: the message in hand, or the next one
    marked,     \* marked[p]: what MarkMessage left for the next commit
    pc,         \* pc[p]: where ConsumeClaim and ProcessEvent are
    label,      \* label[p]: the status being archived, or the counter due
    phase, accepted, stored, refused,  \* the archive, see ArchiveContract
    hung,       \* an upload never returns
    metrics,    \* the counters of Metrics
    rows,       \* calls whose row is in raw_events
    \* --- history
    failed,     \* calls that returned an error
    lost        \* records in memory at a crash, or refused by the bucket and left at an exit

bootVars == <<env, schema, life, start>>
claimVars == <<next, marked, pc, label>>
archiveVars == <<phase, accepted, stored, refused>>
countVars == <<metrics, rows, failed>>
vars == <<stage, bootVars, committed, claimVars, archiveVars, hung, countVars, lost>>

Archive == INSTANCE ArchiveContract

NoRecords == [s \in Statuses |-> {}]
NoCounts == [k \in Counters |-> 0]

Init ==
    /\ stage = "down"
    /\ env \in Envs
    /\ schema = "none"
    /\ life = 0
    /\ committed = [p \in Partitions |-> 1]
    /\ start = [p \in Partitions |-> 1]
    /\ next = [p \in Partitions |-> 1]
    /\ marked = [p \in Partitions |-> 1]
    /\ pc = [p \in Partitions |-> "ended"]
    /\ label = [p \in Partitions |-> "raw"]
    /\ phase = "closed"
    /\ accepted = NoRecords
    /\ stored = NoRecords
    /\ refused = {}
    /\ hung = FALSE
    /\ metrics = NoCounts
    /\ rows = {}
    /\ failed = {}
    /\ lost = {}

-----------------------------------------------------------------------------
(* The start                                                               *)

\* validate returns at the first variable that is missing, before the defaults, and
\* LoadConfig drops its error.
Backend ==
    IF "ARCHIVE_BACKEND" \in env THEN "given"
    ELSE IF {"DB_URL", "KAFKA_TOPICS", "PORT"} \subseteq env THEN "minio" ELSE ""

\* The supervisor starts the process.
Launch ==
    /\ stage = "down"
    /\ life < MaxLives
    /\ stage' = "booting"
    /\ UNCHANGED <<bootVars, committed, claimVars, archiveVars, hung, countVars, lost>>

\* golang-migrate marks the schema dirty, runs the file, and clears the mark.
Migrate ==
    /\ stage = "booting"
    /\ "DB_URL" \in env
    /\ schema = "none"
    /\ schema' = "dirty"
    /\ stage' = "migrating"
    /\ UNCHANGED <<env, life, start, committed, claimVars, archiveVars, hung, countVars, lost>>

MigrationDone ==
    /\ stage = "migrating"
    /\ schema' = "ready"
    /\ stage' = "booting"
    /\ UNCHANGED <<env, life, start, committed, claimVars, archiveVars, hung, countVars, lost>>

\* Mutant: ErrNoChange is fatal as well.
Migrated_Once == schema = "ready" /\ life = 0

\* Up has nothing left to do (ErrNoChange); a dirty schema is an error.
Migrated == schema = "ready"

\* Everything is connected; Consumer.Start returns once the group has assigned the
\* partitions, for which it needs topics.
Boot ==
    /\ stage = "booting"
    /\ Migrated
    /\ Backend # ""
    /\ "KAFKA_TOPICS" \in env
    /\ stage' = "up"
    /\ life' = life + 1
    /\ pc' = [p \in Partitions |-> "poll"]
    /\ phase' = "open"
    /\ UNCHANGED <<env, schema, start, committed, next, marked, label, accepted, stored, refused,
                   hung, countVars, lost>>

\* log.Fatal: a service does not answer, the migration fails, the schema is dirty, or
\* the backend is unknown.
BootFails ==
    /\ stage \in {"booting", "migrating"}
    /\ stage' = "down"
    /\ UNCHANGED <<bootVars, committed, claimVars, archiveVars, hung, countVars, lost>>

-----------------------------------------------------------------------------
(* ConsumeClaim and ProcessEvent                                           *)

Call(p) == <<life, p, next[p]>>
Record(p) == <<Call(p), label[p]>>

Goto(p, l, s) ==
    /\ pc' = [pc EXCEPT ![p] = l]
    /\ label' = [label EXCEPT ![p] = s]
    /\ UNCHANGED <<next, marked>>

\* A call that fails has its counter due.
Fail(p) == Goto(p, "tally", "failed")

HasMessage(p) == pc[p] = "poll" /\ next[p] \in Positions(p)

\* MarkMessage, and back to the select.
Mark(p) ==
    /\ marked' = [marked EXCEPT ![p] = next[p] + 1]
    /\ next' = [next EXCEPT ![p] = @ + 1]
    /\ pc' = [pc EXCEPT ![p] = "poll"]
    /\ label' = [label EXCEPT ![p] = "raw"]

Fetch(p) ==
    /\ HasMessage(p)
    /\ CASE Log[p][next[p]] = "garbled" -> Mark(p)
         [] Log[p][next[p]] = "invalid" -> Fail(p)
         [] Log[p][next[p]] = "event" -> Goto(p, "enqueue", "raw")
    /\ UNCHANGED <<stage, bootVars, committed, archiveVars, hung, countVars, lost>>

Enqueue(p) ==
    /\ pc[p] = "enqueue"
    /\ Archive!Accept(label[p], Record(p))
    /\ Goto(p, "archived", label[p])
    /\ UNCHANGED <<stage, bootVars, committed, hung, countVars, lost>>

\* Mutant: the error is returned without incrementFailed.
EnqueueRefused_Uncounted(p) ==
    /\ pc[p] = "enqueue"
    /\ phase # "open"
    /\ Mark(p)
    /\ UNCHANGED <<stage, bootVars, committed, archiveVars, hung, countVars, lost>>

\* Mutant: Enqueue waits for an archiver that takes records.
EnqueueRefused_Waits(p) == pc[p] = "enqueue" /\ phase # "open" /\ UNCHANGED vars

\* The archiver is closed: archive.Enqueue returns an error.
EnqueueRefused(p) ==
    /\ pc[p] = "enqueue"
    /\ phase # "open"
    /\ Fail(p)
    /\ UNCHANGED <<stage, bootVars, committed, archiveVars, hung, countVars, lost>>

Counted(k) == metrics' = [metrics EXCEPT ![k] = @ + 1]

\* incrementArchived, and on to what follows the status just archived.
CountArchived(p) ==
    /\ pc[p] = "archived"
    /\ Counted("archived")
    /\ CASE label[p] = "raw" -> Goto(p, "classify", "raw")
         [] label[p] = "accepted" -> Goto(p, "persist", "accepted")
         [] OTHER -> Goto(p, "tally", label[p])
    /\ UNCHANGED <<stage, bootVars, committed, archiveVars, hung, rows, failed, lost>>

\* IsDuplicate and CheckFraud: any answer, or an error.
Classify(p) ==
    /\ pc[p] = "classify"
    /\ (\E s \in Finals : Goto(p, "enqueue", s)) \/ Fail(p)
    /\ UNCHANGED <<stage, bootVars, committed, archiveVars, hung, countVars, lost>>

\* ProcessRawEvent; an error may hide that the row was committed.
Persist(p) ==
    /\ pc[p] = "persist"
    /\ \/ rows' = rows \cup {Call(p)} /\ (Goto(p, "tally", "processed") \/ Fail(p))
       \/ UNCHANGED rows /\ Fail(p)
    /\ UNCHANGED <<stage, bootVars, committed, archiveVars, hung, metrics, failed, lost>>

\* Mutant: addProcessed also when persisting has failed.
Tally_Both(p) ==
    /\ pc[p] = "tally"
    /\ metrics' = [k \in Counters |->
          metrics[k] + IF k = label[p] \/ (label[p] = "failed" /\ k = "processed") THEN 1 ELSE 0]
    /\ failed' = IF label[p] = "failed" THEN failed \cup {Call(p)} ELSE failed
    /\ Mark(p)
    /\ UNCHANGED <<stage, bootVars, committed, archiveVars, hung, rows, lost>>

\* The counter of the outcome; ProcessEvent returns and the message is marked.
Tally(p) ==
    /\ pc[p] = "tally"
    /\ Counted(label[p])
    /\ failed' = IF label[p] = "failed" THEN failed \cup {Call(p)} ELSE failed
    /\ Mark(p)
    /\ UNCHANGED <<stage, bootVars, committed, archiveVars, hung, rows, lost>>

\* sarama commits what is marked.
Commit(p) ==
    /\ pc[p] # "ended"
    /\ committed[p] # marked[p]
    /\ committed' = [committed EXCEPT ![p] = marked[p]]
    /\ UNCHANGED <<stage, bootVars, claimVars, archiveVars, hung, countVars, lost>>

\* The session's context is done: ConsumeClaim returns, the session commits and ends.
EndClaim(p) ==
    /\ pc[p] = "poll"
    /\ stage # "up"
    /\ committed' \in {committed, [committed EXCEPT ![p] = marked[p]]}
    /\ pc' = [pc EXCEPT ![p] = "ended"]
    /\ UNCHANGED <<stage, bootVars, next, marked, label, archiveVars, hung, countVars, lost>>

-----------------------------------------------------------------------------
(* The archiver                                                            *)

\* Records the archiver holds: not in the bucket, or put back after an error.
Held(s) == {r \in accepted[s] : r \notin stored[s] \/ r \in refused}

\* A batch is uploaded.
Upload(s, R) ==
    /\ R # {}
    /\ Archive!Attempt(s, R)
    /\ UNCHANGED <<stage, bootVars, committed, claimVars, hung, countVars, lost>>

\* Upload gets context.Background(): a request that Close waits for may never return.
Hang ==
    /\ stage = "closing"
    /\ \E s \in Statuses : Held(s) # {}
    /\ hung' = TRUE
    /\ UNCHANGED <<stage, bootVars, committed, claimVars, archiveVars, countVars, lost>>

-----------------------------------------------------------------------------
(* The end                                                                 *)

\* A signal: main calls cancel().
Cancel ==
    /\ stage = "up"
    /\ stage' = "cancelled"
    /\ UNCHANGED <<bootVars, committed, claimVars, archiveVars, hung, countVars, lost>>

\* Mutant: Close does not set closed.
CloseArchiver_Open ==
    /\ stage = "cancelled"
    /\ stage' = "closing"
    /\ UNCHANGED <<bootVars, committed, claimVars, archiveVars, hung, countVars, lost>>

\* EventService.Shutdown calls archiver.Close.
CloseArchiver ==
    /\ stage = "cancelled"
    /\ Archive!BeginClose
    /\ stage' = "closing"
    /\ UNCHANGED <<bootVars, committed, claimVars, hung, countVars, lost>>

\* Mutant: Shutdown gives up on Close and goes on.
ArchiverClosed_Unwaited ==
    /\ stage = "closing"
    /\ phase' = "closed"
    /\ stage' = "archiverClosed"
    /\ UNCHANGED <<bootVars, committed, claimVars, accepted, stored, refused, hung, countVars, lost>>

\* Close returns when every upload has.  The 30 seconds of shutdownCtx bound only the
\* wait for s.wg, to which nothing is ever added.
ArchiverClosed ==
    /\ stage = "closing"
    /\ ~hung
    /\ Archive!EndClose
    /\ stage' = "archiverClosed"
    /\ UNCHANGED <<bootVars, committed, claimVars, hung, countVars, lost>>

\* Mutant: the final metrics are read before the consumer is closed.
CloseConsumer_Unwaited ==
    /\ stage = "archiverClosed"
    /\ stage' = "closed"
    /\ UNCHANGED <<bootVars, committed, claimVars, archiveVars, hung, countVars, lost>>

\* Consumer.Close returns when the session has ended, with every claim.
CloseConsumer ==
    /\ stage = "archiverClosed"
    /\ \A p \in Partitions : pc[p] = "ended"
    /\ stage' = "closed"
    /\ UNCHANGED <<bootVars, committed, claimVars, archiveVars, hung, countVars, lost>>

\* The memory of the process is gone; the next one starts from what is committed.
Gone ==
    /\ stage' = "down"
    /\ start' = committed /\ next' = committed /\ marked' = committed
    /\ pc' = [p \in Partitions |-> "ended"]
    /\ label' = [p \in Partitions |-> "raw"]
    /\ phase' = "closed"
    /\ accepted' = NoRecords
    /\ refused' = {}
    /\ hung' = FALSE
    /\ metrics' = NoCounts
    /\ UNCHANGED <<env, schema, life, committed, stored, rows, failed>>

\* main prints the final metrics and returns; what no upload could store is gone.
Exit ==
    /\ stage = "closed"
    /\ Gone
    /\ lost' = lost \cup {r \in refused : r \notin stored[r[2]]}

Crash ==
    /\ stage \notin {"down", "booting"}
    /\ Gone
    /\ lost' = lost \cup UNION {accepted[s] \ stored[s] : s \in Statuses}

\* Not a step of the code: the bound on lives is reached.
Ended == stage = "down" /\ life = MaxLives /\ UNCHANGED vars

-----------------------------------------------------------------------------
ClaimStep(p) ==
    \/ Fetch(p) \/ Enqueue(p) \/ EnqueueRefused(p) \/ CountArchived(p)
    \/ Classify(p) \/ Persist(p) \/ Tally(p) \/ EndClaim(p)

MainStep == CloseArchiver \/ ArchiverClosed \/ CloseConsumer \/ Exit

Next ==
    \/ Launch \/ Migrate \/ MigrationDone \/ Boot \/ BootFails
    \/ \E p \in Partitions : ClaimStep(p) \/ Commit(p)
    \/ \E s \in Statuses : \E R \in SUBSET Held(s) : Upload(s, R)
    \/ Hang
    \/ Cancel \/ MainStep \/ Crash \/ Ended

Spec == Init /\ [][Next]_vars

\* A start that cannot succeed ends in log.Fatal.
Hopeless == schema = "dirty" \/ Backend = "" \/ "DB_URL" \notin env

\* Records that Close, or a flush before it, has still to try.
Untried(s) == accepted[s] \ (stored[s] \cup refused)

\* Goroutines run, main goes on, the archiver uploads what it holds, the supervisor
\* starts the process again and the services it needs answer at last.
Fairness ==
    /\ \A p \in Partitions : WF_vars(ClaimStep(p))
    /\ WF_vars(MainStep)
    /\ WF_vars(\E s \in Statuses : Upload(s, Untried(s)))
    /\ WF_vars(Launch \/ MigrationDone \/ (Hopeless /\ BootFails))
    /\ SF_vars(Migrate \/ Boot)

FairSpec == Spec /\ Fairness

-----------------------------------------------------------------------------
(* Properties                                                              *)

Stages == {"down", "booting", "migrating", "up", "cancelled", "closing", "archiverClosed",
           "closed"}
Locations == {"poll", "enqueue", "archived", "classify", "persist", "tally", "ended"}

\* Types.  The archive takes records only while the process consumes or is told to stop.
TypeOK ==
    /\ stage \in Stages
    /\ env \in Envs
    /\ schema \in {"none", "dirty", "ready"}
    /\ life \in 0..MaxLives
    /\ committed \in [Partitions -> Nat]
    /\ start \in [Partitions -> Nat]
    /\ next \in [Partitions -> Nat]
    /\ marked \in [Partitions -> Nat]
    /\ pc \in [Partitions -> Locations]
    /\ label \in [Partitions -> Statuses \cup Counters]
    /\ phase \in {"open", "closing", "closed"}
    /\ phase = "open" => stage \in {"up", "cancelled"}
    /\ accepted \in [Statuses -> SUBSET Records]
    /\ stored \in [Statuses -> SUBSET Records]
    /\ refused \in SUBSET Records
    /\ hung \in BOOLEAN
    /\ metrics \in [Counters -> Nat]
    /\ rows \in SUBSET Calls
    /\ failed \in SUBSET Calls
    /\ lost \in SUBSET Records

\* In the bucket, in memory, or accounted for.
Traced(r, s) == r \in stored[s] \cup accepted[s] \cup lost

\* A row of raw_events has its raw and its accepted record in the archive; they are
\* missing only after a crash or a refused upload.  A shutdown loses none, whatever
\* the claims do while main closes the archiver before the consumer.
RowsArchived ==
    \A d \in rows : \A s \in {"raw", "accepted"} : Traced(<<d, s>>, s)

\* A valid message below the committed offset has left a trace: the archive got its raw
\* record, or its call is counted as failed.
NothingVanishes ==
    \A p \in Partitions : \A o \in 1..(committed[p] - 1) :
        Log[p][o] = "event" =>
            \E l \in 1..life : Traced(<<<<l, p, o>>, "raw">>, "raw") \/ <<l, p, o>> \in failed

OfThisLife(S) == {d \in S : d[1] = life}
Outcomes == metrics["processed"] + metrics["duplicate"] + metrics["fraud"]

\* Whenever the reporter reads them, the counters claim nothing that has not been done:
\* a processed event has its row, and every outcome has two records counted as
\* archived, each of which the archive has taken.
ReportsTrue ==
    /\ metrics["processed"] <= Cardinality(OfThisLife(rows))
    /\ 2 * Outcomes <= metrics["archived"]
    /\ metrics["archived"] <= Cardinality(UNION {accepted[s] : s \in Statuses})

\* The calls of this life, also those in hand.
InCall(p) == pc[p] \notin {"poll", "ended"}
Given == {d \in OfThisLife(Calls) :
             LET p == d[2] o == d[3] IN
             /\ start[p] <= o /\ Log[p][o] # "garbled"
             /\ o < next[p] \/ (o = next[p] /\ InCall(p))}

\* The final metrics count every message that was given to ProcessEvent once, in one
\* counter, also those that were in hand when the signal arrived.
FinalMetricsComplete ==
    stage = "closed" => Outcomes + metrics["failed"] = Cardinality(Given)

\* After a signal the process ends, unless an upload never returns: no claim, counter
\* or upload that fails can keep main waiting.
ShutdownEnds == stage = "cancelled" ~> stage = "down" \/ hung

\* A process that is started consumes in the end, also when the schema is up to date;
\* what can keep it from that is a migration that was cut short or missing variables.
ComesUp ==
    stage = "booting" ~> stage = "up" \/ Hopeless \/ "KAFKA_TOPICS" \notin env \/ life = MaxLives
=============================================================================
