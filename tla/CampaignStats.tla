--------------------------- MODULE CampaignStats ---------------------------
(***************************************************************************)
(* The tables raw_events and campaign_stats under the two writers of       *)
(* worker-service/internal/repo/repo.go: ProcessRawEvent, which adds to    *)
(* the aggregates on a connection of its own beside the transaction of     *)
(* the row, and ProcessRawEventsBatch, which does everything in one        *)
(* transaction and adds group by group in the random order of a Go map.    *)
(*                                                                         *)
(* A job is a goroutine that calls one of them; a run is one call.  Time   *)
(* counts half hours, and an event carries the offset of its zone.         *)
(* Postgres is external: an upsert waits while another transaction has     *)
(* written the row and then adds to what that one left (READ COMMITTED);   *)
(* INTEGER columns hold at most MaxInt; a cycle of waiting transactions    *)
(* is broken by failing one of them.                                       *)
(***************************************************************************)
EXTENDS Integers, FiniteSets, Sequences

CONSTANTS
    Jobs,
    Singles,   \* events given to ProcessRawEvent
    Batches,   \* non-empty sequences of events given to ProcessRawEventsBatch
    MaxInt,    \* the largest INTEGER
    MaxRuns    \* bound: runs of one job

Types == {"impression", "click", "conversion"}

\* The hour buckets and offsets that appear are those of the events given.
Events == Singles \cup UNION {{b[i] : i \in DOMAIN b} : b \in Batches}

ASSUME EventsAssumption ==
    \A e \in Events : e.type \in Types /\ e.at \in Int /\ e.zone \in Int
ASSUME BatchesAssumption == \A b \in Batches : b \in Seq(Events) /\ b # <<>>
ASSUME BoundsAssumption == MaxInt \in Nat \ {0} /\ MaxRuns \in Nat \ {0}

\* The wall clock of the event's zone.
Wall(e) == e.at + e.zone

\* time.Date with the fields of the wall clock and no minutes.
GetHourBucket(e) == 2 * (Wall(e) \div 2)

\* The primary key of campaign_stats.  TIMESTAMP has no zone: the wall clock is what stays.
RowOf(e) == <<e.camp, GetHourBucket(e)>>
Rows == {RowOf(e) : e \in Events}

\* The key of statsMap is formatted with the zone (RFC3339): one row can have two groups.
GroupOf(e) == <<e.camp, GetHourBucket(e), e.zone>>

VARIABLES
    at,       \* at[j]: where job j is
    run,      \* run[j]: number of its current or last run
    events,   \* events[j]: the events of that run
    todo,     \* todo[j]: groups that the range over statsMap has still to visit
    group,    \* group[j]: the group being visited
    written,  \* written[j]: what its open transaction has added to each row and type
    stats,    \* campaign_stats, committed
    raw,      \* raw_events, committed
    stray     \* events added by ProcessRawEvent and not (or not yet) in raw_events

vars == <<at, run, events, todo, group, written, stats, raw, stray>>

NoGroup == <<>>
Nothing == [k \in Rows \X Types |-> 0]

\* Rows of raw_events and strays: the event with the call that it came from.
Token(j, i) == [job |-> j, run |-> run[j], pos |-> i, ev |-> events[j][i]]
Tokens(j) == {Token(j, i) : i \in DOMAIN events[j]}

Init ==
    /\ at = [j \in Jobs |-> "idle"]
    /\ run = [j \in Jobs |-> 0]
    /\ events = [j \in Jobs |-> <<>>]
    /\ todo = [j \in Jobs |-> {}]
    /\ group = [j \in Jobs |-> NoGroup]
    /\ written = [j \in Jobs |-> Nothing]
    /\ stats = Nothing
    /\ raw = {}
    /\ stray = {}

\* A row that another transaction has written and not committed.
LockedFor(j, row) ==
    \E o \in Jobs \ {j} : \E t \in Types : written[o][<<row, t>>] > 0

Goto(j, l) == at' = [at EXCEPT ![j] = l]

Begin(j, s, l) ==
    /\ at[j] = "idle"
    /\ run[j] < MaxRuns
    /\ run' = [run EXCEPT ![j] = @ + 1]
    /\ events' = [events EXCEPT ![j] = s]
    /\ Goto(j, l)

-----------------------------------------------------------------------------
(* ProcessRawEvent                                                         *)

\* BeginTx and the INSERT of the row, seen by nobody before Commit.
Insert(j, e) ==
    /\ Begin(j, <<e>>, "stats")
    /\ UNCHANGED <<todo, group, written, stats, raw, stray>>

\* Mutant: DO UPDATE SET total = EXCLUDED.total.
Added_Replaced(f, k, n) == [f EXCEPT ![k] = n]

\* DO UPDATE SET total = campaign_stats.total + EXCLUDED.total.
Added(f, k, n) == [f EXCEPT ![k] = @ + n]

\* The upsert through r.db commits by itself.
Upsert(j) ==
    LET e == events[j][1]
        k == <<RowOf(e), e.type>> IN
    /\ at[j] = "stats"
    /\ ~LockedFor(j, RowOf(e))
    /\ stats[k] < MaxInt
    /\ stats' = Added(stats, k, 1)
    /\ stray' = stray \cup Tokens(j)
    /\ Goto(j, "commit")
    /\ UNCHANGED <<run, events, todo, group, written, raw>>

\* tx.Commit succeeds.
Commit(j) ==
    /\ at[j] = "commit"
    /\ raw' = raw \cup Tokens(j)
    /\ stray' = stray \ Tokens(j)
    /\ Goto(j, "idle")
    /\ UNCHANGED <<run, events, todo, group, written, stats>>

\* The upsert or the commit fails, or the worker dies: the row is rolled back.
Fail(j) ==
    /\ at[j] \in {"stats", "commit"}
    /\ Goto(j, "idle")
    /\ UNCHANGED <<run, events, todo, group, written, stats, raw, stray>>

-----------------------------------------------------------------------------
(* ProcessRawEventsBatch                                                   *)

\* BeginTx, COPY of the rows, and the grouping of the events in statsMap.
Copy(j, s) ==
    /\ Begin(j, s, "range")
    /\ todo' = [todo EXCEPT ![j] = {GroupOf(s[i]) : i \in DOMAIN s}]
    /\ UNCHANGED <<group, written, stats, raw, stray>>

\* The range over statsMap visits its keys in any order.
Visit(j, g) ==
    /\ at[j] = "range"
    /\ g \in todo[j]
    /\ group' = [group EXCEPT ![j] = g]
    /\ Goto(j, "upsert")
    /\ UNCHANGED <<run, events, todo, written, stats, raw, stray>>

Members(j) == {i \in DOMAIN events[j] : GroupOf(events[j][i]) = group[j]}

\* The CampaignStats of the group: campaign and bucket as in its key, its events by type.
GroupRow(j) == <<group[j][1], group[j][2]>>
GroupTotal(j, t) == Cardinality({i \in Members(j) : events[j][i].type = t})

\* What the upsert of the current group makes of f.
WithGroup(f, j) ==
    [k \in Rows \X Types |-> f[k] + IF k[1] = GroupRow(j) THEN GroupTotal(j, k[2]) ELSE 0]

\* The columns are INTEGER.
Fits(j) ==
    \A t \in Types :
        LET k == <<GroupRow(j), t>> IN stats[k] + written[j][k] + GroupTotal(j, t) <= MaxInt

\* Mutant: the upsert goes through r.db, as in ProcessRawEvent.
UpsertGroup_OwnConn(j) ==
    /\ at[j] = "upsert"
    /\ Fits(j)
    /\ stats' = WithGroup(stats, j)
    /\ todo' = [todo EXCEPT ![j] = @ \ {group[j]}]
    /\ group' = [group EXCEPT ![j] = NoGroup]
    /\ Goto(j, "range")
    /\ UNCHANGED <<run, events, written, raw, stray>>

\* The row is locked, and the sums fit its columns.
UpsertGroup(j) ==
    /\ at[j] = "upsert"
    /\ ~LockedFor(j, GroupRow(j))
    /\ Fits(j)
    /\ written' = [written EXCEPT ![j] = WithGroup(@, j)]
    /\ todo' = [todo EXCEPT ![j] = @ \ {group[j]}]
    /\ group' = [group EXCEPT ![j] = NoGroup]
    /\ Goto(j, "range")
    /\ UNCHANGED <<run, events, stats, raw, stray>>

\* Every group is upserted: tx.Commit shows rows and sums at once.
CommitBatch(j) ==
    /\ at[j] = "range"
    /\ todo[j] = {}
    /\ stats' = [k \in Rows \X Types |-> stats[k] + written[j][k]]
    /\ raw' = raw \cup Tokens(j)
    /\ written' = [written EXCEPT ![j] = Nothing]
    /\ Goto(j, "idle")
    /\ UNCHANGED <<run, events, todo, group, stray>>

\* Mutant: the transaction is left open, with its locks, when a statement fails.
Rollback_Missing(j) ==
    /\ todo' = [todo EXCEPT ![j] = {}]
    /\ group' = [group EXCEPT ![j] = NoGroup]
    /\ Goto(j, "idle")
    /\ UNCHANGED <<run, events, written, stats, raw, stray>>

\* The deferred tx.Rollback.
Rollback(j) ==
    /\ written' = [written EXCEPT ![j] = Nothing]
    /\ todo' = [todo EXCEPT ![j] = {}]
    /\ group' = [group EXCEPT ![j] = NoGroup]
    /\ Goto(j, "idle")
    /\ UNCHANGED <<run, events, stats, raw, stray>>

\* A statement or the commit fails, or the worker dies.
FailBatch(j) == at[j] \in {"range", "upsert"} /\ Rollback(j)

\* Job o has written the row that job j waits for.
WaitsFor(j, o) ==
    /\ at[j] = "upsert"
    /\ o # j
    /\ \E t \in Types : written[o][<<GroupRow(j), t>>] > 0

\* Postgres finds j in a cycle of waiting transactions.  Each waits for one other, since a
\* row is written by one at a time.
InCycle(j) ==
    \E S \in SUBSET Jobs :
        /\ j \in S
        /\ \A o \in S : (\E p \in S : WaitsFor(o, p)) /\ (\E p \in S : WaitsFor(p, o))

BreakDeadlock(j) == InCycle(j) /\ FailBatch(j)

\* A sum does not fit an INTEGER: the statement fails.
OutOfRange(j) ==
    \/ /\ at[j] = "stats"
       /\ stats[<<RowOf(events[j][1]), events[j][1].type>>] >= MaxInt
       /\ Fail(j)
    \/ /\ at[j] = "upsert"
       /\ ~LockedFor(j, GroupRow(j))
       /\ ~Fits(j)
       /\ FailBatch(j)

\* What a run does next when nothing else fails.
Progress(j) ==
    \/ Upsert(j) \/ Commit(j)
    \/ \E g \in todo[j] : Visit(j, g)
    \/ UpsertGroup(j) \/ CommitBatch(j)
    \/ BreakDeadlock(j) \/ OutOfRange(j)

Next ==
    \E j \in Jobs :
        \/ \E e \in Singles : Insert(j, e)
        \/ \E s \in Batches : Copy(j, s)
        \/ Progress(j) \/ Fail(j) \/ FailBatch(j)

Spec == Init /\ [][Next]_vars

\* Calls run and are answered, and Postgres serves the waiters for a row in turn.
FairSpec == Spec /\ \A j \in Jobs : SF_vars(Progress(j))

-----------------------------------------------------------------------------
(* Properties                                                              *)

Groups == {GroupOf(e) : e \in Events}
Locations == {"idle", "stats", "commit", "range", "upsert"}

\* Types.  No total passes its column, however the transactions that add to it
\* interleave, and a run that is over has left no lock.
TypeOK ==
    /\ at \in [Jobs -> Locations]
    /\ run \in [Jobs -> 0..MaxRuns]
    /\ events \in [Jobs -> {<<>>} \cup Batches \cup {<<e>> : e \in Singles}]
    /\ todo \in [Jobs -> SUBSET Groups]
    /\ group \in [Jobs -> Groups \cup {NoGroup}]
    /\ written \in [Jobs -> [Rows \X Types -> 0..MaxInt]]
    /\ stats \in [Rows \X Types -> 0..MaxInt]
    /\ \A x \in raw \cup stray : x.job \in Jobs /\ x.run \in 1..run[x.job] /\ x.ev \in Events
    /\ \A j \in Jobs : at[j] \notin {"range", "upsert"} => written[j] = Nothing

Counted(k) == {x \in raw \cup stray : RowOf(x.ev) = k[1] /\ x.ev.type = k[2]}

\* Every total is the number of the events that were added to it, one by one or in
\* groups: none is lost or added twice when transactions interleave, when a group
\* meets another of the same row, when one of several upserts fails or when a
\* deadlock is broken; only strays (ProcessRawEvent's upsert is outside its
\* transaction) are in a total and not in raw_events.
StatsAccounted == \A k \in Rows \X Types : stats[k] = Cardinality(Counted(k))

\* Every call ends, also when two batches lock the same rows in opposite orders.
RunEnds == \A j \in Jobs : at[j] # "idle" ~> at[j] = "idle"

\* migrations/0001_init.up.sql:30 "ensures only one row per campaign per hour": the
\* events of one campaign in one hour are counted in one row.
OneRowPerHour ==
    \A x, y \in raw :
        x.ev.camp = y.ev.camp /\ x.ev.at \div 2 = y.ev.at \div 2 => RowOf(x.ev) = RowOf(y.ev)
=============================================================================
