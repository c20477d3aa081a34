------------------------------ MODULE ConnPool ------------------------------
(***************************************************************************)
(* The connections that ProcessRawEvent (worker-service/internal/repo/     *)
(* repo.go) takes from the pool of one worker process: one for its         *)
(* transaction and, while it holds that one, a second for the upsert of    *)
(* campaign_stats, which goes through r.db.  cmd/main.go allows MaxOpen,   *)
(* of which the migrator of InitDB keeps one for the life of the process.  *)
(*                                                                         *)
(* A claim is a goroutine in ConsumeClaim; it is inside ProcessRawEvent    *)
(* with one event at a time.  The session context is shared by all claims  *)
(* of the worker.  database/sql, Postgres and the session are external.    *)
(***************************************************************************)
EXTENDS Integers, FiniteSets

CONSTANTS Claims,   \* claims of the worker
          MaxOpen   \* SetMaxOpenConns

ASSUME ClaimsFinite == IsFiniteSet(Claims)
ASSUME MaxOpenPositive == MaxOpen \in Nat \ {0}

\* postgres.WithInstance takes a connection of the pool for the migrations, and nothing
\* closes the migrator.
Kept == 1

VARIABLES at,        \* at[c]: the call claim c is in
          inTx,      \* claims whose transaction is open
          open,      \* connections in use, as the pool counts them, the migrator's included
          cancelled  \* the session context is done

vars == <<at, inTx, open, cancelled>>

\* "begin" and "stats" wait for a connection; the others have what they need.
Calls == {"idle", "begin", "insert", "stats", "upsert", "commit"}
Waiting(c) == at[c] \in {"begin", "stats"}
Free == open < MaxOpen

Init ==
    /\ at = [c \in Claims |-> "idle"]
    /\ inTx = {}
    /\ open = Kept
    /\ cancelled = FALSE

Goto(c, l) == at' = [at EXCEPT ![c] = l]

\* Mutant: the connection of the transaction is given back whether it is open or not.
Return_Always(c, n) ==
    /\ Goto(c, "idle")
    /\ inTx' = inTx \ {c}
    /\ open' = open - n - 1
    /\ UNCHANGED cancelled

\* ProcessRawEvent returns: n statement connections go back, and the deferred Rollback,
\* or Commit, gives back the one of the transaction if it is still open.
Return(c, n) ==
    /\ Goto(c, "idle")
    /\ inTx' = inTx \ {c}
    /\ open' = open - n - (IF c \in inTx THEN 1 ELSE 0)
    /\ UNCHANGED cancelled

Call(c) ==
    /\ at[c] = "idle"
    /\ Goto(c, "begin")
    /\ UNCHANGED <<inTx, open, cancelled>>

\* r.db.BeginTx gets a connection.
BeginTx(c) ==
    /\ at[c] = "begin"
    /\ Free /\ ~cancelled
    /\ Goto(c, "insert")
    /\ inTx' = inTx \cup {c}
    /\ open' = open + 1
    /\ UNCHANGED cancelled

\* The row is inserted on the connection of the transaction.
InsertRow(c) ==
    /\ at[c] = "insert"
    /\ c \in inTx
    /\ Goto(c, "stats")
    /\ UNCHANGED <<inTx, open, cancelled>>

\* Mutant: no deferred Rollback when the INSERT fails.
InsertFails_NoRollback(c) ==
    /\ at[c] = "insert"
    /\ Goto(c, "idle")
    /\ inTx' = inTx \ {c}
    /\ UNCHANGED <<open, cancelled>>

\* Postgres refuses the row, or the transaction is gone.
InsertFails(c) == at[c] = "insert" /\ Return(c, 0)

\* r.db.ExecContext gets a second connection.
TakeConn(c) ==
    /\ at[c] = "stats"
    /\ Free /\ ~cancelled
    /\ Goto(c, "upsert")
    /\ open' = open + 1
    /\ UNCHANGED <<inTx, cancelled>>

\* Mutant: the result of the statement is never closed, and its connection kept.
Upsert_NotClosed(c) ==
    /\ at[c] = "upsert"
    /\ Goto(c, "commit")
    /\ UNCHANGED <<inTx, open, cancelled>>

\* The upsert is done and its connection goes back.
Upsert(c) ==
    /\ at[c] = "upsert"
    /\ Goto(c, "commit")
    /\ open' = open - 1
    /\ UNCHANGED <<inTx, cancelled>>

\* Mutant: no deferred Rollback when the upsert fails.
UpsertFails_NoRollback(c) ==
    /\ at[c] = "upsert"
    /\ Goto(c, "idle")
    /\ inTx' = inTx \ {c}
    /\ open' = open - 1
    /\ UNCHANGED cancelled

UpsertFails(c) == at[c] = "upsert" /\ Return(c, 1)

\* Commit succeeds or fails; either way the connection goes back.
Commit(c) == at[c] = "commit" /\ Return(c, 0)

\* There is room, but the connection cannot be opened or BEGIN fails.
DialFails(c) == Waiting(c) /\ Free /\ Return(c, 0)

\* Waiting for a connection ends when the context is done.
WaitCancelled(c) == Waiting(c) /\ cancelled /\ Return(c, 0)

\* A rebalance or the shutdown cancels the session context.
Cancel ==
    /\ ~cancelled
    /\ cancelled' = TRUE
    /\ UNCHANGED <<at, inTx, open>>

\* database/sql rolls back a transaction whose context is done, behind the back of the
\* goroutine that began it.
Rollback(c) ==
    /\ cancelled
    /\ c \in inTx
    /\ inTx' = inTx \ {c}
    /\ open' = open - 1
    /\ UNCHANGED <<at, cancelled>>

\* sarama starts the next session when every claim has returned.
NewSession ==
    /\ cancelled
    /\ \A c \in Claims : at[c] = "idle"
    /\ cancelled' = FALSE
    /\ UNCHANGED <<at, inTx, open>>

Running(c) ==
    \/ InsertRow(c) \/ InsertFails(c) \/ Upsert(c) \/ UpsertFails(c) \/ Commit(c)
    \/ WaitCancelled(c)

Next ==
    \/ \E c \in Claims : Call(c) \/ BeginTx(c) \/ TakeConn(c) \/ DialFails(c) \/ Running(c) \/ Rollback(c)
    \/ Cancel
    \/ NewSession

Spec == Init /\ [][Next]_vars

\* Postgres answers, and a connection that is given back goes to a random waiter, so
\* that none is passed over for ever.
Fairness ==
    \A c \in Claims : WF_vars(Running(c)) /\ SF_vars(BeginTx(c)) /\ SF_vars(TakeConn(c))

FairSpec == Spec /\ Fairness

-----------------------------------------------------------------------------
(* Properties                                                              *)

TypeOK ==
    /\ at \in [Claims -> Calls]
    /\ inTx \in SUBSET Claims
    /\ open \in Kept..MaxOpen
    /\ cancelled \in BOOLEAN

Upserting == {c \in Claims : at[c] = "upsert"}

\* The pool's count is the migrator's connection, the open transactions and the running
\* upserts: no path through ProcessRawEvent, and no cancellation, leaves a connection
\* behind or gives one back twice, and a claim outside ProcessRawEvent holds none.
NothingLeaks ==
    /\ open = Kept + Cardinality(inTx) + Cardinality(Upserting)
    /\ \A c \in inTx : at[c] \in {"insert", "stats", "upsert", "commit"}

\* Never do all transactions wait for a second connection that only another of them could
\* give back: when a claim waits, a connection is free or a claim that holds one is in a
\* call that needs no other.
NoPoolDeadlock ==
    (\E c \in Claims : Waiting(c)) =>
        Free \/ \E c \in Claims : at[c] \in {"insert", "upsert", "commit"}

\* Every call of ProcessRawEvent returns, with or without an error.
CallReturns == \A c \in Claims : at[c] = "begin" ~> at[c] = "idle"
=============================================================================
