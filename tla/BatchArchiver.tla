---------------------------- MODULE BatchArchiver ----------------------------
(***************************************************************************)
(* The batching archiver of the worker:                                    *)
(* worker-service/internal/archive/archiver.go.                            *)
(*                                                                         *)
(* Goroutines: the callers of Enqueue (one per Kafka claim), the flusher   *)
(* loop, the goroutine that calls Close, any goroutine that calls the      *)
(* exported Flush, and one goroutine per upload in flight.  Critical       *)
(* sections under b.mu are single steps; everything between two of them is *)
(* a step of its own.                                                      *)
(*                                                                         *)
(* A record is one token per call of Enqueue, so two records are never     *)
(* confused although two events may have equal bytes.  The order inside a  *)
(* batch is not kept: a buffer is a set and len() is its cardinality.      *)
(***************************************************************************)
EXTENDS Naturals, FiniteSets

CONSTANTS Records,       \* tokens, one per call of Enqueue
          Statuses,      \* archive prefixes
          Callers,       \* goroutines that call Enqueue
          FlushCallers,  \* goroutines that call the exported Flush (none in this program)
          BatchSize      \* b.batchSize; NewBatchArchiver replaces 0 and less by 100

Loop == "loop"           \* the goroutine running flusherLoop
Closer == "close"        \* the goroutine running Close
Flushers == {Loop, Closer} \cup FlushCallers

ASSUME BatchSizePositive == BatchSize \in Nat \ {0}
ASSUME FlushCallersDistinct == Loop \notin FlushCallers /\ Closer \notin FlushCallers

VARIABLES
    buffers,     \* b.buffers: status -> records waiting for a flush
    closed,      \* b.closed
    flushCh,     \* TRUE iff the one slot of b.flushCh is taken
    stopCh,      \* TRUE iff b.stopCh is closed
    signalling,  \* callers between Unlock and the send on flushCh in Enqueue
    pc,          \* where each flushing goroutine is
    batches,     \* batches[g]: the local map of flushWithContext in goroutine g
    uploads,     \* upload goroutines in flight; b.uploadWG counts them
    \* --- history, never read by an action's guard except for freshness of tokens
    accepted,    \* accepted[s]: records for which Enqueue(s, _) returned nil
    rejected,    \* records for which Enqueue returned "archiver is closed"
    stored,      \* stored[s]: records contained in some object under s in the bucket
    failed       \* records that were in a batch whose Upload returned an error

vars == <<buffers, closed, flushCh, stopCh, signalling, pc, batches, uploads,
          accepted, rejected, stored, failed>>

Empty == [s \in Statuses |-> {}]

Init ==
    /\ buffers = Empty
    /\ closed = FALSE
    /\ flushCh = FALSE
    /\ stopCh = FALSE
    /\ signalling = {}
    /\ pc = [g \in Flushers |-> "idle"]
    /\ batches = [g \in Flushers |-> Empty]
    /\ uploads = {}
    /\ accepted = Empty
    /\ rejected = {}
    /\ stored = Empty
    /\ failed = {}

Used == rejected \cup UNION {accepted[s] : s \in Statuses}

-----------------------------------------------------------------------------
(* Enqueue                                                                 *)

\* shouldFlush.
Full(B) == Cardinality(B) >= BatchSize

\* The test of b.closed.
Open == ~closed

\* The critical section of Enqueue with the archiver open: append, and decide
\* under the lock whether this caller must wake the flusher.
Enqueue(c, s, r) ==
    /\ c \notin signalling
    /\ r \notin Used
    /\ Open
    /\ buffers' = [buffers EXCEPT ![s] = @ \cup {r}]
    /\ signalling' = IF Full(buffers'[s]) THEN signalling \cup {c} ELSE signalling
    /\ accepted' = [accepted EXCEPT ![s] = @ \cup {r}]
    /\ UNCHANGED <<closed, flushCh, stopCh, pc, batches, uploads, rejected, stored, failed>>

\* Enqueue after Close took the lock: the caller gets an error.
EnqueueClosed(c, r) ==
    /\ c \notin signalling
    /\ r \notin Used
    /\ closed
    /\ rejected' = rejected \cup {r}
    /\ UNCHANGED <<buffers, closed, flushCh, stopCh, signalling, pc, batches, uploads,
                   accepted, stored, failed>>

\* What a non-blocking send leaves in the slot.  Mutant: the channel has no slot, so
\* the send succeeds only while the loop is in its select.
Sent_Unbuffered == flushCh \/ pc[Loop] = "idle"
Sent == TRUE

\* The send on flushCh after the critical section.
Signal(c) ==
    /\ c \in signalling
    /\ signalling' = signalling \ {c}
    /\ flushCh' = Sent
    /\ UNCHANGED <<buffers, closed, stopCh, pc, batches, uploads,
                   accepted, rejected, stored, failed>>

-----------------------------------------------------------------------------
(* flusherLoop: one branch of its select each                              *)

LoopTick ==
    /\ pc[Loop] = "idle"
    /\ pc' = [pc EXCEPT ![Loop] = "flush"]
    /\ UNCHANGED <<buffers, closed, flushCh, stopCh, signalling, batches, uploads,
                   accepted, rejected, stored, failed>>

LoopSignalled ==
    /\ pc[Loop] = "idle"
    /\ flushCh
    /\ flushCh' = FALSE
    /\ pc' = [pc EXCEPT ![Loop] = "flush"]
    /\ UNCHANGED <<buffers, closed, stopCh, signalling, batches, uploads,
                   accepted, rejected, stored, failed>>

LoopStop ==
    /\ pc[Loop] = "idle"
    /\ stopCh
    /\ pc' = [pc EXCEPT ![Loop] = "done"]
    /\ UNCHANGED <<buffers, closed, flushCh, stopCh, signalling, batches, uploads,
                   accepted, rejected, stored, failed>>

\* A goroutine other than the loop and Close calls the exported Flush.
FlushCall(g) ==
    /\ g \in FlushCallers
    /\ pc[g] = "idle"
    /\ pc' = [pc EXCEPT ![g] = "flush"]
    /\ UNCHANGED <<buffers, closed, flushCh, stopCh, signalling, batches, uploads,
                   accepted, rejected, stored, failed>>

-----------------------------------------------------------------------------
(* flushWithContext, run by any flusher                                    *)

\* What the snapshot leaves in the buffers.  Mutant: it copies and does not clear.
Remaining_All == buffers
Remaining == Empty

\* snapshotBatches: one critical section that takes every buffer.
SnapshotBatches(g) ==
    /\ pc[g] = "flush"
    /\ pc' = [pc EXCEPT ![g] = "spawn"]
    /\ batches' = [batches EXCEPT ![g] = buffers]
    /\ buffers' = Remaining
    /\ UNCHANGED <<closed, flushCh, stopCh, signalling, uploads,
                   accepted, rejected, stored, failed>>

\* Empty buffers are skipped.  Mutant: they are not.
ToUpload_Any(records) == TRUE
ToUpload(records) == records # {}

\* One turn of the range over the map: uploadWG.Add(1) and go.
SpawnUpload(g, s) ==
    /\ pc[g] = "spawn"
    /\ ToUpload(batches[g][s])
    /\ uploads' = uploads \cup {[status |-> s, recs |-> batches[g][s]]}
    /\ batches' = [batches EXCEPT ![g][s] = {}]
    /\ UNCHANGED <<buffers, closed, flushCh, stopCh, signalling, pc,
                   accepted, rejected, stored, failed>>

\* What a flusher does when flushWithContext returns.
AfterFlush(g) == IF g = Closer THEN "waitUploads" ELSE "idle"

FlushReturn(g) ==
    /\ pc[g] = "spawn"
    /\ batches[g] = Empty
    /\ pc' = [pc EXCEPT ![g] = AfterFlush(g)]
    /\ UNCHANGED <<buffers, closed, flushCh, stopCh, signalling, batches, uploads,
                   accepted, rejected, stored, failed>>

-----------------------------------------------------------------------------
(* The upload goroutine.  No deadline is set on its context, so Upload may *)
(* take any time.  On an error it puts the batch back under the lock; the  *)
(* records stay in its hands until then, so failing and requeueing are one *)
(* step.                                                                   *)

Put(u) == [stored EXCEPT ![u.status] = @ \cup u.recs]

\* requeue.  Mutants: it overwrites what arrived meanwhile; a failed batch is dropped.
Requeue_Overwrites(u) == [buffers EXCEPT ![u.status] = u.recs]
Requeue_Drops(u) == buffers

Requeue(u) == [buffers EXCEPT ![u.status] = u.recs \cup @]

UploadSucceeds(u) ==
    /\ u \in uploads
    /\ uploads' = uploads \ {u}
    /\ stored' = Put(u)
    /\ UNCHANGED <<buffers, closed, flushCh, stopCh, signalling, pc, batches,
                   accepted, rejected, failed>>

\* Compression, the object key, or the request failed before the bucket took
\* the object; or (applied) the object was written and only the answer was lost.
UploadFails(u, applied) ==
    /\ u \in uploads
    /\ uploads' = uploads \ {u}
    /\ stored' = IF applied THEN Put(u) ELSE stored
    /\ buffers' = Requeue(u)
    /\ failed' = failed \cup u.recs
    /\ UNCHANGED <<closed, flushCh, stopCh, signalling, pc, batches, accepted, rejected>>

-----------------------------------------------------------------------------
(* Close                                                                   *)

CloseBegin ==
    /\ pc[Closer] = "idle"
    /\ ~closed
    /\ closed' = TRUE
    /\ pc' = [pc EXCEPT ![Closer] = "stop"]
    /\ UNCHANGED <<buffers, flushCh, stopCh, signalling, batches, uploads,
                   accepted, rejected, stored, failed>>

\* The stop channel after close(b.stopCh).  Mutant: the call is missing.
Stopped_Never == stopCh
Stopped == TRUE

CloseStop ==
    /\ pc[Closer] = "stop"
    /\ stopCh' = Stopped
    /\ pc' = [pc EXCEPT ![Closer] = "waitLoop"]
    /\ UNCHANGED <<buffers, closed, flushCh, signalling, batches, uploads,
                   accepted, rejected, stored, failed>>

\* What Close does once the loop has ended.  Mutant: it does not flush again.
AfterLoop_NoFlush == "waitUploads"
AfterLoop == "flush"

\* loopWG.Wait returns.
CloseLoopDone ==
    /\ pc[Closer] = "waitLoop"
    /\ pc[Loop] = "done"
    /\ pc' = [pc EXCEPT ![Closer] = AfterLoop]
    /\ UNCHANGED <<buffers, closed, flushCh, stopCh, signalling, batches, uploads,
                   accepted, rejected, stored, failed>>

\* uploadWG.Wait.  Mutant: it is missing.
UploadsDone_Unwaited == TRUE
UploadsDone == uploads = {}

\* uploadWG.Wait returns and so does Close.
CloseReturn ==
    /\ pc[Closer] = "waitUploads"
    /\ UploadsDone
    /\ pc' = [pc EXCEPT ![Closer] = "returned"]
    /\ UNCHANGED <<buffers, closed, flushCh, stopCh, signalling, batches, uploads,
                   accepted, rejected, stored, failed>>

\* Not a step of the code: the only way this system may stop is after Close
\* returned with no caller left inside Enqueue.
Terminated ==
    /\ pc[Closer] = "returned"
    /\ signalling = {}
    /\ UNCHANGED vars

-----------------------------------------------------------------------------
UploadStep(u) == UploadSucceeds(u) \/ (\E applied \in BOOLEAN : UploadFails(u, applied))

FlushStep(g) ==
    \/ SnapshotBatches(g)
    \/ \E s \in Statuses : SpawnUpload(g, s)
    \/ FlushReturn(g)

CloseStep == CloseStop \/ CloseLoopDone \/ CloseReturn

Next ==
    \/ \E c \in Callers, s \in Statuses, r \in Records : Enqueue(c, s, r)
    \/ \E c \in Callers, r \in Records : EnqueueClosed(c, r)
    \/ \E c \in Callers : Signal(c)
    \/ LoopTick
    \/ LoopSignalled
    \/ LoopStop
    \/ \E g \in FlushCallers : FlushCall(g)
    \/ \E g \in Flushers : FlushStep(g)
    \/ \E u \in uploads : UploadStep(u)
    \/ CloseBegin
    \/ CloseStep
    \/ Terminated

Spec == Init /\ [][Next]_vars

Batch == [status : Statuses, recs : (SUBSET Records) \ {{}}]

\* What the Go scheduler, the ticker and a bounded HTTP client give: no runnable
\* goroutine waits for ever, the ticker fires, a random select does not starve
\* the stop channel, every Upload returns.
Progress ==
    /\ \A c \in Callers : WF_vars(Signal(c))
    /\ WF_vars(LoopTick)
    /\ SF_vars(LoopStop)
    /\ \A g \in Flushers : WF_vars(FlushStep(g))
    /\ WF_vars(CloseStep)
    /\ \A u \in Batch : WF_vars(UploadStep(u))

\* The environment assumption behind "the archive is retried until it works": a
\* batch uploaded again and again is taken at last.
StoreRecovers == \A s \in Statuses : SF_vars(\E u \in uploads : u.status = s /\ UploadSucceeds(u))

FairSpec == Spec /\ Progress

-----------------------------------------------------------------------------
(* Properties                                                              *)

TypeOK ==
    /\ buffers \in [Statuses -> SUBSET Records]
    /\ closed \in BOOLEAN
    /\ flushCh \in BOOLEAN
    /\ stopCh \in BOOLEAN
    /\ signalling \in SUBSET Callers
    /\ pc \in [Flushers -> {"idle", "flush", "spawn", "done", "stop", "waitLoop",
                            "waitUploads", "returned"}]
    /\ batches \in [Flushers -> [Statuses -> SUBSET Records]]
    /\ uploads \in SUBSET Batch
    /\ accepted \in [Statuses -> SUBSET Records]
    /\ rejected \in SUBSET Records
    /\ stored \in [Statuses -> SUBSET Records]
    /\ failed \in SUBSET Records

InFlight(s, r) == \E u \in uploads : u.status = s /\ r \in u.recs
InMemory(s, r) ==
    \/ r \in buffers[s]
    \/ \E g \in Flushers : r \in batches[g][s]
    \/ InFlight(s, r)

\* Every record for which Enqueue returned nil is in the bucket under its status
\* or still held by the archiver: buffer, local map of a flusher, or upload
\* goroutine.  Appending, snapshotting, spawning, failing and requeueing race
\* freely and none of them drops a record.
NothingLost ==
    \A s \in Statuses, r \in Records :
        r \in accepted[s] => r \in stored[s] \/ InMemory(s, r)

\* The archiver holds a record in one place only: a snapshot really takes the
\* records out of the buffers, and two goroutines never upload the same record
\* at the same time.
HeldOnce ==
    \A s, t \in Statuses, r \in Records :
        /\ \A g \in Flushers :
              r \in batches[g][s] =>
                 /\ r \notin buffers[t]
                 /\ ~InFlight(t, r)
                 /\ \A h \in Flushers : r \in batches[h][t] => h = g /\ t = s
        /\ InFlight(s, r) => r \notin buffers[t]
        /\ r \in buffers[s] /\ r \in buffers[t] => s = t
        /\ \A u, v \in uploads : r \in u.recs /\ r \in v.recs => u = v

\* A record already in the bucket is uploaded again only if the archiver was told
\* that an upload of it had failed: duplicates in the bucket come from lost
\* answers, never from the archiver's own bookkeeping.
RestoredOnlyAfterError ==
    \A s \in Statuses, r \in Records :
        r \in stored[s] /\ InMemory(s, r) => r \in failed

Requeued(s) == buffers[s] \cap failed # {}
FlushComing ==
    \/ flushCh
    \/ signalling # {}
    \/ pc[Loop] = "flush"
    \/ pc[Closer] \in {"stop", "waitLoop", "flush"}

\* A buffer that callers filled up to the batch size never waits for the ticker: a
\* flush is signalled, about to be signalled, about to take the snapshot, or Close
\* is about to flush.  The wake-up sent outside the lock, dropped when the slot is
\* taken, is never lost.  (A requeued batch does wait: requeue does not signal.)
NoStrandedBatch ==
    \A s \in Statuses :
        Cardinality(buffers[s]) >= BatchSize /\ ~Requeued(s) => FlushComing

\* When Close has returned, what is not in the bucket was in a batch whose upload
\* failed: no accepted record is left that nobody tried to store.
CloseDrains ==
    pc[Closer] = "returned" =>
        \A s \in Statuses : accepted[s] \subseteq stored[s] \cup failed

\* After Close has returned the archiver is quiet: no upload in flight, no flusher
\* holding a batch, and no step changes buffers or bucket again.
QuietAfterClose ==
    [][pc[Closer] = "returned" =>
         /\ uploads = {}
         /\ UNCHANGED <<buffers, batches, uploads, accepted, stored>>]_vars

\* Close terminates once called, however many uploads fail: it waits for uploads to
\* return, not for them to succeed.  Only a goroutine that goes on calling Flush can
\* keep it waiting.
CloseReturns ==
    closed ~> pc[Closer] = "returned" \/ \E g \in FlushCallers : pc[g] # "idle"

\* If the store recovers, an accepted record reaches the bucket unless Close comes
\* first: failed batches go back to the buffer and the ticker takes them again.
EventuallyStored ==
    StoreRecovers => \A s \in Statuses, r \in Records :
        r \in accepted[s] ~> (r \in stored[s] \/ closed)

ClosePhase ==
    IF ~closed THEN "open"
    ELSE IF pc[Closer] = "returned" THEN "closed" ELSE "closing"

Contract == INSTANCE ArchiveContract WITH phase <- ClosePhase, refused <- failed

\* The archiver implements its contract (when nobody calls Flush): every step is a
\* step of ArchiveContract or changes nothing a caller can see.
ImplementsContract == Contract!CSpec
=============================================================================
