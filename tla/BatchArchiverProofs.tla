------------------------- MODULE BatchArchiverProofs -------------------------
(***************************************************************************)
(* What holds of the batching archiver for every set of records, statuses, *)
(* callers and every batch size, proved with TLAPS.                        *)
(***************************************************************************)
EXTENDS BatchArchiver, FiniteSetTheorems, TLAPS

\* Names for single conditions and values of the actions.
USE DEF Full, Open, Sent, Remaining, ToUpload, Stopped, AfterLoop, UploadsDone

-----------------------------------------------------------------------------
(* Types                                                                   *)

\* Every step of every goroutine keeps the types.
LEMMA TypeStep == TypeOK /\ [Next]_vars => TypeOK'
<1> SUFFICES ASSUME TypeOK, [Next]_vars
             PROVE  TypeOK'
  OBVIOUS
<1> USE DEF TypeOK, Batch
<1>1. ASSUME NEW c \in Callers, NEW s \in Statuses, NEW r \in Records, Enqueue(c, s, r)
      PROVE  TypeOK'
  BY <1>1 DEF Enqueue
<1>2. ASSUME NEW c \in Callers, NEW r \in Records, EnqueueClosed(c, r)
      PROVE  TypeOK'
  BY <1>2 DEF EnqueueClosed
<1>3. ASSUME NEW c \in Callers, Signal(c)
      PROVE  TypeOK'
  BY <1>3 DEF Signal
<1>4. CASE LoopTick
  BY <1>4 DEF LoopTick
<1>5. CASE LoopSignalled
  BY <1>5 DEF LoopSignalled
<1>6. CASE LoopStop
  BY <1>6 DEF LoopStop
<1>7. ASSUME NEW g \in FlushCallers, FlushCall(g)
      PROVE  TypeOK'
  BY <1>7 DEF FlushCall
<1>8. ASSUME NEW g \in Flushers, SnapshotBatches(g)
      PROVE  TypeOK'
  BY <1>8 DEF SnapshotBatches, Empty
<1>9. ASSUME NEW g \in Flushers, NEW s \in Statuses, SpawnUpload(g, s)
      PROVE  TypeOK'
  <2>1. batches[g][s] \in SUBSET Records
    OBVIOUS
  <2>2. [batches EXCEPT ![g][s] = {}] \in [Flushers -> [Statuses -> SUBSET Records]]
    OBVIOUS
  <2>3. uploads' \in SUBSET Batch
    <3>1. batches[g][s] \in (SUBSET Records) \ {{}}
      BY <1>9, <2>1 DEF SpawnUpload
    <3>2. [status |-> s, recs |-> batches[g][s]] \in Batch
      BY <3>1
    <3> QED BY <1>9, <3>2 DEF SpawnUpload
  <2> QED BY <1>9, <2>2, <2>3 DEF SpawnUpload
<1>10. ASSUME NEW g \in Flushers, FlushReturn(g)
       PROVE  TypeOK'
  BY <1>10 DEF FlushReturn, AfterFlush
<1>11. ASSUME NEW u \in uploads, UploadSucceeds(u)
       PROVE  TypeOK'
  <2>1. Put(u) \in [Statuses -> SUBSET Records]
    BY DEF Put
  <2> QED BY <1>11, <2>1 DEF UploadSucceeds
<1>12. ASSUME NEW u \in uploads, NEW applied \in BOOLEAN, UploadFails(u, applied)
       PROVE  TypeOK'
  <2>1. Put(u) \in [Statuses -> SUBSET Records] /\ Requeue(u) \in [Statuses -> SUBSET Records]
    BY DEF Put, Requeue
  <2> QED BY <1>12, <2>1 DEF UploadFails
<1>13. CASE CloseBegin
  BY <1>13 DEF CloseBegin
<1>14. CASE CloseStop
  BY <1>14 DEF CloseStop
<1>15. CASE CloseLoopDone
  BY <1>15 DEF CloseLoopDone
<1>16. CASE CloseReturn
  BY <1>16 DEF CloseReturn
<1>17. CASE Terminated \/ UNCHANGED vars
  BY <1>17 DEF Terminated, vars
<1> QED
  BY <1>1, <1>2, <1>3, <1>4, <1>5, <1>6, <1>7, <1>8, <1>9, <1>10, <1>11, <1>12, <1>13,
     <1>14, <1>15, <1>16, <1>17
  DEF Next, FlushStep, UploadStep, CloseStep

\* The variables keep their types (the struct at archiver.go:25-41).
THEOREM TypeCorrect == Spec => []TypeOK
<1>1. Init => TypeOK
  BY DEF Init, TypeOK, Empty, Batch
<1> QED BY <1>1, TypeStep, PTL DEF Spec

-----------------------------------------------------------------------------
(* Records: none lost, none held twice                                     *)

\* The local map of flushWithContext exists only between snapshotBatches and the
\* end of its range loop.
MapOnlyWhileSpawning == \A g \in Flushers : pc[g] # "spawn" => batches[g] = Empty

\* A record was accepted under one status only.
AcceptedOnce ==
    \A s, t \in Statuses, r \in Records : r \in accepted[s] /\ r \in accepted[t] => s = t

\* The archiver holds accepted records only, each under the status it came with.
HeldAccepted ==
    \A s \in Statuses, r \in Records : InMemory(s, r) => r \in accepted[s]

\* The inductive invariant behind NothingLost and HeldOnce.
RecordInv ==
    TypeOK /\ MapOnlyWhileSpawning /\ NothingLost /\ AcceptedOnce /\ HeldAccepted /\ HeldOnce

\* The five steps that move records; all the others leave them where they are.
LEMMA RecordSteps ==
    ASSUME [Next]_vars
    PROVE  \/ \E c \in Callers, s \in Statuses, r \in Records : Enqueue(c, s, r)
           \/ \E g \in Flushers : SnapshotBatches(g)
           \/ \E g \in Flushers, s \in Statuses : SpawnUpload(g, s)
           \/ \E u \in uploads : UploadSucceeds(u)
           \/ \E u \in uploads, applied \in BOOLEAN : UploadFails(u, applied)
           \/ UNCHANGED <<buffers, batches, uploads, accepted, stored>>
  BY DEF Next, vars, FlushStep, UploadStep, CloseStep, EnqueueClosed, Signal, LoopTick,
         LoopSignalled, LoopStop, FlushCall, FlushReturn, CloseBegin, CloseStop,
         CloseLoopDone, CloseReturn, Terminated

\* A flusher enters "spawn" only through snapshotBatches and leaves it with an
\* empty map.
LEMMA MapStep ==
    TypeOK /\ MapOnlyWhileSpawning /\ [Next]_vars => MapOnlyWhileSpawning'
<1> SUFFICES ASSUME TypeOK, MapOnlyWhileSpawning, [Next]_vars,
                    NEW h \in Flushers, pc'[h] # "spawn"
             PROVE  batches'[h] = Empty
  BY DEF MapOnlyWhileSpawning
<1> USE DEF TypeOK, MapOnlyWhileSpawning
<1>1. ASSUME NEW g \in Flushers, SnapshotBatches(g)
      PROVE  batches'[h] = Empty
  BY <1>1 DEF SnapshotBatches
<1>2. ASSUME NEW g \in Flushers, NEW s \in Statuses, SpawnUpload(g, s)
      PROVE  batches'[h] = Empty
  BY <1>2 DEF SpawnUpload
<1>3. ASSUME NEW g \in Flushers, FlushReturn(g)
      PROVE  batches'[h] = Empty
  BY <1>3 DEF FlushReturn, AfterFlush
<1>4. ASSUME UNCHANGED batches, pc[h] # "spawn"
      PROVE  batches'[h] = Empty
  BY <1>4
<1> QED
  BY <1>1, <1>2, <1>3, <1>4
  DEF Next, vars, FlushStep, UploadStep, CloseStep, Enqueue, EnqueueClosed, Signal, LoopTick,
      LoopSignalled, LoopStop, FlushCall, UploadSucceeds, UploadFails, CloseBegin, CloseStop,
      CloseLoopDone, CloseReturn, Terminated

\* No step loses an accepted record.
LEMMA NothingLostStep ==
    TypeOK /\ MapOnlyWhileSpawning /\ NothingLost /\ [Next]_vars => NothingLost'
<1> SUFFICES ASSUME TypeOK, MapOnlyWhileSpawning, NothingLost, [Next]_vars,
                    NEW t \in Statuses, NEW x \in Records, x \in accepted'[t]
             PROVE  x \in stored'[t] \/ InMemory(t, x)'
  BY DEF NothingLost
<1> USE DEF TypeOK, Batch
<1>1. ASSUME NEW c \in Callers, NEW s \in Statuses, NEW r \in Records, Enqueue(c, s, r)
      PROVE  x \in stored'[t] \/ InMemory(t, x)'
  <2>1. CASE x \in accepted[t]
    BY <1>1, <2>1 DEF Enqueue, NothingLost, InMemory, InFlight
  <2>2. CASE x \notin accepted[t]
    BY <1>1, <2>2 DEF Enqueue, InMemory
  <2> QED BY <2>1, <2>2
<1>2. ASSUME NEW g \in Flushers, SnapshotBatches(g)
      PROVE  x \in stored'[t] \/ InMemory(t, x)'
  BY <1>2 DEF SnapshotBatches, MapOnlyWhileSpawning, NothingLost, InMemory, InFlight, Empty
<1>3. ASSUME NEW g \in Flushers, NEW s \in Statuses, SpawnUpload(g, s)
      PROVE  x \in stored'[t] \/ InMemory(t, x)'
  <2>1. CASE t = s /\ x \in batches[g][s]
    <3> DEFINE u == [status |-> s, recs |-> batches[g][s]]
    <3>1. u \in uploads' /\ u.status = t /\ x \in u.recs
      BY <1>3, <2>1 DEF SpawnUpload
    <3> QED BY <3>1 DEF InMemory, InFlight
  <2>2. CASE ~(t = s /\ x \in batches[g][s])
    BY <1>3, <2>2 DEF SpawnUpload, NothingLost, InMemory, InFlight
  <2> QED BY <2>1, <2>2
<1>4. ASSUME NEW u \in uploads, UploadSucceeds(u)
      PROVE  x \in stored'[t] \/ InMemory(t, x)'
  BY <1>4 DEF UploadSucceeds, Put, NothingLost, InMemory, InFlight
<1>5. ASSUME NEW u \in uploads, NEW applied \in BOOLEAN, UploadFails(u, applied)
      PROVE  x \in stored'[t] \/ InMemory(t, x)'
  <2>1. stored[t] \subseteq stored'[t]
    BY <1>5 DEF UploadFails, Put
  <2>2. buffers[t] \subseteq buffers'[t]
    BY <1>5 DEF UploadFails, Requeue
  <2>3. t = u.status => u.recs \subseteq buffers'[t]
    BY <1>5 DEF UploadFails, Requeue
  <2> QED BY <1>5, <2>1, <2>2, <2>3 DEF UploadFails, NothingLost, InMemory, InFlight
<1>6. CASE UNCHANGED <<buffers, batches, uploads, accepted, stored>>
  BY <1>6 DEF NothingLost, InMemory, InFlight
<1> QED BY <1>1, <1>2, <1>3, <1>4, <1>5, <1>6, RecordSteps

\* A record is accepted once: tokens are fresh.
LEMMA AcceptedOnceStep == TypeOK /\ AcceptedOnce /\ [Next]_vars => AcceptedOnce'
<1> SUFFICES ASSUME TypeOK, AcceptedOnce, [Next]_vars
             PROVE  AcceptedOnce'
  OBVIOUS
<1>1. ASSUME NEW c \in Callers, NEW s \in Statuses, NEW r \in Records, Enqueue(c, s, r)
      PROVE  AcceptedOnce'
  <2>1. \A t \in Statuses : r \notin accepted[t]
    BY <1>1 DEF Enqueue, Used
  <2> QED BY <1>1, <2>1 DEF Enqueue, AcceptedOnce, TypeOK
<1>2. CASE UNCHANGED accepted
  BY <1>2 DEF AcceptedOnce
<1> QED
  BY <1>1, <1>2, RecordSteps DEF SnapshotBatches, SpawnUpload, UploadSucceeds, UploadFails

\* No step puts a record where it does not belong.
LEMMA HeldAcceptedStep == TypeOK /\ HeldAccepted /\ [Next]_vars => HeldAccepted'
<1> SUFFICES ASSUME TypeOK, HeldAccepted, [Next]_vars,
                    NEW t \in Statuses, NEW x \in Records, InMemory(t, x)'
             PROVE  x \in accepted'[t]
  BY DEF HeldAccepted
<1> USE DEF TypeOK, Batch
<1>1. ASSUME NEW c \in Callers, NEW s \in Statuses, NEW r \in Records, Enqueue(c, s, r)
      PROVE  x \in accepted'[t]
  <2>1. InMemory(t, x) \/ (t = s /\ x = r)
    BY <1>1 DEF Enqueue, InMemory, InFlight
  <2> QED BY <1>1, <2>1 DEF Enqueue, HeldAccepted
<1>2. ASSUME NEW g \in Flushers, SnapshotBatches(g)
      PROVE  x \in accepted'[t]
  <2>1. InMemory(t, x)
    BY <1>2 DEF SnapshotBatches, InMemory, InFlight, Empty
  <2> QED BY <1>2, <2>1 DEF SnapshotBatches, HeldAccepted
<1>3. ASSUME NEW g \in Flushers, NEW s \in Statuses, SpawnUpload(g, s)
      PROVE  x \in accepted'[t]
  <2>1. InMemory(t, x)
    <3>1. CASE x \in buffers'[t]
      BY <1>3, <3>1 DEF SpawnUpload, InMemory
    <3>2. ASSUME NEW h \in Flushers, x \in batches'[h][t]
          PROVE  InMemory(t, x)
      BY <1>3, <3>2 DEF SpawnUpload, InMemory
    <3>3. ASSUME NEW u \in uploads', u.status = t, x \in u.recs
          PROVE  InMemory(t, x)
      BY <1>3, <3>3 DEF SpawnUpload, InMemory, InFlight
    <3> QED BY <3>1, <3>2, <3>3 DEF InMemory, InFlight
  <2> QED BY <1>3, <2>1 DEF SpawnUpload, HeldAccepted
<1>4. ASSUME NEW u \in uploads, UploadSucceeds(u)
      PROVE  x \in accepted'[t]
  <2>1. InMemory(t, x)
    BY <1>4 DEF UploadSucceeds, InMemory, InFlight
  <2> QED BY <1>4, <2>1 DEF UploadSucceeds, HeldAccepted
<1>5. ASSUME NEW u \in uploads, NEW applied \in BOOLEAN, UploadFails(u, applied)
      PROVE  x \in accepted'[t]
  <2>1. InMemory(t, x)
    BY <1>5 DEF UploadFails, Requeue, InMemory, InFlight
  <2> QED BY <1>5, <2>1 DEF UploadFails, HeldAccepted
<1>6. CASE UNCHANGED <<buffers, batches, uploads, accepted, stored>>
  BY <1>6 DEF HeldAccepted, InMemory, InFlight
<1> QED BY <1>1, <1>2, <1>3, <1>4, <1>5, <1>6, RecordSteps

\* A record is never in two places: it moves from buffer to map to upload and back.
LEMMA HeldOnceStep ==
    TypeOK /\ MapOnlyWhileSpawning /\ HeldAccepted /\ HeldOnce /\ [Next]_vars => HeldOnce'
<1> SUFFICES ASSUME TypeOK, MapOnlyWhileSpawning, HeldAccepted, HeldOnce, [Next]_vars,
                    NEW p \in Statuses, NEW q \in Statuses, NEW x \in Records
             PROVE  /\ \A f \in Flushers :
                          x \in batches'[f][p] =>
                             /\ x \notin buffers'[q]
                             /\ ~InFlight(q, x)'
                             /\ \A h \in Flushers : x \in batches'[h][q] => h = f /\ q = p
                    /\ InFlight(p, x)' => x \notin buffers'[q]
                    /\ x \in buffers'[p] /\ x \in buffers'[q] => p = q
                    /\ \A u, v \in uploads' : x \in u.recs /\ x \in v.recs => u = v
  BY DEF HeldOnce
<1> DEFINE Goal == /\ \A f \in Flushers :
                          x \in batches'[f][p] =>
                             /\ x \notin buffers'[q]
                             /\ ~InFlight(q, x)'
                             /\ \A h \in Flushers : x \in batches'[h][q] => h = f /\ q = p
                   /\ InFlight(p, x)' => x \notin buffers'[q]
                   /\ x \in buffers'[p] /\ x \in buffers'[q] => p = q
                   /\ \A u, v \in uploads' : x \in u.recs /\ x \in v.recs => u = v
<1> USE DEF TypeOK, Batch, InFlight
<1>1. ASSUME NEW c \in Callers, NEW s \in Statuses, NEW r \in Records, Enqueue(c, s, r)
      PROVE  Goal
  <2>1. CASE x = r
    <3>1. \A t \in Statuses : ~InMemory(t, x)
      BY <1>1, <2>1 DEF Enqueue, Used, HeldAccepted
    <3> QED BY <1>1, <2>1, <3>1 DEF Enqueue, InMemory
  <2>2. CASE x # r
    BY <1>1, <2>2 DEF Enqueue, HeldOnce
  <2> QED BY <2>1, <2>2
<1>2. ASSUME NEW g \in Flushers, SnapshotBatches(g)
      PROVE  Goal
  <2>1. batches[g] = Empty
    BY <1>2 DEF SnapshotBatches, MapOnlyWhileSpawning
  <2> QED BY <1>2, <2>1 DEF SnapshotBatches, HeldOnce, Empty
<1>3. ASSUME NEW g \in Flushers, NEW s \in Statuses, SpawnUpload(g, s)
      PROVE  Goal
  <2> DEFINE w == [status |-> s, recs |-> batches[g][s]]
  <2>1. /\ uploads' = uploads \cup {w}
        /\ buffers' = buffers
        /\ \A h \in Flushers, t \in Statuses :
              batches'[h][t] = IF h = g /\ t = s THEN {} ELSE batches[h][t]
    BY <1>3 DEF SpawnUpload
  <2>2. w.status = s /\ w.recs = batches[g][s]
    OBVIOUS
  <2> HIDE DEF w
  <2>3. CASE x \in batches[g][s]
    BY <2>1, <2>2, <2>3 DEF HeldOnce
  <2>4. CASE x \notin batches[g][s]
    BY <2>1, <2>2, <2>4 DEF HeldOnce
  <2> QED BY <2>3, <2>4
<1>4. ASSUME NEW u \in uploads, UploadSucceeds(u)
      PROVE  Goal
  BY <1>4 DEF UploadSucceeds, HeldOnce
<1>5. ASSUME NEW u \in uploads, NEW applied \in BOOLEAN, UploadFails(u, applied)
      PROVE  Goal
  <2>1. /\ uploads' = uploads \ {u}
        /\ batches' = batches
        /\ \A t \in Statuses :
              buffers'[t] = IF t = u.status THEN u.recs \cup buffers[t] ELSE buffers[t]
    BY <1>5 DEF UploadFails, Requeue
  <2>2. CASE x \in u.recs
    BY <2>1, <2>2 DEF HeldOnce
  <2>3. CASE x \notin u.recs
    <3>1. \A t \in Statuses : x \in buffers'[t] <=> x \in buffers[t]
      BY <2>1, <2>3
    <3> QED BY <2>1, <3>1 DEF HeldOnce
  <2> QED BY <2>2, <2>3
<1>6. CASE UNCHANGED <<buffers, batches, uploads, accepted, stored>>
  BY <1>6 DEF HeldOnce
<1> QED BY <1>1, <1>2, <1>3, <1>4, <1>5, <1>6, RecordSteps

\* The archiver's records are where they should be in every reachable state.
LEMMA RecordInvariant == Spec => []RecordInv
<1>1. Init => RecordInv
  BY DEF Init, RecordInv, TypeOK, MapOnlyWhileSpawning, NothingLost, AcceptedOnce,
         HeldAccepted, HeldOnce, InMemory, InFlight, Empty
<1>2. RecordInv /\ [Next]_vars => RecordInv'
  BY TypeStep, MapStep, NothingLostStep, AcceptedOnceStep, HeldAcceptedStep, HeldOnceStep
  DEF RecordInv
<1> QED BY <1>1, <1>2, PTL DEF Spec

\* No interleaving of callers, flushers and upload goroutines loses a record for
\* which Enqueue returned nil (archiver.go:77-103, 144-205).
THEOREM NothingEverLost == Spec => []NothingLost
BY RecordInvariant, PTL DEF RecordInv

\* No record is ever in two buffers, maps or uploads at the same time
\* (archiver.go:144-205).
THEOREM AlwaysHeldOnce == Spec => []HeldOnce
BY RecordInvariant, PTL DEF RecordInv

-----------------------------------------------------------------------------
(* Duplicates in the bucket                                                *)

\* The bucket holds accepted records only, under the status they came with.
StoredAccepted == \A s \in Statuses, r \in Records : r \in stored[s] => r \in accepted[s]

RestoreInv == RecordInv /\ StoredAccepted /\ RestoredOnlyAfterError

\* Only a fresh record, an upload or a move between places can touch the two facts.
LEMMA RestoreStep ==
    RestoreInv /\ [Next]_vars => StoredAccepted' /\ RestoredOnlyAfterError'
<1> SUFFICES ASSUME RestoreInv, [Next]_vars, NEW t \in Statuses, NEW x \in Records,
                    x \in stored'[t]
             PROVE  x \in accepted'[t] /\ (InMemory(t, x)' => x \in failed')
  BY DEF StoredAccepted, RestoredOnlyAfterError
<1> DEFINE Goal == x \in accepted'[t] /\ (InMemory(t, x)' => x \in failed')
<1> USE DEF RestoreInv, RecordInv, TypeOK, Batch
<1>1. ASSUME NEW c \in Callers, NEW s \in Statuses, NEW r \in Records, Enqueue(c, s, r)
      PROVE  Goal
  <2>1. x # r
    BY <1>1 DEF Enqueue, Used, StoredAccepted
  <2>2. InMemory(t, x)' => InMemory(t, x)
    BY <1>1, <2>1 DEF Enqueue, InMemory, InFlight
  <2> QED BY <1>1, <2>1, <2>2 DEF Enqueue, StoredAccepted, RestoredOnlyAfterError
<1>2. ASSUME NEW g \in Flushers, SnapshotBatches(g)
      PROVE  Goal
  <2>1. InMemory(t, x)' => InMemory(t, x)
    BY <1>2 DEF SnapshotBatches, InMemory, InFlight, Empty
  <2> QED BY <1>2, <2>1 DEF SnapshotBatches, StoredAccepted, RestoredOnlyAfterError
<1>3. ASSUME NEW g \in Flushers, NEW s \in Statuses, SpawnUpload(g, s)
      PROVE  Goal
  <2>1. InMemory(t, x)' => InMemory(t, x)
    <3>1. ASSUME NEW h \in Flushers, x \in batches'[h][t]
          PROVE  InMemory(t, x)
      BY <1>3, <3>1 DEF SpawnUpload, InMemory
    <3>2. ASSUME NEW u \in uploads', u.status = t, x \in u.recs
          PROVE  InMemory(t, x)
      BY <1>3, <3>2 DEF SpawnUpload, InMemory, InFlight
    <3>3. x \in buffers'[t] => InMemory(t, x)
      BY <1>3 DEF SpawnUpload, InMemory
    <3> QED BY <3>1, <3>2, <3>3 DEF InMemory, InFlight
  <2> QED BY <1>3, <2>1 DEF SpawnUpload, StoredAccepted, RestoredOnlyAfterError
<1>4. ASSUME NEW u \in uploads, UploadSucceeds(u)
      PROVE  Goal
  <2>1. CASE t = u.status /\ x \in u.recs
    <3>1. InFlight(t, x)
      BY <2>1 DEF InFlight
    <3>2. x \in accepted[t]
      BY <3>1 DEF HeldAccepted, InMemory
    <3>3. ~InMemory(t, x)'
      BY <1>4, <2>1, <3>1 DEF UploadSucceeds, HeldOnce, InMemory, InFlight
    <3> QED BY <1>4, <3>2, <3>3 DEF UploadSucceeds
  <2>2. CASE ~(t = u.status /\ x \in u.recs)
    <3>1. x \in stored[t]
      BY <1>4, <2>2 DEF UploadSucceeds, Put
    <3>2. InMemory(t, x)' => InMemory(t, x)
      BY <1>4 DEF UploadSucceeds, InMemory, InFlight
    <3> QED
      BY <1>4, <3>1, <3>2 DEF UploadSucceeds, StoredAccepted, RestoredOnlyAfterError
  <2> QED BY <2>1, <2>2
<1>5. ASSUME NEW u \in uploads, NEW applied \in BOOLEAN, UploadFails(u, applied)
      PROVE  Goal
  <2>1. CASE t = u.status /\ x \in u.recs
    <3>1. x \in accepted[t]
      BY <2>1 DEF HeldAccepted, InMemory, InFlight
    <3> QED BY <1>5, <2>1, <3>1 DEF UploadFails
  <2>2. CASE ~(t = u.status /\ x \in u.recs)
    <3>1. x \in stored[t]
      BY <1>5, <2>2 DEF UploadFails, Put
    <3>2. InMemory(t, x)' => InMemory(t, x)
      BY <1>5, <2>2 DEF UploadFails, Requeue, InMemory, InFlight
    <3> QED BY <1>5, <3>1, <3>2 DEF UploadFails, StoredAccepted, RestoredOnlyAfterError
  <2> QED BY <2>1, <2>2
<1>6. CASE UNCHANGED <<buffers, batches, uploads, accepted, stored>>
  <2>1. failed \subseteq failed'
    BY DEF Next, vars, FlushStep, UploadStep, CloseStep, Enqueue, EnqueueClosed, Signal,
           LoopTick, LoopSignalled, LoopStop, FlushCall, SnapshotBatches, SpawnUpload,
           FlushReturn, UploadSucceeds, UploadFails, CloseBegin, CloseStop, CloseLoopDone,
           CloseReturn, Terminated
  <2> QED BY <1>6, <2>1 DEF StoredAccepted, RestoredOnlyAfterError, InMemory, InFlight
<1> QED BY <1>1, <1>2, <1>3, <1>4, <1>5, <1>6, RecordSteps

\* A record in the bucket is in memory again only after an upload of it was
\* reported to have failed (archiver.go:144-158, 196-205).
THEOREM DuplicatesOnlyAfterError == Spec => []RestoredOnlyAfterError
<1>1. Init => StoredAccepted /\ RestoredOnlyAfterError
  BY DEF Init, StoredAccepted, RestoredOnlyAfterError, Empty
<1>2. RestoreInv /\ [Next]_vars /\ RecordInv' => RestoreInv'
  BY RestoreStep DEF RestoreInv
<1>3. RecordInv /\ StoredAccepted /\ RestoredOnlyAfterError => RestoreInv
  BY DEF RestoreInv
<1>4. RestoreInv => RestoredOnlyAfterError
  BY DEF RestoreInv
<1> QED BY <1>1, <1>2, <1>3, <1>4, RecordInvariant, PTL DEF Spec

-----------------------------------------------------------------------------
(* The wake-up                                                             *)

\* A full buffer always has a flush coming to it.
LEMMA StrandedStep ==
    TypeOK /\ NoStrandedBatch /\ [Next]_vars => NoStrandedBatch'
<1> SUFFICES ASSUME TypeOK, NoStrandedBatch, [Next]_vars, NEW t \in Statuses,
                    Cardinality(buffers'[t]) >= BatchSize, ~Requeued(t)'
             PROVE  FlushComing'
  BY DEF NoStrandedBatch
<1> USE DEF TypeOK, Batch, FlushComing, Requeued, Loop, Closer, Flushers
<1>1. ASSUME NEW c \in Callers, NEW s \in Statuses, NEW r \in Records, Enqueue(c, s, r)
      PROVE  FlushComing'
  <2>1. CASE t = s
    BY <1>1, <2>1 DEF Enqueue
  <2>2. CASE t # s
    <3>1. buffers'[t] = buffers[t]
      BY <1>1, <2>2 DEF Enqueue
    <3>2. FlushComing
      BY <1>1, <3>1 DEF Enqueue, NoStrandedBatch
    <3> QED BY <1>1, <3>2 DEF Enqueue
  <2> QED BY <2>1, <2>2
<1>2. ASSUME NEW g \in Flushers, SnapshotBatches(g)
      PROVE  FlushComing'
  <2>1. buffers'[t] = {}
    BY <1>2 DEF SnapshotBatches, Empty
  <2>2. Cardinality(buffers'[t]) = 0
    BY <2>1, FS_EmptySet
  <2> QED BY <2>2, BatchSizePositive
<1>3. ASSUME NEW u \in uploads, NEW applied \in BOOLEAN, UploadFails(u, applied)
      PROVE  FlushComing'
  <2>1. buffers'[t] = buffers[t]
    <3>1. t = u.status => u.recs = {}
      BY <1>3 DEF UploadFails, Requeue
    <3> QED BY <1>3, <3>1 DEF UploadFails, Requeue
  <2>2. ~Requeued(t)
    BY <1>3, <2>1 DEF UploadFails
  <2> QED BY <1>3, <2>1, <2>2 DEF UploadFails, NoStrandedBatch
<1>4. ASSUME UNCHANGED <<buffers, failed>>
      PROVE  FlushComing
  BY <1>4 DEF NoStrandedBatch
<1>5. ASSUME NEW c \in Callers, Signal(c)
      PROVE  FlushComing'
  BY <1>5 DEF Signal
<1>6. CASE LoopTick \/ LoopSignalled \/ LoopStop
  BY <1>4, <1>6 DEF LoopTick, LoopSignalled, LoopStop
<1>7. ASSUME NEW g \in FlushCallers, FlushCall(g)
      PROVE  FlushComing'
  BY <1>4, <1>7, FlushCallersDistinct DEF FlushCall
<1>8. ASSUME NEW g \in Flushers, FlushReturn(g)
      PROVE  FlushComing'
  BY <1>4, <1>8 DEF FlushReturn, AfterFlush
<1>9. CASE CloseBegin \/ CloseStop \/ CloseLoopDone \/ CloseReturn
  BY <1>4, <1>9 DEF CloseBegin, CloseStop, CloseLoopDone, CloseReturn
<1>10. CASE UNCHANGED <<buffers, failed, flushCh, signalling, pc>>
  BY <1>4, <1>10
<1> QED
  BY <1>1, <1>2, <1>3, <1>5, <1>6, <1>7, <1>8, <1>9, <1>10
  DEF Next, vars, FlushStep, UploadStep, CloseStep, EnqueueClosed, SpawnUpload,
      UploadSucceeds, Terminated

\* A batch that callers filled is never left for the ticker: no interleaving of the
\* unlocked send, the loop and Close loses the wake-up (archiver.go:92-100, 126-142).
THEOREM NoWakeUpLost == Spec => []NoStrandedBatch
<1>1. Init => NoStrandedBatch
  BY FS_EmptySet, BatchSizePositive DEF Init, NoStrandedBatch, Empty
<1>2. TypeOK /\ NoStrandedBatch /\ [Next]_vars => NoStrandedBatch'
  BY StrandedStep
<1> QED BY <1>1, <1>2, TypeCorrect, PTL DEF Spec

-----------------------------------------------------------------------------
(* Close, in the program as it is: only the loop and Close flush           *)

\* How far Close is decides what the loop, the maps, the buffers and the uploads
\* can still hold.
CloseInv ==
    /\ pc[Loop] \in {"idle", "flush", "spawn", "done"}
    /\ pc[Closer] # "done"
    /\ closed <=> pc[Closer] # "idle"
    /\ pc[Closer] \in {"flush", "spawn", "waitUploads", "returned"} => pc[Loop] = "done"
    /\ pc[Closer] \in {"spawn", "waitUploads", "returned"} =>
          \A s \in Statuses : buffers[s] \subseteq failed
    /\ pc[Closer] = "returned" => uploads = {}

LEMMA CloseInvStep ==
    ASSUME FlushCallers = {}, TypeOK, MapOnlyWhileSpawning, CloseInv, [Next]_vars
    PROVE  CloseInv'
<1> USE DEF TypeOK, CloseInv, Loop, Closer, Flushers
<1>1. ASSUME NEW c \in Callers, NEW s \in Statuses, NEW r \in Records, Enqueue(c, s, r)
      PROVE  CloseInv'
  BY <1>1 DEF Enqueue
<1>2. CASE LoopTick \/ LoopSignalled \/ LoopStop
  BY <1>2 DEF LoopTick, LoopSignalled, LoopStop
<1>3. ASSUME NEW g \in Flushers, SnapshotBatches(g)
      PROVE  CloseInv'
  BY <1>3 DEF SnapshotBatches, Empty
<1>4. ASSUME NEW g \in Flushers, NEW s \in Statuses, SpawnUpload(g, s)
      PROVE  CloseInv'
  BY <1>4 DEF SpawnUpload
<1>5. ASSUME NEW g \in Flushers, FlushReturn(g)
      PROVE  CloseInv'
  BY <1>5 DEF FlushReturn, AfterFlush
<1>6. ASSUME NEW u \in uploads, UploadSucceeds(u)
      PROVE  CloseInv'
  BY <1>6 DEF UploadSucceeds
<1>7. ASSUME NEW u \in uploads, NEW applied \in BOOLEAN, UploadFails(u, applied)
      PROVE  CloseInv'
  BY <1>7 DEF UploadFails, Requeue
<1>8. CASE CloseBegin \/ CloseStop \/ CloseLoopDone \/ CloseReturn
  BY <1>8 DEF CloseBegin, CloseStop, CloseLoopDone, CloseReturn
<1>9. CASE UNCHANGED <<buffers, closed, pc, uploads, failed>>
  BY <1>9
<1> QED
  BY <1>1, <1>2, <1>3, <1>4, <1>5, <1>6, <1>7, <1>8, <1>9
  DEF Next, vars, FlushStep, UploadStep, CloseStep, EnqueueClosed, Signal, FlushCall, Terminated

LEMMA CloseInvariant == ASSUME FlushCallers = {} PROVE Spec => []CloseInv
<1>1. Init => CloseInv
  BY DEF Init, CloseInv, Flushers
<1>2. RecordInv /\ CloseInv /\ [Next]_vars => CloseInv'
  BY CloseInvStep DEF RecordInv
<1> QED BY <1>1, <1>2, RecordInvariant, PTL DEF Spec

\* When Close has returned, every accepted record is in the bucket or was in a
\* batch whose upload failed (archiver.go:109-124).
THEOREM CloseDrainsAll == ASSUME FlushCallers = {} PROVE Spec => []CloseDrains
<1>1. RecordInv /\ CloseInv => CloseDrains
  <2> SUFFICES ASSUME RecordInv, CloseInv, pc[Closer] = "returned",
                      NEW s \in Statuses, NEW r \in accepted[s]
               PROVE  r \in stored[s] \cup failed
    BY DEF CloseDrains
  <2> USE DEF RecordInv, CloseInv, TypeOK, Flushers, Loop, Closer
  <2>1. r \in stored[s] \/ InMemory(s, r)
    BY DEF NothingLost
  <2>2. \A g \in Flushers : batches[g] = Empty
    BY DEF MapOnlyWhileSpawning
  <2> QED BY <2>1, <2>2 DEF InMemory, InFlight, Empty
<1> QED BY <1>1, RecordInvariant, CloseInvariant, PTL

\* After Close has returned no goroutine of the archiver does anything
\* (archiver.go:109-124, 144-158).
THEOREM QuietOnceClosed == ASSUME FlushCallers = {} PROVE Spec => QuietAfterClose
<1>1. ASSUME RecordInv, CloseInv, [Next]_vars, pc[Closer] = "returned"
      PROVE  uploads = {} /\ UNCHANGED <<buffers, batches, uploads, accepted, stored>>
  BY <1>1, RecordSteps
  DEF CloseInv, Enqueue, SnapshotBatches, SpawnUpload, Flushers, Loop, Closer
<1> QED BY <1>1, RecordInvariant, CloseInvariant, PTL DEF Spec, QuietAfterClose

-----------------------------------------------------------------------------
(* What Close waits for                                                    *)

\* The guards of FlushStep(g): the map is ranged over to its end.
FlushReady(g) ==
    \/ pc[g] = "flush"
    \/ pc[g] = "spawn" /\ (batches[g] = Empty \/ \E s \in Statuses : batches[g][s] # {})

\* The loop can go on, and from its select it can see that stopCh is closed.
LoopReady == FlushReady(Loop) \/ (pc[Loop] = "idle" /\ stopCh)

CloseReady ==
    \/ pc[Closer] = "stop"
    \/ pc[Closer] = "waitLoop" /\ pc[Loop] = "done"
    \/ FlushReady(Closer)
    \/ pc[Closer] = "waitUploads" /\ uploads = {}

\* Close is not over: it can go on, or the loop or the upload that it waits for can.
CloseNotStuck ==
    pc[Closer] \notin {"idle", "returned"} =>
        \/ CloseReady
        \/ pc[Closer] = "waitLoop" /\ LoopReady
        \/ pc[Closer] = "waitUploads" /\ uploads # {}

\* Where the loop and Close can be, and that Close waits for the loop only after close(stopCh).
PlaceInv ==
    /\ pc[Loop] \in {"idle", "flush", "spawn", "done"}
    /\ pc[Closer] \in {"idle", "stop", "waitLoop", "flush", "spawn", "waitUploads", "returned"}
    /\ pc[Closer] = "waitLoop" => stopCh

LEMMA PlaceStep ==
    ASSUME TypeOK, PlaceInv, [Next]_vars
    PROVE  PlaceInv'
<1> USE DEF TypeOK, PlaceInv, Loop, Closer, Flushers
<1>0. "loop" \notin FlushCallers /\ "close" \notin FlushCallers
  BY FlushCallersDistinct
<1>1. CASE LoopTick \/ LoopSignalled \/ LoopStop
  BY <1>1 DEF LoopTick, LoopSignalled, LoopStop
<1>2. ASSUME NEW g \in FlushCallers, FlushCall(g)
      PROVE  PlaceInv'
  BY <1>0, <1>2 DEF FlushCall
<1>3. ASSUME NEW g \in Flushers, SnapshotBatches(g)
      PROVE  PlaceInv'
  BY <1>3 DEF SnapshotBatches
<1>4. ASSUME NEW g \in Flushers, FlushReturn(g)
      PROVE  PlaceInv'
  BY <1>4 DEF FlushReturn, AfterFlush
<1>5. CASE CloseBegin \/ CloseStop \/ CloseLoopDone \/ CloseReturn
  BY <1>5 DEF CloseBegin, CloseStop, CloseLoopDone, CloseReturn
<1>6. CASE UNCHANGED <<pc, stopCh>>
  BY <1>6
<1> QED
  BY <1>1, <1>2, <1>3, <1>4, <1>5, <1>6
  DEF Next, vars, FlushStep, UploadStep, CloseStep, Enqueue, EnqueueClosed, Signal, SpawnUpload,
      UploadSucceeds, UploadFails, Terminated

\* Close waits for nobody that waits for it, whoever calls Enqueue and Flush beside it and
\* whatever uploads fail (archiver.go:109-124).
THEOREM CloseNeverStuck == Spec => []CloseNotStuck
<1>1. Init => PlaceInv
  BY DEF Init, PlaceInv, Flushers
<1>2. ASSUME TypeOK, PlaceInv
      PROVE  CloseNotStuck
  <2>1. \A g \in Flushers : pc[g] = "spawn" => FlushReady(g)
    BY <1>2 DEF TypeOK, FlushReady, Empty
  <2> QED
    BY <1>2, <2>1 DEF PlaceInv, CloseNotStuck, CloseReady, LoopReady, FlushReady, Flushers
<1> QED
  BY <1>1, <1>2, TypeCorrect, PlaceStep, PTL DEF Spec

\* While Close waits for uploads, they only become fewer: a failed one puts its records back
\* and nobody takes them again (archiver.go:120-121, 196-205).
FewerUploads ==
    pc[Closer] = "waitUploads" => uploads' \subseteq uploads /\ UNCHANGED <<accepted, batches>>

THEOREM UploadsRunOut == ASSUME FlushCallers = {} PROVE Spec => [][FewerUploads]_vars
<1>1. ASSUME RecordInv, CloseInv, [Next]_vars
      PROVE  FewerUploads
  BY <1>1, RecordSteps
  DEF CloseInv, Enqueue, SnapshotBatches, SpawnUpload, UploadSucceeds, UploadFails, FewerUploads,
      Flushers, Loop, Closer
<1> QED BY <1>1, RecordInvariant, CloseInvariant, PTL DEF Spec

-----------------------------------------------------------------------------
(* Refinement                                                              *)

\* Every step of the archiver is a step of its contract or invisible to a caller.
LEMMA ContractStep ==
    ASSUME FlushCallers = {}, RecordInv, CloseInv, CloseDrains', [Next]_vars
    PROVE  [Contract!CNext]_(Contract!cvars)
<1> USE DEF RecordInv, TypeOK, Batch, CloseInv, ClosePhase, Contract!cvars
<1>1. ASSUME NEW c \in Callers, NEW s \in Statuses, NEW r \in Records, Enqueue(c, s, r)
      PROVE  Contract!Accept(s, r)
  BY <1>1 DEF Enqueue, Used, Contract!Accept
<1>2. ASSUME NEW u \in uploads, UploadSucceeds(u)
      PROVE  Contract!Attempt(u.status, u.recs)
  <2>1. u.recs \subseteq accepted[u.status]
    BY DEF HeldAccepted, InMemory, InFlight
  <2> QED BY <1>2, <2>1 DEF UploadSucceeds, Put, Contract!Attempt
<1>3. ASSUME NEW u \in uploads, NEW applied \in BOOLEAN, UploadFails(u, applied)
      PROVE  Contract!Attempt(u.status, u.recs)
  <2>1. u.recs \subseteq accepted[u.status]
    BY DEF HeldAccepted, InMemory, InFlight
  <2> QED BY <1>3, <2>1 DEF UploadFails, Put, Contract!Attempt
<1>4. ASSUME CloseBegin
      PROVE  Contract!BeginClose
  BY <1>4 DEF CloseBegin, Contract!BeginClose, Flushers
<1>5. ASSUME CloseReturn
      PROVE  Contract!EndClose
  <2>1. \A s \in Statuses : accepted[s] \subseteq stored[s] \cup failed
    BY <1>5 DEF CloseReturn, CloseDrains, Flushers
  <2> QED BY <1>5, <2>1 DEF CloseReturn, Contract!EndClose, Flushers
<1>6. CASE UNCHANGED <<closed, pc, accepted, stored, failed>>
  BY <1>6
<1>7. CASE LoopTick \/ LoopSignalled \/ LoopStop
  BY <1>7 DEF LoopTick, LoopSignalled, LoopStop, Loop, Closer, Flushers
<1>8. ASSUME NEW g \in Flushers,
             SnapshotBatches(g) \/ FlushReturn(g) \/ \E s \in Statuses : SpawnUpload(g, s)
      PROVE  UNCHANGED Contract!cvars
  BY <1>8 DEF SnapshotBatches, FlushReturn, AfterFlush, SpawnUpload, Flushers, Loop, Closer
<1>9. CASE CloseStop \/ CloseLoopDone
  BY <1>9 DEF CloseStop, CloseLoopDone, Flushers, Closer
<1>10. CASE \E u \in uploads : UploadStep(u)
  <2>1. PICK u \in uploads : UploadStep(u)
    BY <1>10
  <2>2. Contract!Attempt(u.status, u.recs)
    BY <1>2, <1>3, <2>1 DEF UploadStep
  <2> QED BY <2>2 DEF Contract!CNext
<1>11. CASE \E c \in Callers, s \in Statuses, r \in Records : Enqueue(c, s, r)
  BY <1>1, <1>11 DEF Contract!CNext
<1>12. CASE CloseBegin \/ CloseReturn
  BY <1>4, <1>5, <1>12 DEF Contract!CNext
<1> QED
  BY <1>6, <1>7, <1>8, <1>9, <1>10, <1>11, <1>12
  DEF Next, vars, FlushStep, CloseStep, EnqueueClosed, Signal, FlushCall, Terminated

\* The archiver implements ArchiveContract: Enqueue accepts until Close begins, only
\* accepted records are stored, each under its status, and Close returns only when
\* every one of them is stored or was refused.
THEOREM ImplementsArchiveContract == ASSUME FlushCallers = {} PROVE Spec => ImplementsContract
<1>1. Init => Contract!CInit
  BY DEF Init, Contract!CInit, ClosePhase, Empty
<1>2. ASSUME RecordInv, CloseInv, CloseDrains', [Next]_vars
      PROVE  [Contract!CNext]_(Contract!cvars)
  BY <1>2, ContractStep
<1> QED
  BY <1>1, <1>2, RecordInvariant, CloseInvariant, CloseDrainsAll, PTL
  DEF Spec, ImplementsContract, Contract!CSpec
=============================================================================
