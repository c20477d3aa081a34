------------------------ MODULE WorkerProcessProofs ------------------------
(***************************************************************************)
(* What holds of a worker process for any log, any set of partitions and   *)
(* environments, and any number of lives.                                  *)
(***************************************************************************)
EXTENDS WorkerProcess, FiniteSetTheorems, TLAPS

Idle == {"down", "booting", "migrating"}

\* Where main is, and what is in memory then.
StageInv ==
    /\ stage \in Idle =>
          /\ accepted = NoRecords /\ metrics = NoCounts
          /\ start = next /\ marked = next /\ committed = next
          /\ \A p \in Partitions : pc[p] = "ended"
    /\ stage \in {"booting", "migrating"} => life < MaxLives
    /\ stage \notin Idle => life \in 1..MaxLives
    /\ stage \in {"archiverClosed", "closed"} =>
          phase = "closed" /\ \A s \in Statuses : accepted[s] \subseteq stored[s] \cup refused
    /\ stage = "closed" => \A p \in Partitions : pc[p] = "ended"

\* What a claim has in hand, by where it is.
ClaimInv ==
    \A p \in Partitions :
        /\ committed[p] <= marked[p] /\ marked[p] <= next[p] /\ start[p] <= next[p]
        /\ InCall(p) => next[p] \in Positions(p) /\ Log[p][next[p]] # "garbled"
        /\ pc[p] \in {"enqueue", "archived"} => label[p] \in Statuses
        /\ pc[p] = "persist" => label[p] = "accepted"
        /\ pc[p] = "tally" => label[p] \in {"processed", "failed", "duplicate", "fraud"}

\* The raw record of the call in hand is in the archive.
PastRaw(p) ==
    \/ pc[p] \in {"classify", "persist"}
    \/ pc[p] \in {"enqueue", "archived"} /\ label[p] \in Finals
    \/ pc[p] = "tally" /\ label[p] # "failed"

\* The call in hand ended without an error.
Settling(p) == pc[p] = "tally" /\ label[p] # "failed"

\* What the call in hand has left behind.
Left(p) ==
    /\ PastRaw(p) => <<Call(p), "raw">> \in accepted["raw"]
    /\ pc[p] = "archived" => Record(p) \in accepted[label[p]]
    /\ Settling(p) => \E s \in Finals : <<Call(p), s>> \in accepted[s]
    /\ pc[p] = "persist" \/ (pc[p] = "tally" /\ label[p] = "processed") =>
          <<Call(p), "accepted">> \in accepted["accepted"]
    /\ pc[p] = "tally" /\ label[p] = "processed" => Call(p) \in rows

RecordInv ==
    /\ \A s \in Statuses : \A r \in accepted[s] : r[2] = s
    /\ \A p \in Partitions : Left(p)

PInv == TypeOK /\ StageInv /\ ClaimInv /\ RecordInv

-----------------------------------------------------------------------------
LEMMA CallTyped ==
    ASSUME TypeOK, StageInv, ClaimInv, NEW p \in Partitions, InCall(p) \/ HasMessage(p)
    PROVE  Call(p) \in Calls /\ stage \notin Idle
<1>1. stage \notin Idle
  BY DEF StageInv, InCall, HasMessage
<1>2. life \in 1..MaxLives /\ next[p] \in Positions(p)
  BY <1>1 DEF StageInv, ClaimInv, HasMessage
<1> QED
  BY <1>1, <1>2 DEF Call, Calls

\* A step of main that takes no memory away and touches no claim.
LEMMA MainKeeps ==
    ASSUME PInv, UNCHANGED <<life, start, committed, claimVars, metrics, rows>>,
           accepted' = accepted
    PROVE  ClaimInv' /\ RecordInv'
<1>1. ClaimInv'
  BY DEF PInv, ClaimInv, claimVars, InCall, Positions
<1>2. RecordInv'
  BY DEF PInv, RecordInv, Left, claimVars, PastRaw, Settling, Call, Record
<1> QED
  BY <1>1, <1>2

LEMMA MessageKind ==
    ASSUME NEW p \in Partitions, NEW o \in Positions(p)
    PROVE  Log[p][o] \in {"event", "invalid", "garbled"}
<1>1. Log[p] \in Seq({"event", "invalid", "garbled"})
  BY LogAssumption
<1> QED
  BY <1>1 DEF Positions

LEMMA InitPInv == Init => PInv
<1> SUFFICES ASSUME Init
             PROVE  PInv
  OBVIOUS
<1>1. TypeOK
  <2>1. /\ pc \in [Partitions -> Locations] /\ label \in [Partitions -> Statuses \cup Counters]
        /\ stage \in Stages /\ life \in 0..MaxLives
    BY LivesAssumption DEF Init, Locations, Statuses, Stages
  <2>2. accepted \in [Statuses -> SUBSET Records] /\ stored \in [Statuses -> SUBSET Records]
    BY DEF Init, NoRecords
  <2>3. metrics \in [Counters -> Nat]
    BY DEF Init, NoCounts
  <2> QED
    BY <2>1, <2>2, <2>3 DEF Init, TypeOK
<1>2. StageInv
  BY DEF Init, StageInv, Idle
<1>3. ClaimInv
  BY DEF Init, ClaimInv, InCall
<1>4. RecordInv
  BY DEF Init, RecordInv, NoRecords, Left, PastRaw, Settling
<1> QED
  BY <1>1, <1>2, <1>3, <1>4 DEF PInv

-----------------------------------------------------------------------------
(* Types                                                                   *)

LEMMA GotoTyped ==
    ASSUME TypeOK, NEW p \in Partitions, NEW l \in Locations, NEW s \in Statuses \cup Counters,
           Goto(p, l, s)
    PROVE  /\ pc' \in [Partitions -> Locations] /\ label' \in [Partitions -> Statuses \cup Counters]
           /\ next' \in [Partitions -> Nat] /\ marked' \in [Partitions -> Nat]
  BY DEF TypeOK, Goto

LEMMA MarkTyped ==
    ASSUME TypeOK, NEW p \in Partitions, Mark(p)
    PROVE  /\ pc' \in [Partitions -> Locations] /\ label' \in [Partitions -> Statuses \cup Counters]
           /\ next' \in [Partitions -> Nat] /\ marked' \in [Partitions -> Nat]
<1>1. "poll" \in Locations /\ "raw" \in Statuses \cup Counters
  BY DEF Locations, Statuses
<1> QED
  BY <1>1 DEF TypeOK, Mark

LEMMA CountedTyped ==
    ASSUME TypeOK, NEW k \in Counters, Counted(k)
    PROVE  metrics' \in [Counters -> Nat]
  BY DEF TypeOK, Counted

LEMMA ClaimTyped ==
    ASSUME PInv, NEW p \in Partitions, ClaimStep(p)
    PROVE  TypeOK'
<1> USE DEF PInv
<1> DEFINE Typed ==
      /\ pc' \in [Partitions -> Locations] /\ label' \in [Partitions -> Statuses \cup Counters]
      /\ next' \in [Partitions -> Nat] /\ marked' \in [Partitions -> Nat]
<1>f. /\ "failed" \in Statuses \cup Counters /\ "tally" \in Locations
      /\ \A s \in Finals : s \in Statuses \cup Counters
      /\ \A l \in {"enqueue", "archived", "classify", "persist", "ended"} : l \in Locations
      /\ {"raw", "accepted", "processed"} \subseteq Statuses \cup Counters
  BY DEF Statuses, Counters, Locations, Finals
<1>g. Fail(p) => Typed
  BY <1>f, GotoTyped DEF Fail
<1>1. CASE Fetch(p)
  <2>1. Typed
    <3>1. Log[p][next[p]] \in {"event", "invalid", "garbled"}
      BY <1>1, MessageKind DEF Fetch, HasMessage
    <3>2. Mark(p) \/ Fail(p) \/ Goto(p, "enqueue", "raw")
      BY <1>1, <3>1 DEF Fetch
    <3> QED
      BY <3>2, <1>f, <1>g, MarkTyped, GotoTyped
  <2> QED
    BY <1>1, <2>1 DEF Fetch, TypeOK, bootVars, archiveVars, countVars
<1>2. CASE Enqueue(p)
  <2>1. Typed
    BY <1>2, <1>f, GotoTyped DEF Enqueue, TypeOK
  <2>2. Record(p) \in Records /\ label[p] \in Statuses
    BY <1>2, CallTyped DEF Enqueue, InCall, ClaimInv, Record, Records
  <2>3. accepted' \in [Statuses -> SUBSET Records]
    BY <1>2, <2>2 DEF Enqueue, TypeOK, Archive!Accept
  <2> QED
    BY <1>2, <2>1, <2>3 DEF Enqueue, TypeOK, bootVars, countVars, Archive!Accept
<1>3. CASE EnqueueRefused(p)
  BY <1>3, <1>g DEF EnqueueRefused, TypeOK, bootVars, archiveVars, countVars
<1>4. CASE CountArchived(p)
  <2>1. Typed
    <3>1. CASE label[p] = "raw"
      BY <1>4, <3>1, <1>f, GotoTyped DEF CountArchived
    <3>2. CASE label[p] = "accepted"
      BY <1>4, <3>2, <1>f, GotoTyped DEF CountArchived
    <3>3. CASE label[p] \notin {"raw", "accepted"}
      <4>1. Goto(p, "tally", label[p])
        BY <1>4, <3>3 DEF CountArchived
      <4> QED
        BY <4>1, <1>f, GotoTyped DEF TypeOK
    <3> QED
      BY <3>1, <3>2, <3>3
  <2>2. metrics' \in [Counters -> Nat]
    BY <1>4, CountedTyped DEF CountArchived, Counters
  <2> QED
    BY <1>4, <2>1, <2>2 DEF CountArchived, TypeOK, bootVars, archiveVars
<1>5. CASE Classify(p)
  <2>1. Typed
    BY <1>5, <1>f, <1>g, GotoTyped DEF Classify
  <2> QED
    BY <1>5, <2>1 DEF Classify, TypeOK, bootVars, archiveVars, countVars
<1>6. CASE Persist(p)
  <2>1. Typed
    BY <1>6, <1>f, <1>g, GotoTyped DEF Persist
  <2>2. rows' \in SUBSET Calls
    BY <1>6, CallTyped DEF Persist, InCall, TypeOK
  <2> QED
    BY <1>6, <2>1, <2>2 DEF Persist, TypeOK, bootVars, archiveVars
<1>7. CASE Tally(p)
  <2>1. Typed
    BY <1>7, MarkTyped DEF Tally
  <2>2. Call(p) \in Calls /\ label[p] \in Counters
    BY <1>7, CallTyped DEF Tally, InCall, ClaimInv, Counters
  <2>3. metrics' \in [Counters -> Nat]
    BY <1>7, <2>2, CountedTyped DEF Tally
  <2>4. failed' \in SUBSET Calls
    BY <1>7, <2>2 DEF Tally, TypeOK
  <2> QED
    BY <1>7, <2>1, <2>3, <2>4 DEF Tally, TypeOK, bootVars, archiveVars
<1>8. CASE EndClaim(p)
  <2>1. pc' \in [Partitions -> Locations] /\ committed' \in [Partitions -> Nat]
    BY <1>8, <1>f DEF EndClaim, TypeOK
  <2> QED
    BY <1>8, <2>1 DEF EndClaim, TypeOK, bootVars, archiveVars, countVars
<1> QED
  BY <1>1, <1>2, <1>3, <1>4, <1>5, <1>6, <1>7, <1>8 DEF ClaimStep

LEMMA GoneTyped ==
    ASSUME PInv, Gone, lost' \in SUBSET Records
    PROVE  TypeOK'
<1>1. "ended" \in Locations /\ "raw" \in Statuses \cup Counters /\ "down" \in Stages
  BY DEF Locations, Statuses, Stages
<1>2. accepted' \in [Statuses -> SUBSET Records] /\ metrics' \in [Counters -> Nat]
  BY DEF Gone, NoRecords, NoCounts
<1>3. pc' \in [Partitions -> Locations] /\ label' \in [Partitions -> Statuses \cup Counters]
  BY <1>1 DEF Gone
<1> QED
  BY <1>1, <1>2, <1>3 DEF PInv, TypeOK, Gone

LEMMA Typed ==
    ASSUME PInv, [Next]_vars
    PROVE  TypeOK'
<1> USE DEF PInv
<1>1. CASE Launch \/ Migrate \/ MigrationDone \/ BootFails \/ Hang \/ Cancel \/ CloseConsumer \/ Ended
           \/ UNCHANGED vars
  BY <1>1 DEF Launch, Migrate, MigrationDone, BootFails, Hang, Cancel, CloseConsumer, Ended, vars,
              TypeOK, Stages, bootVars, claimVars, archiveVars, countVars
<1>2. CASE Boot
  <2>1. life' \in 0..MaxLives
    <3>1. life \in 0..MaxLives /\ life < MaxLives /\ life' = life + 1
      BY <1>2 DEF Boot, TypeOK, StageInv
    <3> QED
      BY <3>1, LivesAssumption
  <2>2. pc' \in [Partitions -> Locations]
    BY <1>2 DEF Boot, Locations
  <2> QED
    BY <1>2, <2>1, <2>2 DEF Boot, TypeOK, Stages, countVars
<1>3. ASSUME NEW p \in Partitions, ClaimStep(p)
      PROVE  TypeOK'
  BY <1>3, ClaimTyped
<1>4. ASSUME NEW p \in Partitions, Commit(p)
      PROVE  TypeOK'
  BY <1>4 DEF Commit, TypeOK, bootVars, claimVars, archiveVars, countVars
<1>5. ASSUME NEW s \in Statuses, NEW R \in SUBSET Held(s), Upload(s, R)
      PROVE  TypeOK'
  <2>1. R \in SUBSET Records
    BY DEF Held, TypeOK
  <2>2. stored' \in [Statuses -> SUBSET Records] /\ refused' \in SUBSET Records
    BY <1>5, <2>1 DEF Upload, Archive!Attempt, TypeOK
  <2> QED
    BY <1>5, <2>2 DEF Upload, Archive!Attempt, TypeOK, bootVars, claimVars, countVars
<1>6. CASE CloseArchiver \/ ArchiverClosed
  BY <1>6 DEF CloseArchiver, ArchiverClosed, Archive!BeginClose, Archive!EndClose, TypeOK, Stages,
              bootVars, claimVars, countVars
<1>7. CASE Exit
  BY <1>7, GoneTyped DEF Exit, TypeOK
<1>8. CASE Crash
  <2>1. UNION {accepted[s] \ stored[s] : s \in Statuses} \subseteq Records
    BY DEF TypeOK
  <2> QED
    BY <1>8, <2>1, GoneTyped DEF Crash, TypeOK
<1> QED
  BY <1>1, <1>2, <1>3, <1>4, <1>5, <1>6, <1>7, <1>8 DEF Next, MainStep

-----------------------------------------------------------------------------
(* Stages                                                                  *)

LEMMA GoneStage ==
    ASSUME PInv, Gone
    PROVE  StageInv'
<1>1. accepted' = NoRecords /\ metrics' = NoCounts /\ start' = next' /\ marked' = next' /\ committed' = next'
  BY DEF Gone
<1>2. \A p \in Partitions : pc'[p] = "ended"
  BY DEF Gone
<1>3. stage' = "down"
  BY DEF Gone
<1> QED
  BY <1>1, <1>2, <1>3 DEF StageInv, Idle

\* A claim works only while the process does.
LEMMA ClaimsRun ==
    ASSUME PInv, NEW p \in Partitions, pc[p] # "ended"
    PROVE  stage \notin Idle /\ stage # "closed"
  BY DEF PInv, StageInv

\* What a step leaves that is not one of main.
LEMMA StageKept ==
    ASSUME PInv, stage \notin Idle, UNCHANGED <<stage, life, phase>>,
           \A s \in Statuses : accepted[s] \subseteq stored[s] \cup refused =>
               accepted'[s] \subseteq stored'[s] \cup refused' \/ phase = "open",
           stage = "closed" => UNCHANGED pc
    PROVE  StageInv'
  BY DEF PInv, StageInv, TypeOK, Idle

LEMMA ClaimStage ==
    ASSUME PInv, NEW p \in Partitions, ClaimStep(p) \/ Commit(p)
    PROVE  StageInv'
<1>1. pc[p] # "ended"
  BY DEF ClaimStep, Fetch, Enqueue, EnqueueRefused, CountArchived, Classify, Persist, Tally, EndClaim,
         Commit, HasMessage
<1>2. stage \notin Idle /\ stage # "closed"
  BY <1>1, ClaimsRun
<1>3. UNCHANGED <<stage, life, phase>>
  BY DEF ClaimStep, Fetch, Enqueue, EnqueueRefused, CountArchived, Classify, Persist, Tally, EndClaim,
         Commit, bootVars, archiveVars, Archive!Accept
<1>4. UNCHANGED <<accepted, stored, refused>> \/ phase = "open"
  BY DEF ClaimStep, Fetch, Enqueue, EnqueueRefused, CountArchived, Classify, Persist, Tally, EndClaim,
         Commit, archiveVars, Archive!Accept
<1> QED
  BY <1>2, <1>3, <1>4, StageKept

LEMMA Staged ==
    ASSUME PInv, [Next]_vars, TypeOK'
    PROVE  StageInv'
<1> USE DEF PInv
<1>1. CASE Launch \/ Migrate \/ MigrationDone \/ BootFails \/ Ended \/ UNCHANGED vars
  BY <1>1, LivesAssumption
     DEF Launch, Migrate, MigrationDone, BootFails, Ended, vars, StageInv, Idle, TypeOK,
         bootVars, claimVars, archiveVars, countVars
<1>2. CASE Boot
  <2>1. stage' = "up" /\ life' \in 1..MaxLives
    <3>1. life \in 0..MaxLives /\ life < MaxLives /\ life' = life + 1
      BY <1>2 DEF Boot, TypeOK, StageInv
    <3>2. life' \in 1..MaxLives
      BY <3>1, LivesAssumption
    <3> QED
      BY <1>2, <3>2 DEF Boot
  <2> QED
    BY <2>1 DEF StageInv, Idle
<1>3. ASSUME NEW p \in Partitions, ClaimStep(p) \/ Commit(p)
      PROVE  StageInv'
  BY <1>3, ClaimStage
<1>4. ASSUME NEW s \in Statuses, NEW R \in SUBSET Held(s), Upload(s, R)
      PROVE  StageInv'
  <2>1. stage \notin Idle /\ phase # "closed"
    <3>1. accepted[s] # {} /\ phase # "closed"
      BY <1>4 DEF Upload, Held, Archive!Attempt
    <3> QED
      BY <3>1 DEF StageInv, NoRecords
  <2>2. stage \notin {"archiverClosed", "closed"}
    BY <2>1 DEF StageInv
  <2> QED
    BY <1>4, <2>1, <2>2 DEF Upload, Archive!Attempt, StageInv, bootVars
<1>5. CASE Hang \/ Cancel \/ CloseArchiver
  BY <1>5 DEF Hang, Cancel, CloseArchiver, Archive!BeginClose, StageInv, Idle,
              bootVars, claimVars, archiveVars, countVars
<1>6. CASE ArchiverClosed
  BY <1>6 DEF ArchiverClosed, Archive!EndClose, StageInv, Idle, bootVars
<1>7. CASE CloseConsumer
  BY <1>7 DEF CloseConsumer, StageInv, Idle, bootVars, claimVars, archiveVars
<1>8. CASE Exit \/ Crash
  BY <1>8, GoneStage DEF Exit, Crash
<1> QED
  BY <1>1, <1>2, <1>3, <1>4, <1>5, <1>6, <1>7, <1>8 DEF Next, MainStep

-----------------------------------------------------------------------------
(* Claims                                                                  *)

LEMMA GotoClaim ==
    ASSUME PInv, NEW p \in Partitions, NEW l, NEW s, Goto(p, l, s),
           UNCHANGED <<start, committed>>,
           next[p] \in Positions(p) /\ Log[p][next[p]] # "garbled",
           l \in {"enqueue", "archived"} => s \in Statuses,
           l = "persist" => s = "accepted",
           l = "tally" => s \in {"processed", "failed", "duplicate", "fraud"}
    PROVE  ClaimInv'
<1>1. \A q \in Partitions : pc'[q] = (IF q = p THEN l ELSE pc[q]) /\ label'[q] = (IF q = p THEN s ELSE label[q])
  BY DEF PInv, TypeOK, Goto
<1>2. UNCHANGED <<next, marked>>
  BY DEF Goto
<1> QED
  BY <1>1, <1>2 DEF PInv, ClaimInv, InCall, Positions

LEMMA MarkClaim ==
    ASSUME PInv, NEW p \in Partitions, Mark(p), UNCHANGED <<start, committed>>
    PROVE  ClaimInv'
<1>1. \A q \in Partitions :
         /\ pc'[q] = (IF q = p THEN "poll" ELSE pc[q]) /\ (q # p => label'[q] = label[q])
         /\ marked'[q] = (IF q = p THEN next[p] + 1 ELSE marked[q])
         /\ next'[q] = (IF q = p THEN next[p] + 1 ELSE next[q])
  BY DEF PInv, TypeOK, Mark
<1>2. \A q \in Partitions : next[q] \in Nat /\ marked[q] \in Nat /\ committed[q] \in Nat /\ start[q] \in Nat
  BY DEF PInv, TypeOK
<1> QED
  BY <1>1, <1>2 DEF PInv, ClaimInv, InCall, Positions

LEMMA ClaimClaim ==
    ASSUME PInv, NEW p \in Partitions, ClaimStep(p)
    PROVE  ClaimInv'
<1> USE DEF PInv
<1>1. CASE Fetch(p)
  <2>1. next[p] \in Positions(p) /\ UNCHANGED <<start, committed>>
    BY <1>1 DEF Fetch, HasMessage, bootVars
  <2>2. CASE Log[p][next[p]] = "garbled"
    BY <1>1, <2>1, <2>2, MarkClaim DEF Fetch
  <2>3. CASE Log[p][next[p]] # "garbled"
    <3>1. Fail(p) \/ Goto(p, "enqueue", "raw")
      BY <1>1, <2>1, <2>3, MessageKind DEF Fetch
    <3>2. "raw" \in Statuses
      BY DEF Statuses
    <3> QED
      BY <2>1, <2>3, <3>1, <3>2, GotoClaim DEF Fail
  <2> QED
    BY <2>2, <2>3
<1>2. CASE EndClaim(p)
  <2>1. \A q \in Partitions : /\ pc'[q] = (IF q = p THEN "ended" ELSE pc[q])
                              /\ committed'[q] = committed[q] \/ (q = p /\ committed'[q] = marked[q])
    BY <1>2 DEF EndClaim, TypeOK
  <2>2. UNCHANGED <<next, marked, label, start>>
    BY <1>2 DEF EndClaim, bootVars
  <2>3. \A q \in Partitions : next[q] \in Nat /\ marked[q] \in Nat /\ committed[q] \in Nat
    BY DEF TypeOK
  <2> QED
    BY <2>1, <2>2, <2>3 DEF ClaimInv, InCall, Positions
<1>3. CASE Tally(p)
  BY <1>3, MarkClaim DEF Tally, bootVars
<1>4. ASSUME Enqueue(p) \/ EnqueueRefused(p) \/ CountArchived(p) \/ Classify(p) \/ Persist(p)
      PROVE  ClaimInv'
  <2>1. UNCHANGED <<start, committed>>
    BY <1>4 DEF Enqueue, EnqueueRefused, CountArchived, Classify, Persist, bootVars
  <2>2. next[p] \in Positions(p) /\ Log[p][next[p]] # "garbled"
    BY <1>4 DEF Enqueue, EnqueueRefused, CountArchived, Classify, Persist, InCall, ClaimInv
  <2>3. Fail(p) => ClaimInv'
    BY <2>1, <2>2, GotoClaim DEF Fail
  <2>4. CASE Enqueue(p)
    <3>1. label[p] \in Statuses
      BY <2>4 DEF Enqueue, ClaimInv
    <3> QED
      BY <2>1, <2>2, <2>4, <3>1, GotoClaim DEF Enqueue
  <2>5. CASE CountArchived(p)
    <3>1. label[p] \in Statuses
      BY <2>5 DEF CountArchived, ClaimInv
    <3>2. \/ Goto(p, "classify", "raw")
          \/ Goto(p, "persist", "accepted")
          \/ label[p] \in {"duplicate", "fraud"} /\ Goto(p, "tally", label[p])
      BY <2>5, <3>1 DEF CountArchived, Statuses, Finals
    <3> QED
      BY <2>1, <2>2, <3>2, GotoClaim
  <2>6. CASE Classify(p)
    <3>1. \A s \in Finals : s \in Statuses
      BY DEF Statuses
    <3> QED
      BY <2>1, <2>2, <2>3, <2>6, <3>1, GotoClaim DEF Classify
  <2>7. CASE Persist(p)
    BY <2>1, <2>2, <2>3, <2>7, GotoClaim DEF Persist
  <2> QED
    BY <1>4, <2>3, <2>4, <2>5, <2>6, <2>7 DEF EnqueueRefused
<1> QED
  BY <1>1, <1>2, <1>3, <1>4 DEF ClaimStep

LEMMA GotoLeft ==
    ASSUME PInv, NEW p \in Partitions, NEW l, NEW s, Goto(p, l, s),
           UNCHANGED life, rows \subseteq rows',
           \A t \in Statuses : accepted[t] \subseteq accepted'[t],
           \A t \in Statuses : \A r \in accepted'[t] : r[2] = t,
           Left(p)'
    PROVE  RecordInv'
<1> SUFFICES ASSUME NEW q \in Partitions, q # p
             PROVE  Left(q)'
  BY DEF RecordInv
<1>1. pc'[q] = pc[q] /\ label'[q] = label[q] /\ Call(q)' = Call(q)
  BY DEF PInv, TypeOK, Goto, Call
<1>2. Left(q)
  BY DEF PInv, RecordInv
<1>3. "raw" \in Statuses /\ "accepted" \in Statuses /\ Finals \subseteq Statuses
  BY DEF Statuses, Finals
<1>4. pc[q] = "archived" => label[q] \in Statuses
  BY DEF PInv, ClaimInv
<1> QED
  BY <1>1, <1>2, <1>3, <1>4 DEF Left, PastRaw, Settling, Record

LEMMA ClaimRecord ==
    ASSUME PInv, NEW p \in Partitions, ClaimStep(p)
    PROVE  RecordInv'
<1> USE DEF PInv
<1>l. Left(p) /\ \A t \in Statuses : \A r \in accepted[t] : r[2] = t
  BY DEF RecordInv
<1>t. "raw" \in Statuses /\ "accepted" \in Statuses /\ Finals \subseteq Statuses
  BY DEF Statuses, Finals
<1>m. ASSUME Mark(p), UNCHANGED <<life, accepted, rows>>
      PROVE  RecordInv'
  <2>1. \A q \in Partitions : /\ q # p => pc'[q] = pc[q] /\ label'[q] = label[q] /\ next'[q] = next[q]
                              /\ pc'[p] = "poll"
    BY <1>m DEF Mark, TypeOK
  <2> QED
    BY <1>m, <2>1 DEF RecordInv, Left, PastRaw, Settling, Record, Call
<1>g. ASSUME NEW l, NEW s, Goto(p, l, s), UNCHANGED <<life, accepted, rows>>, Left(p)'
      PROVE  RecordInv'
  BY <1>l, <1>g, GotoLeft
<1>h. ASSUME NEW l, NEW s, Goto(p, l, s), UNCHANGED life
      PROVE  pc'[p] = l /\ label'[p] = s /\ Call(p)' = Call(p)
  BY <1>h DEF Goto, TypeOK, Call
<1>f. ASSUME Fail(p), UNCHANGED <<life, accepted>>, rows \subseteq rows'
      PROVE  RecordInv'
  <2>1. Left(p)'
    BY <1>f, <1>h DEF Fail, Left, PastRaw, Settling
  <2> QED
    BY <1>f, <1>l, <2>1, GotoLeft DEF Fail
<1>1. CASE Fetch(p)
  <2>1. next[p] \in Positions(p) /\ UNCHANGED <<life, accepted, rows>>
    BY <1>1 DEF Fetch, HasMessage, bootVars, archiveVars, countVars
  <2>2. Mark(p) \/ Fail(p) \/ Goto(p, "enqueue", "raw")
    BY <1>1, <2>1, MessageKind DEF Fetch
  <2>3. ASSUME Goto(p, "enqueue", "raw")
        PROVE  Left(p)'
    BY <2>1, <2>3, <1>h DEF Left, PastRaw, Settling, Finals
  <2> QED
    BY <2>1, <2>2, <2>3, <1>m, <1>f, <1>g
<1>2. CASE Enqueue(p)
  <2>1. /\ accepted' = [accepted EXCEPT ![label[p]] = @ \cup {Record(p)}]
        /\ Goto(p, "archived", label[p]) /\ UNCHANGED <<life, rows>>
    BY <1>2 DEF Enqueue, Archive!Accept, bootVars, countVars
  <2>2. label[p] \in Statuses /\ Record(p)[2] = label[p]
    BY <1>2 DEF Enqueue, ClaimInv, Record
  <2>3. \A t \in Statuses : accepted'[t] = IF t = label[p] THEN accepted[t] \cup {Record(p)} ELSE accepted[t]
    BY <2>1, <2>2 DEF TypeOK
  <2>4. /\ \A t \in Statuses : accepted[t] \subseteq accepted'[t]
        /\ \A t \in Statuses : \A r \in accepted'[t] : r[2] = t
    BY <1>l, <2>2, <2>3
  <2>5. pc'[p] = "archived" /\ label'[p] = label[p] /\ Call(p)' = Call(p)
    BY <2>1, <1>h
  <2>6. PastRaw(p)' => PastRaw(p)
    BY <1>2, <2>5 DEF PastRaw, Enqueue
  <2>7. Left(p)'
    <3>1. PastRaw(p)' => <<Call(p), "raw">>' \in accepted'["raw"]
      BY <1>l, <1>t, <2>4, <2>5, <2>6 DEF Left
    <3>2. Record(p)' \in accepted'[label'[p]]
      BY <2>2, <2>3, <2>5 DEF Record
    <3> QED
      BY <2>5, <3>1, <3>2 DEF Left, Settling
  <2> QED
    BY <2>1, <2>4, <2>7, GotoLeft
<1>3. CASE EnqueueRefused(p)
  BY <1>3, <1>f DEF EnqueueRefused, bootVars, archiveVars, countVars
<1>4. CASE CountArchived(p)
  <2>1. UNCHANGED <<life, accepted, rows>> /\ pc[p] = "archived"
    BY <1>4 DEF CountArchived, bootVars, archiveVars
  <2>2. label[p] \in Statuses /\ Record(p) \in accepted[label[p]]
    BY <1>l, <2>1 DEF ClaimInv, Left
  <2>3. CASE label[p] = "raw"
    <3>1. Goto(p, "classify", "raw")
      BY <1>4, <2>3 DEF CountArchived
    <3>2. Left(p)'
      BY <2>1, <2>2, <2>3, <3>1, <1>h DEF Left, PastRaw, Settling, Record
    <3> QED
      BY <2>1, <3>1, <3>2, <1>g
  <2>4. CASE label[p] = "accepted"
    <3>1. Goto(p, "persist", "accepted")
      BY <1>4, <2>4 DEF CountArchived
    <3>2. PastRaw(p)
      BY <2>1, <2>4 DEF PastRaw, Finals
    <3>3. Left(p)'
      BY <2>1, <2>2, <2>4, <3>1, <3>2, <1>h, <1>l DEF Left, Settling, Record
    <3> QED
      BY <2>1, <3>1, <3>3, <1>g
  <2>5. CASE label[p] \in {"duplicate", "fraud"}
    <3>1. Goto(p, "tally", label[p])
      BY <1>4, <2>5 DEF CountArchived
    <3>2. PastRaw(p) /\ label[p] \in Finals
      BY <2>1, <2>5 DEF PastRaw, Finals
    <3>3. Left(p)'
      BY <2>1, <2>2, <2>5, <3>1, <3>2, <1>h, <1>l DEF Left, Settling, Record
    <3> QED
      BY <2>1, <3>1, <3>3, <1>g
  <2> QED
    BY <2>2, <2>3, <2>4, <2>5 DEF Statuses, Finals
<1>5. CASE Classify(p)
  <2>1. UNCHANGED <<life, accepted, rows>> /\ pc[p] = "classify"
    BY <1>5 DEF Classify, bootVars, archiveVars, countVars
  <2>2. ASSUME NEW s \in Finals, Goto(p, "enqueue", s)
        PROVE  RecordInv'
    <3>1. PastRaw(p)
      BY <2>1 DEF PastRaw
    <3>2. Left(p)'
      BY <2>1, <2>2, <3>1, <1>h, <1>l DEF Left, Settling
    <3> QED
      BY <2>1, <2>2, <3>2, <1>g
  <2> QED
    BY <1>5, <2>1, <2>2, <1>f DEF Classify
<1>6. CASE Persist(p)
  <2>1. UNCHANGED <<life, accepted>> /\ pc[p] = "persist" /\ rows \subseteq rows'
    BY <1>6 DEF Persist, bootVars, archiveVars
  <2>2. ASSUME rows' = rows \cup {Call(p)}, Goto(p, "tally", "processed")
        PROVE  RecordInv'
    <3>1. PastRaw(p)
      BY <2>1 DEF PastRaw
    <3>2. <<Call(p), "accepted">> \in accepted["accepted"]
      BY <1>l, <2>1 DEF Left
    <3>3. Settling(p)' => \E s \in Finals : <<Call(p), s>> \in accepted[s]
      BY <3>2 DEF Finals
    <3>4. Left(p)'
      BY <2>1, <2>2, <3>1, <3>2, <3>3, <1>h, <1>l DEF Left
    <3> QED
      BY <1>l, <2>1, <2>2, <3>4, GotoLeft
  <2> QED
    BY <1>6, <2>1, <2>2, <1>f DEF Persist
<1>7. CASE Tally(p)
  BY <1>7, <1>m DEF Tally, bootVars, archiveVars
<1>8. CASE EndClaim(p)
  <2>1. \A q \in Partitions : pc'[q] = pc[q] \/ pc'[q] = "ended"
    BY <1>8 DEF EndClaim, TypeOK
  <2> QED
    BY <1>8, <2>1 DEF EndClaim, RecordInv, Left, PastRaw, Settling, Record, Call,
                      bootVars, archiveVars, countVars
<1> QED
  BY <1>1, <1>2, <1>3, <1>4, <1>5, <1>6, <1>7, <1>8 DEF ClaimStep

LEMMA Claimed ==
    ASSUME PInv, [Next]_vars
    PROVE  ClaimInv' /\ RecordInv'
<1> USE DEF PInv
<1>1. CASE Launch \/ Migrate \/ MigrationDone \/ BootFails \/ Hang \/ Cancel \/ CloseArchiver
           \/ ArchiverClosed \/ CloseConsumer \/ Ended \/ UNCHANGED vars
  <2>1. UNCHANGED <<life, start, committed, claimVars, metrics, rows>> /\ accepted' = accepted
    BY <1>1 DEF Launch, Migrate, MigrationDone, BootFails, Hang, Cancel, CloseArchiver, ArchiverClosed,
                CloseConsumer, Ended, vars, bootVars, archiveVars, countVars, Archive!BeginClose,
                Archive!EndClose
  <2> QED
    BY <2>1, MainKeeps
<1>2. CASE Boot
  <2>1. \A p \in Partitions : pc'[p] = "poll"
    BY <1>2 DEF Boot
  <2>2. UNCHANGED <<next, marked, start, committed, accepted>>
    BY <1>2 DEF Boot
  <2>3. ClaimInv'
    BY <2>1, <2>2 DEF ClaimInv, InCall
  <2>4. RecordInv'
    BY <2>1, <2>2 DEF RecordInv, Left, PastRaw, Settling
  <2> QED
    BY <2>3, <2>4
<1>3. ASSUME NEW p \in Partitions, ClaimStep(p)
      PROVE  ClaimInv' /\ RecordInv'
  BY <1>3, ClaimClaim, ClaimRecord
<1>4. ASSUME NEW p \in Partitions, Commit(p)
      PROVE  ClaimInv' /\ RecordInv'
  <2>1. \A q \in Partitions : committed'[q] = IF q = p THEN marked[p] ELSE committed[q]
    BY <1>4 DEF Commit, TypeOK
  <2>2. \A q \in Partitions : next[q] \in Nat /\ marked[q] \in Nat /\ committed[q] \in Nat
    BY DEF TypeOK
  <2>3. UNCHANGED <<life, start, next, marked, pc, label, accepted, rows>>
    BY <1>4 DEF Commit, bootVars, claimVars, archiveVars, countVars
  <2>4. ClaimInv'
    BY <2>1, <2>2, <2>3 DEF ClaimInv, InCall, Positions
  <2>5. RecordInv'
    BY <2>3 DEF RecordInv, Left, PastRaw, Settling, Record, Call
  <2> QED
    BY <2>4, <2>5
<1>5. ASSUME NEW s \in Statuses, NEW R \in SUBSET Held(s), Upload(s, R)
      PROVE  ClaimInv' /\ RecordInv'
  BY <1>5, MainKeeps DEF Upload, Archive!Attempt, bootVars, countVars
<1>6. CASE Exit \/ Crash
  <2>1. Gone
    BY <1>6 DEF Exit, Crash
  <2>2. /\ \A p \in Partitions : pc'[p] = "ended"
        /\ accepted' = NoRecords
        /\ start' = committed /\ next' = committed /\ marked' = committed /\ committed' = committed
    BY <2>1 DEF Gone
  <2>3. ClaimInv'
    BY <2>2 DEF ClaimInv, InCall, TypeOK
  <2>4. RecordInv'
    BY <2>2 DEF RecordInv, NoRecords, Left, PastRaw, Settling
  <2> QED
    BY <2>3, <2>4
<1> QED
  BY <1>1, <1>2, <1>3, <1>4, <1>5, <1>6 DEF Next, MainStep

LEMMA PInvStep == PInv /\ [Next]_vars => PInv'
  BY Typed, Staged, Claimed DEF PInv

LEMMA ProcessInvariant == Spec => []PInv
  BY InitPInv, PInvStep, PTL DEF Spec

\* The variables keep their types, and the archive takes records only while the process
\* consumes or is told to stop (cmd/main.go:140-181, archiver.go:88).
THEOREM TypeCorrect == Spec => []TypeOK
  BY ProcessInvariant, PTL DEF PInv

-----------------------------------------------------------------------------
(* Traces                                                                  *)

\* A record that is in the bucket, in memory or accounted for stays so.
LEMMA TracesStay ==
    ASSUME PInv, [Next]_vars, NEW s \in Statuses, NEW r, Traced(r, s)
    PROVE  Traced(r, s)'
<1> USE DEF PInv
<1>1. /\ stored[s] \subseteq stored'[s]
      /\ lost \subseteq lost'
  <2>1. ASSUME NEW t \in Statuses, NEW R \in SUBSET Held(t), Upload(t, R)
        PROVE  stored[s] \subseteq stored'[s] /\ lost' = lost
    BY <2>1 DEF Upload, Archive!Attempt, TypeOK, countVars
  <2>2. ASSUME NEW p \in Partitions, ClaimStep(p) \/ Commit(p)
        PROVE  UNCHANGED <<stored, lost>>
    BY <2>2 DEF ClaimStep, Fetch, Enqueue, EnqueueRefused, CountArchived, Classify, Persist, Tally,
                EndClaim, Commit, archiveVars, countVars, Archive!Accept
  <2>3. ASSUME Exit \/ Crash
        PROVE  stored' = stored /\ lost \subseteq lost'
    BY <2>3 DEF Exit, Crash, Gone
  <2>4. ASSUME \/ Launch \/ Migrate \/ MigrationDone \/ Boot \/ BootFails \/ Hang \/ Cancel
               \/ CloseArchiver \/ ArchiverClosed \/ CloseConsumer \/ Ended \/ UNCHANGED vars
        PROVE  UNCHANGED <<stored, lost>>
    BY <2>4 DEF Launch, Migrate, MigrationDone, Boot, BootFails, Hang, Cancel, CloseArchiver,
                ArchiverClosed, CloseConsumer, Ended, vars, archiveVars, countVars,
                Archive!BeginClose, Archive!EndClose
  <2> QED
    BY <2>1, <2>2, <2>3, <2>4 DEF Next, MainStep
<1>2. CASE r \notin accepted[s]
  BY <1>1, <1>2 DEF Traced
<1>3. CASE r \in accepted[s]
  <2>1. CASE Exit
    <3>1. stage = "closed"
      BY <2>1 DEF Exit
    <3>2. r \in stored[s] \/ r \in refused
      BY <1>3, <3>1 DEF StageInv
    <3>3. r[2] = s
      BY <1>3 DEF RecordInv
    <3>4. r \in stored[s] \/ r \in lost'
      BY <2>1, <3>2, <3>3 DEF Exit
    <3> QED
      BY <1>1, <3>4 DEF Traced
  <2>2. CASE Crash
    <3>1. r \in stored[s] \/ r \in accepted[s] \ stored[s]
      BY <1>3
    <3>2. r \in stored[s] \/ r \in lost'
      BY <2>2, <3>1 DEF Crash
    <3> QED
      BY <1>1, <3>2 DEF Traced
  <2>3. ASSUME ~Exit, ~Crash
        PROVE  accepted[s] \subseteq accepted'[s]
    <3>1. ASSUME NEW p \in Partitions, Enqueue(p)
          PROVE  accepted[s] \subseteq accepted'[s]
      BY <3>1 DEF Enqueue, Archive!Accept, TypeOK
    <3>2. ASSUME NEW p \in Partitions, ClaimStep(p) \/ Commit(p), ~Enqueue(p)
          PROVE  accepted' = accepted
      BY <3>2 DEF ClaimStep, Fetch, EnqueueRefused, CountArchived, Classify, Persist, Tally,
                  EndClaim, Commit, archiveVars
    <3>3. ASSUME NEW t \in Statuses, NEW R \in SUBSET Held(t), Upload(t, R)
          PROVE  accepted' = accepted
      BY <3>3 DEF Upload, Archive!Attempt
    <3>4. ASSUME \/ Launch \/ Migrate \/ MigrationDone \/ Boot \/ BootFails \/ Hang \/ Cancel
                 \/ CloseArchiver \/ ArchiverClosed \/ CloseConsumer \/ Ended \/ UNCHANGED vars
          PROVE  accepted' = accepted
      BY <3>4 DEF Launch, Migrate, MigrationDone, Boot, BootFails, Hang, Cancel, CloseArchiver,
                  ArchiverClosed, CloseConsumer, Ended, vars, archiveVars,
                  Archive!BeginClose, Archive!EndClose
    <3> QED
      BY <2>3, <3>1, <3>2, <3>3, <3>4 DEF Next, MainStep
  <2> QED
    BY <1>3, <2>1, <2>2, <2>3 DEF Traced
<1> QED
  BY <1>2, <1>3

\* Rows appear in Persist only, and calls that have failed are not forgotten.
LEMMA RowsAndFailures ==
    ASSUME PInv, [Next]_vars
    PROVE  /\ failed \subseteq failed'
           /\ rows \subseteq rows'
           /\ rows' = rows \/ \E p \in Partitions : pc[p] = "persist" /\ rows' = rows \cup {Call(p)}
           /\ life' \in {life, life + 1}
<1>1. ASSUME NEW p \in Partitions, Persist(p)
      PROVE  /\ failed' = failed /\ life' = life
             /\ pc[p] = "persist" /\ (rows' = rows \/ rows' = rows \cup {Call(p)})
  BY <1>1 DEF Persist, bootVars
<1>2. ASSUME NEW p \in Partitions, ClaimStep(p) \/ Commit(p), ~Persist(p)
      PROVE  failed \subseteq failed' /\ rows' = rows /\ life' = life
  BY <1>2 DEF ClaimStep, Fetch, Enqueue, EnqueueRefused, CountArchived, Classify, Tally, EndClaim,
              Commit, bootVars, countVars
<1>3. ASSUME \/ \E s \in Statuses : \E R \in SUBSET Held(s) : Upload(s, R)
             \/ Launch \/ Migrate \/ MigrationDone \/ BootFails \/ Hang \/ Cancel
             \/ CloseArchiver \/ ArchiverClosed \/ CloseConsumer \/ Exit \/ Crash \/ Ended
             \/ UNCHANGED vars
      PROVE  UNCHANGED <<failed, rows, life>>
  BY <1>3 DEF Launch, Migrate, MigrationDone, BootFails, Hang, Cancel, CloseArchiver, ArchiverClosed,
              CloseConsumer, Exit, Crash, Gone, Ended, vars, Upload, bootVars, countVars
<1>4. ASSUME Boot
      PROVE  UNCHANGED <<failed, rows>> /\ life' = life + 1
  BY <1>4 DEF Boot, countVars
<1> QED
  BY <1>1, <1>2, <1>3, <1>4 DEF Next, MainStep

\* A row of raw_events has its two records in the archive, unless a crash took them or the
\* bucket refused them (service.go:83-146, cmd/main.go:140-181).
THEOREM RowsHaveRecords == Spec => []RowsArchived
<1>t. "raw" \in Statuses /\ "accepted" \in Statuses
  BY DEF Statuses, Finals
<1>1. Init => RowsArchived
  BY DEF Init, RowsArchived
<1>2. ASSUME PInv, RowsArchived, [Next]_vars
      PROVE  RowsArchived'
  <2> SUFFICES ASSUME NEW d \in rows', NEW s \in {"raw", "accepted"}
               PROVE  Traced(<<d, s>>, s)'
    BY DEF RowsArchived
  <2>1. CASE d \in rows
    <3>1. Traced(<<d, s>>, s)
      BY <1>2, <2>1 DEF RowsArchived
    <3> QED
      BY <1>2, <1>t, <3>1, TracesStay
  <2>2. CASE d \notin rows
    <3>1. PICK p \in Partitions : pc[p] = "persist" /\ d = Call(p)
      BY <1>2, <2>2, RowsAndFailures
    <3>2. <<d, s>> \in accepted[s]
      BY <1>2, <3>1 DEF PInv, RecordInv, Left, PastRaw
    <3>3. Traced(<<d, s>>, s)
      BY <3>2 DEF Traced
    <3> QED
      BY <1>2, <1>t, <3>3, TracesStay
  <2> QED
    BY <2>1, <2>2
<1> QED
  BY <1>1, <1>2, ProcessInvariant, PTL DEF Spec

\* Message o of p has been dealt with.
Known(p, o) ==
    \E l \in 1..life : Traced(<<<<l, p, o>>, "raw">>, "raw") \/ <<l, p, o>> \in failed

\* NothingVanishes as it is inductive: for what is behind the reading position.
BehindInv ==
    \A p \in Partitions : \A o \in 1..(next[p] - 1) : Log[p][o] = "event" => Known(p, o)

LEMMA KnownStays ==
    ASSUME PInv, [Next]_vars, NEW p \in Partitions, NEW o, Known(p, o)
    PROVE  Known(p, o)'
<1>1. PICK l \in 1..life : Traced(<<<<l, p, o>>, "raw">>, "raw") \/ <<l, p, o>> \in failed
  BY DEF Known
<1>2. "raw" \in Statuses
  BY DEF Statuses
<1>3. Traced(<<<<l, p, o>>, "raw">>, "raw")' \/ <<l, p, o>> \in failed'
  BY <1>1, <1>2, TracesStay, RowsAndFailures
<1>4. l \in 1..life'
  BY RowsAndFailures DEF PInv, TypeOK
<1> QED
  BY <1>3, <1>4 DEF Known

\* The reading position moves over one message, which is dealt with, or back to what is
\* committed.
LEMMA Passing ==
    ASSUME PInv, [Next]_vars, NEW p \in Partitions, NEW o, o = next[p]
    PROVE  \/ next'[p] <= o
           \/ next'[p] = o + 1 /\ (Log[p][o] = "event" => Known(p, o)')
<1> USE DEF PInv
<1>n. next[p] \in Nat /\ committed[p] \in Nat /\ committed[p] <= next[p]
  BY DEF TypeOK, ClaimInv
<1>1. ASSUME NEW q \in Partitions, Fetch(q)
      PROVE  next'[p] <= o \/ (next'[p] = o + 1 /\ Log[p][o] # "event")
  <2>1. next[q] \in Positions(q)
    BY <1>1 DEF Fetch, HasMessage
  <2>2. \/ Log[q][next[q]] = "garbled" /\ Mark(q)
        \/ next' = next
    BY <1>1, <2>1, MessageKind DEF Fetch, Fail, Goto
  <2> QED
    BY <1>n, <2>2 DEF Mark, TypeOK
<1>2. ASSUME NEW q \in Partitions, Tally(q)
      PROVE  \/ next'[p] = o
             \/ next'[p] = o + 1 /\ (Log[p][o] = "event" => Known(p, o)')
  <2>1. next'[p] = IF p = q THEN next[p] + 1 ELSE next[p]
    BY <1>2 DEF Tally, Mark, TypeOK
  <2>2. ASSUME p = q
        PROVE  Known(p, o)'
    <3>1. life' = life /\ life \in 1..life
      <4>1. life' = life /\ pc[q] # "ended"
        BY <1>2 DEF Tally, bootVars
      <4>2. stage \notin Idle
        BY <4>1, ClaimsRun
      <4>3. life \in 1..MaxLives
        BY <4>2 DEF StageInv
      <4> QED
        BY <4>1, <4>3
    <3>2. CASE label[p] = "failed"
      <4>1. <<life, p, o>> \in failed'
        BY <1>2, <2>2, <3>2 DEF Tally, Call
      <4> QED
        BY <3>1, <4>1 DEF Known
    <3>3. CASE label[p] # "failed"
      <4>1. <<Call(p), "raw">> \in accepted["raw"]
        BY <1>2, <2>2, <3>3 DEF Tally, RecordInv, Left, PastRaw
      <4>2. Traced(<<Call(p), "raw">>, "raw")
        BY <4>1 DEF Traced
      <4>3. Known(p, o)
        BY <3>1, <4>2 DEF Known, Call
      <4> QED
        BY <4>3, KnownStays
    <3> QED
      BY <3>2, <3>3
  <2> QED
    BY <2>1, <2>2
<1>3. ASSUME Exit \/ Crash
      PROVE  next' = committed
  BY <1>3 DEF Exit, Crash, Gone
<1>4. ASSUME NEW q \in Partitions, ClaimStep(q) \/ Commit(q), ~Fetch(q), ~Tally(q)
      PROVE  next' = next
  BY <1>4 DEF ClaimStep, Enqueue, EnqueueRefused, CountArchived, Classify, Persist, EndClaim, Commit,
              Fail, Goto, claimVars
<1>5. ASSUME \/ \E s \in Statuses : \E R \in SUBSET Held(s) : Upload(s, R)
             \/ Launch \/ Migrate \/ MigrationDone \/ Boot \/ BootFails \/ Hang \/ Cancel
             \/ CloseArchiver \/ ArchiverClosed \/ CloseConsumer \/ Ended \/ UNCHANGED vars
      PROVE  next' = next
  BY <1>5 DEF Launch, Migrate, MigrationDone, Boot, BootFails, Hang, Cancel, CloseArchiver,
              ArchiverClosed, CloseConsumer, Ended, vars, Upload, claimVars
<1>6. CASE \E q \in Partitions : Fetch(q) \/ Tally(q)
  BY <1>n, <1>1, <1>2, <1>6
<1>7. CASE ~\E q \in Partitions : Fetch(q) \/ Tally(q)
  <2>1. next' = next \/ next' = committed
    BY <1>3, <1>4, <1>5, <1>7 DEF Next, MainStep
  <2> QED
    BY <1>n, <2>1
<1> QED
  BY <1>6, <1>7

\* A committed message was archived, or counted as failed (service.go:74-150,
\* consumer.go:106-114).
THEOREM NothingEverVanishes == Spec => []NothingVanishes
<1>1. Init => BehindInv
  BY DEF Init, BehindInv
<1>2. ASSUME PInv, BehindInv, [Next]_vars
      PROVE  BehindInv'
  <2> SUFFICES ASSUME NEW p \in Partitions, NEW o \in 1..(next'[p] - 1), Log[p][o] = "event"
               PROVE  Known(p, o)'
    BY DEF BehindInv
  <2>1. next[p] \in Nat
    BY <1>2 DEF PInv, TypeOK
  <2>2. CASE o \in 1..(next[p] - 1)
    BY <1>2, <2>2, KnownStays DEF BehindInv
  <2>3. CASE o \notin 1..(next[p] - 1)
    <3>1. o = next[p] /\ next'[p] = next[p] + 1
      <4>1. next'[p] \in Nat
        BY <1>2, PInvStep DEF PInv, TypeOK
      <4>2. next'[p] <= next[p] \/ next'[p] = next[p] + 1
        BY <1>2, Passing
      <4> QED
        BY <2>1, <2>3, <4>1, <4>2
    <3>2. ~(next'[p] <= next[p])
      BY <2>1, <3>1
    <3> QED
      BY <1>2, <3>1, <3>2, Passing
  <2> QED
    BY <2>2, <2>3
<1>3. ASSUME PInv, BehindInv
      PROVE  NothingVanishes
  <2> SUFFICES ASSUME NEW p \in Partitions, NEW o \in 1..(committed[p] - 1), Log[p][o] = "event"
               PROVE  Known(p, o)
    BY DEF NothingVanishes, Known
  <2>1. o \in 1..(next[p] - 1)
    <3>1. committed[p] \in Nat /\ marked[p] \in Nat /\ next[p] \in Nat
          /\ committed[p] <= marked[p] /\ marked[p] <= next[p]
      BY <1>3 DEF PInv, TypeOK, ClaimInv
    <3> QED
      BY <3>1
  <2> QED
    BY <1>3, <2>1 DEF BehindInv
<1> QED
  BY <1>1, <1>2, <1>3, ProcessInvariant, PTL DEF Spec

-----------------------------------------------------------------------------
(* Counters                                                                *)

AllAccepted == UNION {accepted[s] : s \in Statuses}

\* Records in the archive that incrementArchived has not counted yet.
Pending == {Record(p) : p \in {q \in Partitions : pc[q] = "archived"}}
CountedRecords == AllAccepted \ Pending

\* Calls of this life that are behind the reading position.
Done(d) == d[1] = life /\ d[3] < next[d[2]]
GivenDone == {d \in Calls : Done(d) /\ start[d[2]] <= d[3] /\ Log[d[2]][d[3]] # "garbled"}
RowsDone == {d \in rows : Done(d)}
Settled ==
    {d \in Calls : /\ Done(d)
                   /\ <<d, "raw">> \in accepted["raw"]
                   /\ \E s \in Finals : <<d, s>> \in accepted[s]}

\* What each counter counts.
CountInv ==
    /\ IsFiniteSet(GivenDone) /\ Outcomes + metrics["failed"] = Cardinality(GivenDone)
    /\ IsFiniteSet(rows) /\ metrics["processed"] <= Cardinality(RowsDone)
    /\ IsFiniteSet(AllAccepted) /\ metrics["archived"] = Cardinality(CountedRecords)
    /\ Outcomes <= Cardinality(Settled)

\* The memory is gone, or not used yet.
Fresh ==
    /\ metrics = NoCounts /\ accepted = NoRecords
    /\ start = next
    /\ \A p \in Partitions : pc[p] # "archived"

\* A step that neither counts nor archives: a message is passed over only if garbled.
Quiet ==
    /\ UNCHANGED <<metrics, accepted, life, start>>
    /\ \A p \in Partitions :
          \/ next'[p] = next[p]
          \/ next'[p] = next[p] + 1 /\ Log[p][next[p]] = "garbled"
    /\ Pending' = Pending

LEMMA SamePending ==
    ASSUME \A q \in Partitions : /\ pc'[q] = "archived" <=> pc[q] = "archived"
                                 /\ pc[q] = "archived" => Record(q)' = Record(q)
    PROVE  Pending' = Pending
  BY DEF Pending

LEMMA QuietGoto ==
    ASSUME PInv, NEW p \in Partitions, pc[p] # "archived",
           NEW l, NEW s, l # "archived", Goto(p, l, s), UNCHANGED <<metrics, accepted, life, start>>
    PROVE  Quiet
<1>1. \A q \in Partitions : /\ next'[q] = next[q]
                            /\ pc'[q] = (IF q = p THEN l ELSE pc[q])
                            /\ label'[q] = (IF q = p THEN s ELSE label[q])
  BY DEF PInv, TypeOK, Goto
<1>2. Pending' = Pending
  BY <1>1, SamePending DEF Record, Call
<1> QED
  BY <1>1, <1>2 DEF Quiet

LEMMA MarkPending ==
    ASSUME PInv, NEW p \in Partitions, pc[p] # "archived", Mark(p), life' = life
    PROVE  /\ Pending' = Pending
           /\ \A q \in Partitions : next'[q] = IF q = p THEN next[p] + 1 ELSE next[q]
<1>1. \A q \in Partitions : /\ next'[q] = (IF q = p THEN next[p] + 1 ELSE next[q])
                            /\ pc'[q] = (IF q = p THEN "poll" ELSE pc[q])
                            /\ label'[q] = (IF q = p THEN "raw" ELSE label[q])
  BY DEF PInv, TypeOK, Mark
<1> QED
  BY <1>1, SamePending DEF Record, Call

LEMMA Effects ==
    ASSUME PInv, [Next]_vars
    PROVE  \/ \E p \in Partitions : Enqueue(p) \/ CountArchived(p) \/ Tally(p)
           \/ Fresh'
           \/ Quiet
<1> USE DEF PInv
<1>1. ASSUME NEW p \in Partitions, ClaimStep(p), ~Enqueue(p), ~CountArchived(p), ~Tally(p)
      PROVE  Quiet
  <2>1. UNCHANGED <<metrics, accepted, life, start>> /\ pc[p] # "archived"
    BY <1>1 DEF ClaimStep, Fetch, EnqueueRefused, Classify, Persist, EndClaim, HasMessage,
                bootVars, archiveVars, countVars
  <2>2. CASE Fetch(p)
    <3>1. next[p] \in Positions(p)
      BY <2>2 DEF Fetch, HasMessage
    <3>2. \/ Log[p][next[p]] = "garbled" /\ Mark(p)
          \/ Goto(p, "tally", "failed")
          \/ Goto(p, "enqueue", "raw")
      BY <2>2, <3>1, MessageKind DEF Fetch, Fail
    <3>3. ASSUME Log[p][next[p]] = "garbled", Mark(p)
          PROVE  Quiet
      BY <2>1, <3>3, MarkPending DEF Quiet
    <3> QED
      BY <2>1, <3>2, <3>3, QuietGoto
  <2>3. CASE EnqueueRefused(p) \/ Classify(p) \/ Persist(p)
    BY <2>1, <2>3, QuietGoto DEF EnqueueRefused, Classify, Persist, Fail
  <2>4. CASE EndClaim(p)
    <3>1. UNCHANGED <<next, label>> /\ \A q \in Partitions : pc'[q] = IF q = p THEN "ended" ELSE pc[q]
      BY <2>4 DEF EndClaim, TypeOK
    <3>2. Pending' = Pending
      BY <2>1, <3>1, SamePending DEF Record, Call
    <3> QED
      BY <2>1, <3>1, <3>2 DEF Quiet
  <2> QED
    BY <1>1, <2>2, <2>3, <2>4 DEF ClaimStep
<1>2. ASSUME Exit \/ Crash
      PROVE  Fresh'
  BY <1>2 DEF Exit, Crash, Gone, Fresh
<1>3. ASSUME Boot
      PROVE  Fresh'
  BY <1>3 DEF Boot, Fresh, StageInv, Idle, countVars
<1>4. ASSUME \/ \E s \in Statuses : \E R \in SUBSET Held(s) : Upload(s, R)
             \/ \E p \in Partitions : Commit(p)
             \/ Launch \/ Migrate \/ MigrationDone \/ BootFails \/ Hang \/ Cancel
             \/ CloseArchiver \/ ArchiverClosed \/ CloseConsumer \/ Ended \/ UNCHANGED vars
      PROVE  Quiet
  <2>1. UNCHANGED <<metrics, accepted, life, start, next, pc, label>>
    BY <1>4 DEF Commit, Launch, Migrate, MigrationDone, BootFails, Hang, Cancel, CloseArchiver,
                ArchiverClosed, CloseConsumer, Ended, vars, Upload, bootVars, claimVars, archiveVars,
                countVars, Archive!Attempt, Archive!BeginClose, Archive!EndClose
  <2>2. Pending' = Pending
    BY <2>1 DEF Pending, Record, Call
  <2> QED
    BY <2>1, <2>2 DEF Quiet
<1> QED
  BY <1>1, <1>2, <1>3, <1>4 DEF Next, MainStep

\* The sets of CountInv when nothing is in memory, and the counters then.
LEMMA FreshCounts ==
    ASSUME Fresh, IsFiniteSet(rows), TypeOK
    PROVE  CountInv
<1>1. /\ metrics["processed"] = 0 /\ metrics["failed"] = 0 /\ metrics["duplicate"] = 0
      /\ metrics["fraud"] = 0 /\ metrics["archived"] = 0
  BY DEF Fresh, NoCounts, Counters
<1>2. GivenDone = {}
  <2> SUFFICES ASSUME NEW d \in GivenDone
               PROVE  FALSE
    OBVIOUS
  <2>1. d[2] \in Partitions
    BY DEF GivenDone, Calls
  <2>2. next[d[2]] \in Nat /\ start[d[2]] = next[d[2]] /\ d[3] \in Nat
    BY <2>1 DEF Fresh, TypeOK, GivenDone, Calls, Positions
  <2> QED
    BY <2>2 DEF GivenDone, Done
<1>3. AllAccepted = {} /\ CountedRecords = {} /\ Settled = {}
  <2>1. \A s \in Statuses : accepted[s] = {}
    BY DEF Fresh, NoRecords
  <2>2. "raw" \in Statuses
    BY DEF Statuses
  <2> QED
    BY <2>1, <2>2 DEF AllAccepted, CountedRecords, Settled
<1>4. IsFiniteSet({}) /\ Cardinality({}) = 0
  BY FS_EmptySet
<1>5. Cardinality(RowsDone) \in Nat
  BY FS_Subset, FS_CardinalityType DEF RowsDone
<1> QED
  BY <1>1, <1>2, <1>3, <1>4, <1>5 DEF CountInv, Outcomes

\* rows stays finite.
LEMMA RowsFinite ==
    ASSUME PInv, [Next]_vars, IsFiniteSet(rows)
    PROVE  IsFiniteSet(rows')
  BY RowsAndFailures, FS_AddElement

LEMMA CallParts ==
    ASSUME NEW d \in Calls
    PROVE  /\ d = <<d[1], d[2], d[3]>> /\ d[1] \in Nat
           /\ d[2] \in Partitions /\ d[3] \in Positions(d[2]) /\ d[3] \in Nat
  BY LivesAssumption DEF Calls, Positions

\* The sizes that CountInv speaks of are numbers.
LEMMA CountSizes ==
    ASSUME CountInv
    PROVE  /\ IsFiniteSet(RowsDone) /\ Cardinality(RowsDone) \in Nat
           /\ IsFiniteSet(CountedRecords) /\ Cardinality(CountedRecords) \in Nat
           /\ IsFiniteSet(Settled) /\ Cardinality(Settled) \in Nat
           /\ Cardinality(GivenDone) \in Nat
<1>1. IsFiniteSet(RowsDone) /\ IsFiniteSet(CountedRecords)
  BY FS_Subset DEF CountInv, RowsDone, CountedRecords
<1>2. IsFiniteSet(Settled)
  <2> DEFINE f == [d \in Settled |-> <<d, "raw">>]
  <2>1. "raw" \in Statuses
    BY DEF Statuses
  <2>2. f \in Injection(Settled, AllAccepted)
    BY <2>1 DEF Injection, IsInjective, AllAccepted, Settled
  <2> QED
    BY <2>2, FS_Injection DEF CountInv
<1> QED
  BY <1>1, <1>2, FS_CardinalityType DEF CountInv

\* No step but Fresh makes one of the sets smaller.
LEMMA DoneStays ==
    ASSUME PInv, life' = life,
           \A q \in Partitions : next'[q] = next[q] \/ next'[q] = next[q] + 1,
           NEW d \in Calls, Done(d)
    PROVE  Done(d)'
  BY CallParts DEF Done, PInv, TypeOK

LEMMA SetsGrow ==
    ASSUME PInv, life' = life, rows \subseteq rows',
           \A q \in Partitions : next'[q] = next[q] \/ next'[q] = next[q] + 1,
           \A t \in Statuses : accepted[t] \subseteq accepted'[t]
    PROVE  RowsDone \subseteq RowsDone' /\ Settled \subseteq Settled'
<1>1. \A d \in Calls : Done(d) => Done(d)'
  BY DoneStays
<1>2. RowsDone \subseteq RowsDone'
  BY <1>1 DEF RowsDone, PInv, TypeOK
<1>3. Settled \subseteq Settled'
  <2>1. "raw" \in Statuses /\ Finals \subseteq Statuses
    BY DEF Statuses, Finals
  <2> QED
    BY <1>1, <2>1 DEF Settled
<1> QED
  BY <1>2, <1>3

LEMMA Grown ==
    ASSUME NEW S, NEW T, S \subseteq T, IsFiniteSet(T)
    PROVE  Cardinality(S) \in Nat /\ Cardinality(T) \in Nat /\ Cardinality(S) <= Cardinality(T)
  BY FS_Subset, FS_CardinalityType

LEMMA QuietCounts ==
    ASSUME PInv, [Next]_vars, CountInv, Quiet
    PROVE  CountInv'
<1> USE DEF PInv
<1>n. /\ \A q \in Partitions : next[q] \in Nat
      /\ \A q \in Partitions : next'[q] = next[q] \/ next'[q] = next[q] + 1
  BY DEF TypeOK, Quiet
<1>1. GivenDone' = GivenDone
  <2>1. ASSUME NEW d \in Calls, Log[d[2]][d[3]] # "garbled"
        PROVE  Done(d)' <=> Done(d)
    <3>1. \/ next'[d[2]] = next[d[2]]
          \/ next'[d[2]] = next[d[2]] + 1 /\ d[3] # next[d[2]]
      BY <2>1, CallParts DEF Quiet
    <3>2. next[d[2]] \in Nat /\ d[3] \in Nat /\ life' = life
      BY CallParts, <1>n DEF Quiet
    <3> QED
      BY <3>1, <3>2 DEF Done
  <2> QED
    BY <2>1 DEF GivenDone, Quiet
<1>2. AllAccepted' = AllAccepted /\ CountedRecords' = CountedRecords
  BY DEF AllAccepted, CountedRecords, Quiet
<1>3. RowsDone \subseteq RowsDone' /\ Settled \subseteq Settled'
  BY <1>n, RowsAndFailures, SetsGrow DEF Quiet
<1>4. IsFiniteSet(rows') /\ IsFiniteSet(RowsDone')
  <2>1. IsFiniteSet(rows')
    BY RowsFinite DEF CountInv
  <2> QED
    BY <2>1, FS_Subset DEF RowsDone
<1>5. Settled' = Settled \/ IsFiniteSet(Settled')
  <2> DEFINE f == [d \in Settled' |-> <<d, "raw">>]
  <2>1. "raw" \in Statuses
    BY DEF Statuses
  <2>2. f \in Injection(Settled', AllAccepted')
    BY <2>1 DEF Injection, IsInjective, AllAccepted, Settled
  <2> QED
    BY <1>2, <2>2, FS_Injection DEF CountInv
<1>6. IsFiniteSet(Settled) /\ Cardinality(Settled) \in Nat /\ Cardinality(RowsDone) \in Nat
  BY CountSizes
<1>7. Cardinality(RowsDone) <= Cardinality(RowsDone') /\ Cardinality(RowsDone') \in Nat
  BY <1>3, <1>4, Grown
<1>8. Cardinality(Settled) <= Cardinality(Settled') /\ Cardinality(Settled') \in Nat
  BY <1>3, <1>5, <1>6, Grown
<1>9. metrics' = metrics /\ Outcomes' = Outcomes /\ Outcomes \in Nat /\ metrics["processed"] \in Nat
  BY DEF Quiet, Outcomes, TypeOK, Counters
<1> QED
  BY <1>1, <1>2, <1>4, <1>6, <1>7, <1>8, <1>9 DEF CountInv

LEMMA EnqueueCounts ==
    ASSUME PInv, [Next]_vars, CountInv, NEW p \in Partitions, Enqueue(p)
    PROVE  CountInv'
<1> USE DEF PInv
<1>1. /\ accepted' = [accepted EXCEPT ![label[p]] = @ \cup {Record(p)}]
      /\ Goto(p, "archived", label[p])
      /\ UNCHANGED <<life, start, metrics, rows, next>>
      /\ \A t \in Statuses : Record(p) \notin accepted[t]
  BY DEF Enqueue, Archive!Accept, bootVars, countVars, Goto
<1>2. label[p] \in Statuses /\ pc[p] = "enqueue"
  BY DEF Enqueue, ClaimInv
<1>3. \A t \in Statuses : accepted'[t] = IF t = label[p] THEN accepted[t] \cup {Record(p)} ELSE accepted[t]
  BY <1>1, <1>2 DEF TypeOK
<1>4. AllAccepted' = AllAccepted \cup {Record(p)} /\ Record(p) \notin AllAccepted
  BY <1>1, <1>2, <1>3 DEF AllAccepted
<1>5. Pending' = Pending \cup {Record(p)}
  <2>1. \A q \in Partitions : /\ pc'[q] = (IF q = p THEN "archived" ELSE pc[q])
                              /\ Record(q)' = Record(q)
    BY <1>1 DEF Goto, TypeOK, Record, Call
  <2> QED
    BY <1>2, <2>1 DEF Pending
<1>6. CountedRecords' = CountedRecords
  BY <1>4, <1>5 DEF CountedRecords
<1>7. IsFiniteSet(AllAccepted')
  BY <1>4, FS_AddElement DEF CountInv
<1>8. GivenDone' = GivenDone /\ RowsDone' = RowsDone /\ metrics' = metrics /\ Outcomes' = Outcomes
  BY <1>1 DEF GivenDone, RowsDone, Done, Outcomes
<1>9. Cardinality(Settled) <= Cardinality(Settled') /\ {Cardinality(Settled), Cardinality(Settled')} \subseteq Nat
  <2> DEFINE f == [d \in Settled' |-> <<d, "raw">>]
  <2>1. "raw" \in Statuses
    BY DEF Statuses
  <2>2. f \in Injection(Settled', AllAccepted')
    BY <2>1 DEF Injection, IsInjective, AllAccepted, Settled
  <2>3. IsFiniteSet(Settled')
    BY <1>7, <2>2, FS_Injection
  <2>4. Settled \subseteq Settled'
    BY <1>1, <1>3, SetsGrow
  <2> QED
    BY <2>3, <2>4, Grown
<1>10. Outcomes \in Nat
  BY DEF Outcomes, TypeOK, Counters
<1> QED
  BY <1>1, <1>6, <1>7, <1>8, <1>9, <1>10 DEF CountInv

LEMMA ArchivedCounts ==
    ASSUME PInv, [Next]_vars, CountInv, NEW p \in Partitions, CountArchived(p)
    PROVE  CountInv'
<1> USE DEF PInv
<1>1. /\ pc[p] = "archived" /\ metrics' = [metrics EXCEPT !["archived"] = @ + 1]
      /\ UNCHANGED <<life, start, accepted, rows>>
  BY DEF CountArchived, Counted, bootVars, archiveVars
<1>2. PICK l, s : Goto(p, l, s) /\ l # "archived"
  BY DEF CountArchived
<1>3. Record(p) \in AllAccepted
  <2>1. label[p] \in Statuses
    BY <1>1 DEF ClaimInv
  <2>2. Record(p) \in accepted[label[p]]
    BY <1>1 DEF RecordInv, Left
  <2> QED
    BY <2>1, <2>2 DEF AllAccepted
<1>4. Pending' = Pending \ {Record(p)} /\ Record(p) \in Pending
  <2>1. \A q \in Partitions : /\ pc'[q] = (IF q = p THEN l ELSE pc[q])
                              /\ q # p => Record(q)' = Record(q) /\ Record(q) # Record(p)
    BY <1>1, <1>2 DEF Goto, TypeOK, Record, Call
  <2> QED
    BY <1>1, <1>2, <2>1 DEF Pending
<1>5. CountedRecords' = CountedRecords \cup {Record(p)} /\ Record(p) \notin CountedRecords
  BY <1>1, <1>3, <1>4 DEF CountedRecords, AllAccepted
<1>6. IsFiniteSet(CountedRecords) /\ Cardinality(CountedRecords) \in Nat
  BY CountSizes
<1>7. Cardinality(CountedRecords') = Cardinality(CountedRecords) + 1
  BY <1>5, <1>6, FS_AddElement
<1>8. /\ metrics'["archived"] = metrics["archived"] + 1
      /\ Outcomes' = Outcomes /\ metrics'["processed"] = metrics["processed"]
      /\ metrics'["failed"] = metrics["failed"]
  BY <1>1 DEF TypeOK, Counters, Outcomes
<1>9. UNCHANGED <<GivenDone, RowsDone, Settled, AllAccepted>>
  BY <1>1, <1>2 DEF GivenDone, RowsDone, Settled, AllAccepted, Done, Goto
<1> QED
  BY <1>1, <1>7, <1>8, <1>9 DEF CountInv

LEMMA TallyCounts ==
    ASSUME PInv, [Next]_vars, CountInv, NEW p \in Partitions, Tally(p)
    PROVE  CountInv'
<1> USE DEF PInv
<1>1. /\ pc[p] = "tally" /\ metrics' = [metrics EXCEPT ![label[p]] = @ + 1]
      /\ UNCHANGED <<life, start, accepted, rows>> /\ Mark(p)
  BY DEF Tally, Counted, bootVars, archiveVars
<1>2. label[p] \in {"processed", "failed", "duplicate", "fraud"} /\ label[p] # "archived"
  BY <1>1 DEF ClaimInv
<1>3. Call(p) \in Calls /\ Log[p][next[p]] # "garbled"
  BY <1>1, CallTyped DEF InCall, ClaimInv
<1>4. Pending' = Pending /\ \A q \in Partitions : next'[q] = IF q = p THEN next[p] + 1 ELSE next[q]
  BY <1>1, MarkPending
<1>5. \A q \in Partitions : next[q] \in Nat /\ start[q] \in Nat /\ start[q] <= next[q]
  BY DEF TypeOK, ClaimInv
<1>6. \A d \in Calls : Done(d)' <=> Done(d) \/ d = Call(p)
  <2> SUFFICES ASSUME NEW d \in Calls
               PROVE  Done(d)' <=> Done(d) \/ d = Call(p)
    OBVIOUS
  <2>1. d = <<d[1], d[2], d[3]>> /\ d[2] \in Partitions /\ d[3] \in Nat
    BY CallParts
  <2>2. CASE d[2] = p
    <3>1. d = Call(p) <=> d[1] = life /\ d[3] = next[p]
      BY <2>1, <2>2 DEF Call
    <3> QED
      BY <1>1, <1>4, <1>5, <2>1, <2>2, <3>1 DEF Done
  <2>3. CASE d[2] # p
    <3>1. d # Call(p)
      BY <2>3 DEF Call
    <3> QED
      BY <1>1, <1>4, <2>1, <2>3, <3>1 DEF Done
  <2> QED
    BY <2>2, <2>3
<1>7. ~Done(Call(p))
  BY <1>5 DEF Done, Call
<1>8. GivenDone' = GivenDone \cup {Call(p)} /\ Call(p) \notin GivenDone
  <2>1. start[p] <= next[p] /\ start' = start
    BY <1>1, <1>5
  <2>2. Call(p)[2] = p /\ Call(p)[3] = next[p]
    BY DEF Call
  <2> DEFINE Ok(d) == start[d[2]] <= d[3] /\ Log[d[2]][d[3]] # "garbled"
  <2>3. Ok(Call(p))
    BY <1>3, <2>1, <2>2
  <2>4. GivenDone = {d \in Calls : Done(d) /\ Ok(d)}
    BY DEF GivenDone
  <2>5. GivenDone' = {d \in Calls : Done(d)' /\ Ok(d)}
    BY <2>1 DEF GivenDone
  <2> HIDE DEF Ok
  <2> QED
    BY <1>3, <1>6, <1>7, <2>3, <2>4, <2>5
<1>9. Cardinality(GivenDone') = Cardinality(GivenDone) + 1 /\ IsFiniteSet(GivenDone')
  BY <1>8, FS_AddElement DEF CountInv
<1>10. UNCHANGED <<AllAccepted, CountedRecords>>
  BY <1>1, <1>4 DEF AllAccepted, CountedRecords
<1>11. /\ metrics'["archived"] = metrics["archived"]
       /\ Outcomes' = Outcomes + (IF label[p] = "failed" THEN 0 ELSE 1)
       /\ metrics'["failed"] = metrics["failed"] + (IF label[p] = "failed" THEN 1 ELSE 0)
       /\ metrics'["processed"] = metrics["processed"] + (IF label[p] = "processed" THEN 1 ELSE 0)
       /\ \A k \in Counters : metrics[k] \in Nat
  BY <1>1, <1>2 DEF Outcomes, TypeOK, Counters
<1>12. metrics'["processed"] <= Cardinality(RowsDone')
  <2>1. RowsDone' = IF Call(p) \in rows THEN RowsDone \cup {Call(p)} ELSE RowsDone
    BY <1>1, <1>6 DEF RowsDone, TypeOK
  <2>2. label[p] = "processed" => Call(p) \in rows
    BY <1>1 DEF RecordInv, Left
  <2>3. Call(p) \notin RowsDone
    BY <1>7 DEF RowsDone
  <2>4. IsFiniteSet(RowsDone) /\ Cardinality(RowsDone) \in Nat
    BY CountSizes
  <2>5. Cardinality(RowsDone') = Cardinality(RowsDone) + IF Call(p) \in rows THEN 1 ELSE 0
    <3>1. Cardinality(RowsDone \cup {Call(p)}) = Cardinality(RowsDone) + 1
      BY <2>3, <2>4, FS_AddElement
    <3> QED
      BY <2>1, <2>4, <3>1
  <2>6. metrics["processed"] \in Nat /\ metrics["processed"] <= Cardinality(RowsDone)
    BY DEF CountInv, TypeOK, Counters
  <2> QED
    BY <1>11, <2>2, <2>4, <2>5, <2>6
<1>13. Outcomes' <= Cardinality(Settled')
  <2> DEFINE Recorded(d) == <<d, "raw">> \in accepted["raw"] /\ \E s \in Finals : <<d, s>> \in accepted[s]
  <2>1. /\ Settled = {d \in Calls : Done(d) /\ Recorded(d)}
        /\ Settled' = {d \in Calls : Done(d)' /\ Recorded(d)}
    BY <1>1 DEF Settled
  <2>2. label[p] # "failed" => Recorded(Call(p))
    BY <1>1 DEF RecordInv, Left, PastRaw, Settling
  <2> HIDE DEF Recorded
  <2>3. Settled' = IF Recorded(Call(p)) THEN Settled \cup {Call(p)} ELSE Settled
    BY <1>3, <1>6, <2>1
  <2>4. Call(p) \notin Settled
    BY <1>7, <2>1
  <2>5. IsFiniteSet(Settled) /\ Cardinality(Settled) \in Nat
    BY CountSizes
  <2>6. Cardinality(Settled') = Cardinality(Settled) + IF Recorded(Call(p)) THEN 1 ELSE 0
    BY <2>3, <2>4, <2>5, FS_AddElement
  <2>7. Outcomes \in Nat /\ Outcomes <= Cardinality(Settled)
    BY <1>11 DEF CountInv, Outcomes, Counters
  <2> QED
    BY <1>11, <2>2, <2>5, <2>6, <2>7
<1>14. Outcomes' + metrics'["failed"] = Cardinality(GivenDone')
  <2>1. Outcomes \in Nat /\ metrics["failed"] \in Nat /\ Outcomes + metrics["failed"] = Cardinality(GivenDone)
    BY <1>11 DEF CountInv, Outcomes, Counters
  <2> QED
    BY <1>9, <1>11, <2>1
<1> QED
  BY <1>1, <1>9, <1>10, <1>11, <1>12, <1>13, <1>14 DEF CountInv

LEMMA CountStep == PInv /\ CountInv /\ [Next]_vars => CountInv'
<1> SUFFICES ASSUME PInv, CountInv, [Next]_vars
             PROVE  CountInv'
  OBVIOUS
<1>1. CASE Fresh'
  <2>1. IsFiniteSet(rows') /\ TypeOK'
    BY RowsFinite, Typed DEF CountInv
  <2>2. (Fresh /\ IsFiniteSet(rows) /\ TypeOK => CountInv)'
    BY FreshCounts, PTL
  <2> QED
    BY <1>1, <2>1, <2>2
<1> QED
  BY <1>1, Effects, QuietCounts, EnqueueCounts, ArchivedCounts, TallyCounts

LEMMA CountsHold == Spec => [](PInv /\ CountInv)
<1>1. Init => CountInv
  <2> SUFFICES ASSUME Init
               PROVE  CountInv
    OBVIOUS
  <2>1. Fresh
    BY DEF Init, Fresh
  <2>2. IsFiniteSet(rows)
    BY FS_EmptySet DEF Init
  <2> QED
    BY <2>1, <2>2, FreshCounts, InitPInv DEF PInv
<1> QED
  BY <1>1, InitPInv, PInvStep, CountStep, PTL DEF Spec

\* A settled call has two records that are counted.
LEMMA TwoRecordsEach ==
    ASSUME TypeOK, CountInv
    PROVE  2 * Cardinality(Settled) <= Cardinality(CountedRecords)
<1> DEFINE Raw == {r \in CountedRecords : r[2] = "raw"}
           Final == {r \in CountedRecords : r[2] # "raw"}
           status(d) == CHOOSE s \in Finals : <<d, s>> \in accepted[s]
           f == [d \in Settled |-> <<d, "raw">>]
           g == [d \in Settled |-> <<d, status(d)>>]
<1>t. "raw" \in Statuses /\ Finals \subseteq Statuses /\ "raw" \notin Finals
  BY DEF Statuses, Finals
<1>1. ASSUME NEW d \in Settled, NEW s \in Statuses, <<d, s>> \in accepted[s]
      PROVE  <<d, s>> \in CountedRecords
  <2>1. <<d, s>> \in AllAccepted
    BY <1>1 DEF AllAccepted
  <2>2. ASSUME NEW q \in Partitions, <<d, s>> = Record(q)
        PROVE  FALSE
    <3>1. d = Call(q)
      BY <2>2 DEF Record
    <3>2. d[2] = q /\ d[3] = next[q]
      BY <3>1 DEF Call
    <3>3. next[q] \in Nat
      BY DEF TypeOK
    <3> QED
      BY <3>2, <3>3 DEF Settled, Done
  <2> QED
    BY <2>1, <2>2 DEF CountedRecords, Pending
<1>2. \A d \in Settled : status(d) \in Finals /\ <<d, status(d)>> \in accepted[status(d)]
  BY DEF Settled
<1> HIDE DEF status
<1>3. f \in Injection(Settled, Raw)
  <2>1. \A d \in Settled : <<d, "raw">> \in Raw
    BY <1>1, <1>t DEF Settled
  <2> QED
    BY <2>1 DEF Injection, IsInjective
<1>4. g \in Injection(Settled, Final)
  <2>1. \A d \in Settled : <<d, status(d)>> \in CountedRecords /\ status(d) # "raw"
    BY <1>1, <1>2, <1>t
  <2>2. \A d \in Settled : <<d, status(d)>> \in Final
    BY <2>1
  <2>3. \A d, e \in Settled : <<d, status(d)>> = <<e, status(e)>> => d = e
    OBVIOUS
  <2> QED
    BY <2>2, <2>3 DEF Injection, IsInjective
<1>5. IsFiniteSet(Raw) /\ IsFiniteSet(Final)
  BY CountSizes, FS_Subset
<1>6. Cardinality(Settled) <= Cardinality(Raw) /\ Cardinality(Settled) <= Cardinality(Final)
  BY <1>3, <1>4, <1>5, FS_Injection
<1>7. Cardinality(CountedRecords) = Cardinality(Raw) + Cardinality(Final)
  <2>1. Raw \cup Final = CountedRecords /\ Raw \cap Final = {}
    OBVIOUS
  <2> HIDE DEF Raw, Final
  <2>2. Cardinality({}) = 0
    BY FS_EmptySet
  <2>3. Cardinality(Raw) \in Nat /\ Cardinality(Final) \in Nat
    BY <1>5, FS_CardinalityType
  <2>4. Cardinality(Raw \cup Final) = Cardinality(Raw) + Cardinality(Final) - Cardinality(Raw \cap Final)
    BY <1>5, FS_Union
  <2>5. /\ Cardinality(Raw \cup Final) = Cardinality(CountedRecords)
        /\ Cardinality(Raw \cap Final) = 0
    BY <2>1, <2>2, Zenon
  <2> QED
    BY <2>3, <2>4, <2>5
<1>8. {Cardinality(Settled), Cardinality(Raw), Cardinality(Final)} \subseteq Nat
  BY <1>5, CountSizes, FS_CardinalityType
<1> QED
  BY <1>6, <1>7, <1>8

\* The counters never claim what has not been done, whoever reads them and when
\* (service.go:188-252, cmd/main.go:183-209).
THEOREM ReportsAlwaysTrue == Spec => []ReportsTrue
<1>1. ASSUME PInv, CountInv
      PROVE  ReportsTrue
  <2>1. metrics["processed"] <= Cardinality(OfThisLife(rows))
    <3>1. RowsDone \subseteq OfThisLife(rows) /\ IsFiniteSet(OfThisLife(rows))
      BY <1>1, FS_Subset DEF CountInv, RowsDone, Done, OfThisLife
    <3>2. /\ Cardinality(RowsDone) <= Cardinality(OfThisLife(rows))
          /\ Cardinality(RowsDone) \in Nat /\ Cardinality(OfThisLife(rows)) \in Nat
      BY <3>1, Grown
    <3> QED
      BY <1>1, <3>2 DEF PInv, TypeOK, Counters, CountInv
  <2>2. 2 * Outcomes <= metrics["archived"]
    <3>1. 2 * Cardinality(Settled) <= Cardinality(CountedRecords)
      BY <1>1, TwoRecordsEach DEF PInv
    <3>2. Cardinality(Settled) \in Nat /\ Cardinality(CountedRecords) \in Nat
      BY <1>1, CountSizes
    <3>3. Outcomes \in Nat /\ Outcomes <= Cardinality(Settled)
      BY <1>1 DEF CountInv, Outcomes, PInv, TypeOK, Counters
    <3> QED
      BY <1>1, <3>1, <3>2, <3>3 DEF CountInv
  <2>3. metrics["archived"] <= Cardinality(AllAccepted)
    BY <1>1, Grown DEF CountInv, CountedRecords
  <2> QED
    BY <2>1, <2>2, <2>3 DEF ReportsTrue, AllAccepted
<1> QED
  BY <1>1, CountsHold, PTL

\* The final metrics count every call of ProcessEvent once, also those that were running
\* when the signal arrived (cmd/main.go:154-170).
THEOREM FinalMetricsAreComplete == Spec => []FinalMetricsComplete
<1>1. ASSUME PInv, CountInv, stage = "closed"
      PROVE  Given = GivenDone
  <2>1. \A p \in Partitions : ~InCall(p)
    BY <1>1 DEF PInv, StageInv, InCall
  <2>2. \A d \in Calls : d[2] \in Partitions
    BY CallParts
  <2> QED
    BY <2>1, <2>2 DEF Given, GivenDone, OfThisLife, Done
<1>2. PInv /\ CountInv => FinalMetricsComplete
  BY <1>1 DEF FinalMetricsComplete, CountInv
<1> QED
  BY <1>2, CountsHold, PTL
-----------------------------------------------------------------------------
(* The end of the process                                                  *)

\* The archive may have a record of status t of the call that p has in hand.
Reached(p, t) ==
    \/ pc[p] \in {"persist", "tally"}
    \/ pc[p] = "archived" /\ (t = "raw" \/ label[p] \in Finals)
    \/ pc[p] = "classify" /\ t = "raw"
    \/ pc[p] = "enqueue" /\ label[p] \in Finals /\ t = "raw"

\* The archive is ahead of no claim.
Behind(r) ==
    LET p == r[1][2] o == r[1][3] IN
    o < next[p] \/ (o = next[p] /\ Reached(p, r[2]))

EndInv ==
    /\ stage \in {"up", "cancelled"} => phase = "open"
    /\ stage = "closing" => phase = "closing"
    /\ hung => stage = "closing"
    /\ \A s \in Statuses : \A r \in accepted[s] : Behind(r)

\* Where a step takes the claim that makes it, and what it leaves of the others.
Moves(p) ==
    \/ next'[p] = next[p] + 1
    \/ /\ next'[p] = next[p]
       /\ \/ pc[p] \in {"poll", "persist"} \/ Enqueue(p)
          \/ pc[p] = "archived" /\ label[p] = "raw" /\ pc'[p] = "classify"
          \/ pc[p] = "archived" /\ label[p] \in Finals
          \/ pc[p] = "classify" /\ pc'[p] = "enqueue" /\ label'[p] \in Finals
       /\ pc[p] = "persist" \/ (pc[p] = "archived" /\ label[p] \in Finals) => pc'[p] \in {"persist", "tally"}
    \/ next'[p] = next[p] /\ pc'[p] = "tally"

Others(p) == \A q \in Partitions \ {p} : next'[q] = next[q] /\ pc'[q] = pc[q] /\ label'[q] = label[q]

LEMMA ClaimMoves ==
    ASSUME PInv, NEW p \in Partitions, ClaimStep(p)
    PROVE  Moves(p) /\ Others(p) /\ (accepted' = accepted \/ Enqueue(p))
<1>1. /\ next \in [Partitions -> Nat] /\ pc \in [Partitions -> Locations]
      /\ label \in [Partitions -> Statuses \cup Counters]
  BY DEF PInv, TypeOK
<1>2. ASSUME NEW l, NEW s, Goto(p, l, s)
      PROVE  pc'[p] = l /\ label'[p] = s /\ next'[p] = next[p] /\ Others(p)
  BY <1>1, <1>2 DEF Goto, Others
<1>3. ASSUME Mark(p)
      PROVE  next'[p] = next[p] + 1 /\ Others(p)
  BY <1>1, <1>3 DEF Mark, Others
<1>4. CASE Fetch(p)
  <2>1. pc[p] = "poll" /\ accepted' = accepted /\ next[p] \in Positions(p)
    BY <1>4 DEF Fetch, HasMessage, archiveVars
  <2>2. Mark(p) \/ (\E s : Goto(p, "tally", s)) \/ (\E s : Goto(p, "enqueue", s))
    BY <1>4, <2>1, MessageKind DEF Fetch, Fail
  <2> QED
    BY <1>2, <1>3, <2>1, <2>2 DEF Moves
<1>5. CASE Enqueue(p)
  <2>1. Goto(p, "archived", label[p]) /\ pc[p] = "enqueue"
    BY <1>5 DEF Enqueue
  <2> QED
    BY <1>2, <1>5, <2>1 DEF Moves
<1>6. CASE EnqueueRefused(p)
  <2>1. Goto(p, "tally", "failed") /\ accepted' = accepted
    BY <1>6 DEF EnqueueRefused, Fail, archiveVars
  <2> QED
    BY <1>2, <2>1 DEF Moves
<1>7. CASE CountArchived(p)
  <2>1. pc[p] = "archived" /\ accepted' = accepted /\ label[p] \in Statuses
    BY <1>7 DEF CountArchived, archiveVars, PInv, ClaimInv
  <2>2. CASE label[p] = "raw"
    <3>1. Goto(p, "classify", "raw")
      BY <1>7, <2>2 DEF CountArchived
    <3>2. pc'[p] = "classify" /\ next'[p] = next[p] /\ Others(p)
      BY <1>2, <3>1
    <3>3. label[p] \notin Finals
      BY <2>2 DEF Finals
    <3> QED
      BY <2>1, <2>2, <3>2, <3>3 DEF Moves
  <2>3. CASE label[p] \in Finals
    <3>1. Goto(p, "persist", "accepted") \/ Goto(p, "tally", label[p])
      BY <1>7, <2>3 DEF CountArchived, Finals
    <3>2. pc'[p] \in {"persist", "tally"} /\ next'[p] = next[p] /\ Others(p)
      BY <1>2, <3>1
    <3> QED
      BY <2>1, <2>3, <3>2 DEF Moves
  <2> QED
    BY <2>1, <2>2, <2>3 DEF Statuses
<1>8. CASE Classify(p)
  <2>1. pc[p] = "classify" /\ accepted' = accepted
    BY <1>8 DEF Classify, archiveVars
  <2>2. (\E s \in Finals : Goto(p, "enqueue", s)) \/ Goto(p, "tally", "failed")
    BY <1>8 DEF Classify, Fail
  <2> QED
    BY <1>2, <2>1, <2>2 DEF Moves
<1>9. CASE Persist(p)
  <2>1. pc[p] = "persist" /\ accepted' = accepted
    BY <1>9 DEF Persist, archiveVars
  <2>2. Goto(p, "tally", "processed") \/ Goto(p, "tally", "failed")
    BY <1>9 DEF Persist, Fail
  <2> QED
    BY <1>2, <2>1, <2>2 DEF Moves
<1>10. CASE Tally(p)
  BY <1>3, <1>10 DEF Tally, archiveVars, Moves
<1>11. CASE EndClaim(p)
  BY <1>1, <1>11 DEF EndClaim, archiveVars, Moves, Others
<1> QED
  BY <1>4, <1>5, <1>6, <1>7, <1>8, <1>9, <1>10, <1>11 DEF ClaimStep

\* The steps of a claim leave main alone, and the archive open or not as it was.
LEMMA ClaimEnd ==
    ASSUME PInv, EndInv, NEW p \in Partitions, ClaimStep(p)
    PROVE  EndInv'
<1>1. UNCHANGED <<stage, phase, hung>>
  BY DEF ClaimStep, Fetch, Enqueue, EnqueueRefused, CountArchived, Classify, Persist, Tally, EndClaim,
         archiveVars, Archive!Accept
<1> SUFFICES ASSUME NEW s \in Statuses, NEW r \in accepted'[s]
             PROVE  Behind(r)'
  BY <1>1 DEF EndInv
<1> DEFINE q == r[1][2]
           o == r[1][3]
<1>2. /\ \A v \in Partitions : next[v] \in Nat
      /\ next' \in [Partitions -> Nat] /\ pc' \in [Partitions -> Locations]
      /\ label' \in [Partitions -> Statuses \cup Counters]
      /\ accepted' \in [Statuses -> SUBSET Records]
  BY ClaimTyped DEF PInv, TypeOK
<1>3. r[1] \in Calls /\ r[2] \in Statuses /\ q \in Partitions /\ o \in Nat
  <2>1. r \in Records
    BY <1>2
  <2>2. r[1] \in Calls /\ r[2] \in Statuses
    BY <2>1 DEF Records
  <2> QED
    BY <2>2, CallParts DEF Positions
<1>4. Moves(p) /\ Others(p) /\ (accepted' = accepted \/ Enqueue(p))
  BY ClaimMoves
<1>5. r \in accepted[s] \/ (Enqueue(p) /\ r = Record(p))
  <2>1. CASE accepted' = accepted
    BY <2>1
  <2>2. CASE Enqueue(p)
    BY <2>2 DEF Enqueue, Archive!Accept, PInv, TypeOK
  <2> QED
    BY <1>4, <2>1, <2>2
<1>6. CASE r \in accepted[s] /\ q # p
  <2>1. Behind(r)
    BY <1>6 DEF EndInv
  <2> QED
    BY <1>3, <1>4, <1>6, <2>1 DEF Behind, Reached, Others
<1>7. CASE r \in accepted[s] /\ q = p
  <2>1. o < next[p] \/ (o = next[p] /\ Reached(p, r[2]))
    BY <1>7 DEF EndInv, Behind
  <2>2. CASE next'[p] = next[p] + 1
    BY <1>2, <1>3, <1>7, <2>1, <2>2 DEF Behind
  <2>3. CASE next'[p] = next[p] /\ o < next[p]
    BY <1>7, <2>3 DEF Behind
  <2>4. CASE next'[p] = next[p] /\ Reached(p, r[2])
    <3>1. next'[p] # next[p] + 1
      BY <1>2, <2>4
    <3>2. CASE Enqueue(p)
      <4>1. r[2] = "raw" /\ pc'[p] = "archived"
        BY <2>4, <3>2 DEF Reached, Enqueue, Goto, PInv, TypeOK
      <4> QED
        BY <1>7, <2>1, <2>4, <4>1 DEF Behind, Reached
    <3>3. CASE ~Enqueue(p)
      <4>1. Reached(p, r[2])'
        BY <1>3, <1>4, <2>4, <3>1, <3>3 DEF Reached, Moves, Statuses, Finals
      <4> QED
        BY <1>7, <2>1, <2>4, <4>1 DEF Behind
    <3> QED
      BY <3>2, <3>3
  <2>5. next'[p] \in {next[p], next[p] + 1}
    BY <1>4 DEF Moves
  <2> QED
    BY <2>1, <2>2, <2>3, <2>4, <2>5
<1>8. CASE Enqueue(p) /\ r = Record(p)
  <2>1. /\ pc'[p] = "archived" /\ label'[p] = label[p] /\ next'[p] = next[p]
        /\ label[p] \in Statuses
    BY <1>8 DEF Enqueue, Goto, PInv, TypeOK, ClaimInv
  <2>2. q = p /\ o = next[p] /\ r[2] = label[p]
    BY <1>8 DEF Record, Call
  <2> QED
    BY <2>1, <2>2 DEF Behind, Reached, Statuses, Finals
<1> QED
  BY <1>5, <1>6, <1>7, <1>8

LEMMA EndStep == PInv /\ EndInv /\ [Next]_vars => EndInv'
<1> SUFFICES ASSUME PInv, EndInv, [Next]_vars
             PROVE  EndInv'
  OBVIOUS
<1>1. ASSUME UNCHANGED <<accepted, claimVars>>
      PROVE  (\A s \in Statuses : \A r \in accepted[s] : Behind(r))'
  BY <1>1 DEF EndInv, Behind, Reached, claimVars
<1>2. ASSUME accepted' = NoRecords
      PROVE  (\A s \in Statuses : \A r \in accepted[s] : Behind(r))'
  BY <1>2 DEF NoRecords
<1>3. CASE Launch \/ Migrate \/ MigrationDone \/ BootFails \/ Ended \/ UNCHANGED vars
  BY <1>1, <1>3 DEF Launch, Migrate, MigrationDone, BootFails, Ended, vars, EndInv, archiveVars
<1>4. CASE Boot
  <2>1. stage = "booting" /\ stage' = "up" /\ phase' = "open"
    BY <1>4 DEF Boot
  <2>2. UNCHANGED <<accepted, hung>>
    BY <1>4 DEF Boot
  <2>3. accepted' = NoRecords
    BY <2>1, <2>2 DEF PInv, StageInv, Idle
  <2> QED
    BY <1>2, <2>1, <2>2, <2>3 DEF EndInv
<1>5. ASSUME NEW p \in Partitions, ClaimStep(p)
      PROVE  EndInv'
  BY <1>5, ClaimEnd
<1>6. ASSUME NEW p \in Partitions, Commit(p)
      PROVE  EndInv'
  BY <1>1, <1>6 DEF Commit, EndInv, archiveVars
<1>7. ASSUME NEW s \in Statuses, NEW R \in SUBSET Held(s), Upload(s, R)
      PROVE  EndInv'
  BY <1>1, <1>7 DEF Upload, Archive!Attempt, EndInv
<1>8. CASE Hang \/ Cancel
  BY <1>1, <1>8 DEF Hang, Cancel, EndInv, archiveVars
<1>9. CASE MainStep \/ Crash
  <2>1. CASE CloseArchiver
    BY <1>1, <2>1 DEF CloseArchiver, Archive!BeginClose, EndInv
  <2>2. CASE ArchiverClosed
    BY <1>1, <2>2 DEF ArchiverClosed, Archive!EndClose, EndInv
  <2>3. CASE CloseConsumer
    BY <1>1, <2>3 DEF CloseConsumer, archiveVars, EndInv
  <2>4. CASE Exit \/ Crash
    BY <1>2, <2>4 DEF Exit, Crash, Gone, EndInv
  <2> QED
    BY <1>9, <2>1, <2>2, <2>3, <2>4 DEF MainStep
<1> QED
  BY <1>3, <1>4, <1>5, <1>6, <1>7, <1>8, <1>9 DEF Next

LEMMA EndHolds == Spec => [](PInv /\ EndInv)
<1>1. Init => EndInv
  BY DEF Init, EndInv, NoRecords
<1> QED
  BY <1>1, InitPInv, PInvStep, EndStep, PTL DEF Spec

\* Guards of ClaimStep(p): a claim waits for nothing but its next message.  A record is
\* refused at once, or taken, if it is not one that the archive already has.
ClaimReady(p) ==
    \/ pc[p] = "poll" /\ (stage # "up" \/ HasMessage(p))
    \/ pc[p] = "enqueue" /\ (phase # "open" \/ \A s \in Statuses : Record(p) \notin accepted[s])
    \/ pc[p] \in {"archived", "classify", "persist", "tally"}

\* Guards of MainStep.
MainReady ==
    \/ stage = "cancelled" /\ phase = "open"
    \/ /\ stage = "closing" /\ phase = "closing" /\ ~hung
       /\ \A s \in Statuses : accepted[s] \subseteq stored[s] \cup refused
    \/ stage = "archiverClosed" /\ \A p \in Partitions : pc[p] = "ended"
    \/ stage = "closed"

\* The guard of an upload that tries something new.
UploadReady == phase # "closed" /\ \E s \in Statuses : Untried(s) # {}

\* Main waits for uploads, for claims, or for an upload that never returns, and whoever it
\* waits for can go on; claims wait for no one else, not even for the archiver.
NeverStuck ==
    /\ \A p \in Partitions : pc[p] \notin {"ended", "poll"} => ClaimReady(p)
    /\ stage \in {"cancelled", "closing", "archiverClosed", "closed"} =>
          \/ MainReady \/ hung
          \/ stage = "closing" /\ UploadReady
          \/ stage = "archiverClosed" /\ \E p \in Partitions : pc[p] # "ended" /\ ClaimReady(p)

\* No order of a signal, the claims and the uploads leaves the shutdown waiting for
\* something that waits for it, for any log, partitions and lives (cmd/main.go:134-161,
\* service.go:202-220).
THEOREM ShutdownNeverStuck == Spec => []NeverStuck
<1>1. ASSUME PInv, EndInv, NEW p \in Partitions, pc[p] \notin {"ended", "poll"}
      PROVE  ClaimReady(p)
  <2>1. CASE pc[p] = "enqueue" /\ phase = "open"
    <3> SUFFICES ASSUME NEW s \in Statuses, Record(p) \in accepted[s]
                 PROVE  FALSE
      BY <2>1 DEF ClaimReady
    <3>1. next[p] \in Nat
      BY <1>1 DEF PInv, TypeOK
    <3>2. Reached(p, label[p])
      <4>1. Behind(Record(p))
        BY <1>1 DEF EndInv
      <4> QED
        BY <3>1, <4>1 DEF Behind, Record, Call
    <3>3. label[p] \in Finals /\ label[p] = "raw"
      BY <2>1, <3>2 DEF Reached
    <3> QED
      BY <3>3 DEF Finals
  <2>2. pc[p] \in Locations
    BY <1>1 DEF PInv, TypeOK
  <2> QED
    BY <1>1, <2>1, <2>2 DEF ClaimReady, Locations
<1>2. ASSUME PInv, EndInv, stage = "closing"
      PROVE  MainReady \/ hung \/ UploadReady
  <2>1. phase = "closing"
    BY <1>2 DEF EndInv
  <2>2. CASE \A s \in Statuses : accepted[s] \subseteq stored[s] \cup refused
    BY <1>2, <2>1, <2>2 DEF MainReady
  <2>3. CASE \E s \in Statuses : Untried(s) # {}
    BY <2>1, <2>3 DEF UploadReady
  <2> QED
    BY <2>2, <2>3 DEF Untried
<1>3. ASSUME PInv, EndInv, stage = "archiverClosed"
      PROVE  MainReady \/ \E p \in Partitions : pc[p] # "ended" /\ ClaimReady(p)
  <2>1. \A p \in Partitions : pc[p] = "poll" => ClaimReady(p)
    BY <1>3 DEF ClaimReady
  <2> QED
    BY <1>1, <1>3, <2>1 DEF MainReady
<1>4. ASSUME PInv, EndInv
      PROVE  NeverStuck
  BY <1>1, <1>2, <1>3, <1>4 DEF NeverStuck, MainReady, EndInv
<1> QED
  BY <1>4, EndHolds, PTL

-----------------------------------------------------------------------------
(* The schema                                                              *)

SchemaInv ==
    /\ stage = "migrating" => schema = "dirty"
    /\ schema = "dirty" => stage \in Idle
    /\ stage \notin Idle => schema = "ready"

LEMMA SchemaStep == PInv /\ SchemaInv /\ [Next]_vars => SchemaInv'
<1> SUFFICES ASSUME PInv, SchemaInv, [Next]_vars
             PROVE  SchemaInv'
  OBVIOUS
<1> USE DEF SchemaInv, Idle
<1>0. CASE Boot
  <2>1. stage' = "up" /\ schema = "ready" /\ schema' = schema
    BY <1>0 DEF Boot, Migrated
  <2> QED
    BY <2>1
<1>1. CASE Launch \/ Migrate \/ MigrationDone \/ BootFails \/ Ended \/ UNCHANGED vars
  BY <1>1 DEF Launch, Migrate, MigrationDone, BootFails, Ended, vars, bootVars
<1>2. ASSUME NEW p \in Partitions, ClaimStep(p) \/ Commit(p)
      PROVE  SchemaInv'
  BY <1>2 DEF ClaimStep, Fetch, Enqueue, EnqueueRefused, CountArchived, Classify, Persist, Tally, EndClaim,
              Commit, bootVars
<1>3. ASSUME NEW s \in Statuses, NEW R \in SUBSET Held(s), Upload(s, R)
      PROVE  SchemaInv'
  BY <1>3 DEF Upload, bootVars
<1>4. CASE Hang \/ Cancel \/ MainStep \/ Crash
  BY <1>4 DEF Hang, Cancel, MainStep, CloseArchiver, ArchiverClosed, CloseConsumer, Exit, Crash, Gone,
              bootVars
<1> QED
  BY <1>0, <1>1, <1>2, <1>3, <1>4 DEF Next

\* A migration that is cut short is never taken up again: no later start gets past the
\* dirty schema, however often the supervisor tries (db.go:35-54).
CutShortForGood ==
    schema = "dirty" /\ stage # "migrating" =>
        schema' = "dirty" /\ stage' \in {"down", "booting"} /\ life' = life

THEOREM CutMigrationIsFinal == Spec => [][CutShortForGood]_vars
<1>1. Init => SchemaInv
  BY DEF Init, SchemaInv, Idle
<1>2. ASSUME PInv, SchemaInv, [Next]_vars
      PROVE  CutShortForGood
  <2> SUFFICES ASSUME schema = "dirty", stage # "migrating"
               PROVE  schema' = "dirty" /\ stage' \in {"down", "booting"} /\ life' = life
    BY DEF CutShortForGood
  <2>1. /\ stage \in {"down", "booting"} /\ accepted = NoRecords
        /\ \A p \in Partitions : pc[p] = "ended"
    BY <1>2 DEF SchemaInv, PInv, StageInv, Idle
  <2>2. CASE Launch \/ BootFails \/ Ended \/ UNCHANGED vars
    BY <2>1, <2>2 DEF Launch, BootFails, Ended, vars, bootVars
  <2>3. ~Migrate /\ ~MigrationDone /\ ~Boot /\ ~Hang /\ ~Cancel /\ ~MainStep /\ ~Crash
    BY <2>1 DEF Migrate, MigrationDone, Boot, Migrated, Hang, Cancel, MainStep, CloseArchiver,
                ArchiverClosed, CloseConsumer, Exit, Crash
  <2>4. \A p \in Partitions : ~ClaimStep(p) /\ ~Commit(p)
    BY <2>1 DEF ClaimStep, Fetch, Enqueue, EnqueueRefused, CountArchived, Classify, Persist, Tally, EndClaim,
                Commit, HasMessage
  <2>5. ASSUME NEW s \in Statuses, NEW R \in SUBSET Held(s), Upload(s, R)
        PROVE  FALSE
    BY <2>1, <2>5 DEF Upload, Held, NoRecords
  <2> QED
    BY <1>2, <2>2, <2>3, <2>4, <2>5 DEF Next
<1> QED
  BY <1>1, <1>2, InitPInv, PInvStep, SchemaStep, PTL DEF Spec
=============================================================================
