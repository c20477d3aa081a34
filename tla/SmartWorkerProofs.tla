-------------------------- MODULE SmartWorkerProofs --------------------------
(***************************************************************************)
(* What holds of the Smart Worker chain for every log, every number of     *)
(* partitions, workers, event ids and addresses, every threshold and all   *)
(* bounds, proved with TLAPS.                                              *)
(***************************************************************************)
EXTENDS SmartWorker, FiniteSetTheorems, TLAPS

-----------------------------------------------------------------------------
(* Claims and the event in hand                                            *)

\* A claim with one of these is inside ProcessEvent.
InChain == {"raw", "setnx", "duplicate", "score", "fraud", "accepted", "insert", "stats",
            "commit"}

\* A claim exists from its assignment on, reads at positions from its start on, has a
\* message of the log in hand while it is inside ProcessEvent, and marks only what it
\* has passed.
PositionInv ==
    \A c \in Claims :
        /\ pc[c] = "unborn" <=> gen[c[1]] < c[2]
        /\ pc[c] # "unborn" => 1 <= start[c] /\ start[c] <= next[c]
        /\ pc[c] = "unborn" => next[c] = 0 /\ marked[c] = 0
        /\ pc[c] \in InChain => next[c] <= Len(Log[c[1]])
        /\ marked[c] # 0 => start[c] < marked[c] /\ marked[c] <= next[c]

TypeInv == TypeOK /\ PositionInv

\* What the constants say of claims, messages and deliveries.
LEMMA ClaimFacts ==
    ASSUME NEW c \in Claims
    PROVE  c[1] \in Partitions /\ c[2] \in 1..MaxGen /\ c = <<c[1], c[2]>>
  BY DEF Claims

LEMMA MessageFacts ==
    ASSUME NEW p \in Partitions, NEW o \in Positions(p)
    PROVE  /\ Log[p] \in Seq(Message)
           /\ Log[p][o] \in Message
  BY LogType DEF Positions

LEMMA LengthFacts == \A p \in Partitions : Len(Log[p]) \in Nat
  BY LogType

LEMMA DeliveryFacts ==
    ASSUME NEW c \in Claims, NEW o \in Positions(c[1])
    PROVE  <<c, o>> \in Deliveries
  BY DEF Deliveries

\* What can be said of a claim inside ProcessEvent.
LEMMA HandFacts ==
    ASSUME TypeInv, NEW c \in Claims, pc[c] \in InChain
    PROVE  /\ next[c] \in Nat \ {0}
           /\ next[c] \in Positions(c[1])
           /\ Hand(c) \in Deliveries
           /\ Msg(c) \in Message
           /\ Msg(c).id \in Ids
           /\ Msg(c).ip \in IPs \cup {Blank}
           /\ EventOf(Hand(c)) = Msg(c)
<1>1. next[c] \in Nat \ {0}
  <2>1. pc[c] # "unborn"
    BY DEF InChain
  <2>2. start[c] \in Nat /\ next[c] \in Nat
    BY DEF TypeInv, TypeOK
  <2> QED
    BY <2>1, <2>2 DEF TypeInv, PositionInv
<1>2. next[c] \in Positions(c[1]) /\ c[1] \in Partitions
  BY <1>1, ClaimFacts, LengthFacts DEF TypeInv, PositionInv, Positions
<1>3. Msg(c) \in Message
  BY <1>2, MessageFacts DEF Msg
<1>4. Msg(c).id \in Ids /\ Msg(c).ip \in IPs \cup {Blank}
  BY <1>3 DEF Message
<1> QED
  BY <1>1, <1>2, <1>3, <1>4, DeliveryFacts DEF Hand, EventOf, Msg

-----------------------------------------------------------------------------
(* Types                                                                   *)

\* The types that an end of ProcessEvent, and an Enqueue, leave behind.
LEMMA ConcludeType ==
    ASSUME TypeOK, NEW c \in Claims, Conclude(c)
    PROVE  /\ UNCHANGED <<host, start>>
           /\ pc' \in [Claims -> PCs] /\ next' \in [Claims -> Nat] /\ marked' \in [Claims -> Nat]
  BY DEF TypeOK, Conclude, PCs

LEMMA ArchiveType ==
    ASSUME TypeOK, NEW c \in Claims, NEW s \in Statuses, Archive(c, s), Hand(c) \in Deliveries
    PROVE  archived' \in [Statuses -> SUBSET Deliveries]
  BY DEF TypeOK, Archive

\* Every step keeps the types: one step of the proof per action.
LEMMA TypeStep == TypeInv /\ [Next]_vars => TypeOK'
<1> SUFFICES ASSUME TypeInv, [Next]_vars
             PROVE  TypeOK'
  OBVIOUS
<1> USE DEF TypeInv
<1>1. ASSUME NEW p \in Partitions, Produce(p)
      PROVE  TypeOK'
  <2>1. produced' \in [Partitions -> Nat] /\ \A q \in Partitions : produced'[q] <= Len(Log[q])
    BY <1>1, LengthFacts DEF TypeOK, Produce
  <2> QED
    BY <1>1, <2>1 DEF TypeOK, Produce, claimVars, redisVars, dbVars
<1>2. ASSUME NEW p \in Partitions, NEW w \in Workers, StartClaim(p, w)
      PROVE  TypeOK'
  <2> DEFINE k == <<p, gen[p] + 1>>
             from == IF committed[p] = 0 THEN produced[p] + 1 ELSE committed[p]
  <2>1. k \in Claims /\ from \in Nat /\ gen[p] + 1 \in 0..MaxGen
    BY <1>2, BoundTypes DEF TypeOK, StartClaim, MayFollow, Claims
  <2>2. "poll" \in PCs
    BY DEF PCs
  <2>3. /\ gen' = [gen EXCEPT ![p] = @ + 1]
        /\ host' = [host EXCEPT ![k] = w]
        /\ pc' = [pc EXCEPT ![k] = "poll"]
        /\ next' = [next EXCEPT ![k] = from]
        /\ start' = [start EXCEPT ![k] = from]
        /\ UNCHANGED <<produced, committed, base, up, marked, revoked, redisVars, dbVars, archived>>
    BY <1>2 DEF StartClaim
  <2> HIDE DEF k, from
  <2> QED
    BY <2>1, <2>2, <2>3 DEF TypeOK, redisVars, dbVars
<1>3. ASSUME NEW c \in Claims, Revoke(c)
      PROVE  TypeOK'
  BY <1>3 DEF TypeOK, Revoke, kafkaVars, claimVars, redisVars, dbVars
<1>4. ASSUME NEW c \in Claims, AutoCommit(c)
      PROVE  TypeOK'
  BY <1>4, ClaimFacts DEF TypeOK, AutoCommit, Commit, claimVars, redisVars, dbVars
<1>5. ASSUME NEW c \in Claims, EndClaim(c)
      PROVE  TypeOK'
  <2>1. committed' \in [Partitions -> Nat] /\ base' \in [Partitions -> Nat]
    BY <1>5, ClaimFacts DEF TypeOK, EndClaim, Commit
  <2>2. pc' \in [Claims -> PCs] /\ UNCHANGED <<host, next, marked, start>>
    BY <1>5 DEF TypeOK, EndClaim, Goto, PCs
  <2> QED
    BY <1>5, <2>1, <2>2 DEF TypeOK, EndClaim, redisVars, dbVars
<1>6. ASSUME NEW c \in Claims, Fetch(c) \/ ReturnClaim(c)
      PROVE  TypeOK'
  BY <1>6 DEF TypeOK, Fetch, ReturnClaim, Goto, PCs, kafkaVars, redisVars, dbVars
<1>7. ASSUME NEW c \in Claims, FetchInvalid(c) \/ EnqueueRefused(c)
      PROVE  TypeOK'
  BY <1>7, ConcludeType DEF TypeOK, FetchInvalid, EnqueueRefused, kafkaVars, redisVars, dbVars
<1>8. ASSUME NEW c \in Claims, EnqueueRaw(c) \/ EnqueueAccepted(c)
      PROVE  TypeOK'
  <2>1. Hand(c) \in Deliveries
    BY <1>8, HandFacts DEF EnqueueRaw, EnqueueAccepted, InChain
  <2> QED
    <3>1. archived' \in [Statuses -> SUBSET Deliveries]
      BY <1>8, <2>1, ArchiveType DEF EnqueueRaw, EnqueueAccepted, Statuses
    <3>2. pc' \in [Claims -> PCs] /\ UNCHANGED <<host, next, marked, start>>
      BY <1>8 DEF TypeOK, EnqueueRaw, EnqueueAccepted, Goto, PCs
    <3> QED
      BY <1>8, <3>1, <3>2 DEF TypeOK, EnqueueRaw, EnqueueAccepted, kafkaVars, redisVars, dbVars
<1>9. ASSUME NEW c \in Claims, EnqueueFinal(c)
      PROVE  TypeOK'
  <2>1. Hand(c) \in Deliveries
    BY <1>9, HandFacts DEF EnqueueFinal, InChain
  <2> QED
    BY <1>9, <2>1, ConcludeType DEF TypeOK, EnqueueFinal, Archive, Statuses, kafkaVars,
       redisVars, dbVars
<1>10. ASSUME NEW c \in Claims, IsDuplicate(c)
      PROVE  TypeOK'
  <2>1. Hand(c) \in Deliveries /\ Msg(c).id \in Ids
    BY <1>10, HandFacts DEF IsDuplicate, InChain
  <2>2. [id |-> Msg(c).id, epoch |-> expiries[Msg(c).id], d |-> Hand(c)]
           \in [id : Ids, epoch : 0..MaxExpiry, d : Deliveries]
    BY <2>1 DEF TypeOK
  <2> QED
    <3>1. pc' \in [Claims -> PCs] /\ UNCHANGED <<host, next, marked, start>>
      BY <1>10 DEF TypeOK, IsDuplicate, Goto, PCs
    <3>2. /\ seen' \in SUBSET Ids
          /\ claimed' \in SUBSET [id : Ids, epoch : 0..MaxExpiry, d : Deliveries]
      BY <1>10, <2>1, <2>2 DEF TypeOK, IsDuplicate, TakeKey
    <3> QED
      BY <1>10, <3>1, <3>2 DEF TypeOK, IsDuplicate, kafkaVars, dbVars
<1>11. ASSUME NEW c \in Claims, IsDuplicateFails(c) \/ IsDuplicateRetried(c)
      PROVE  TypeOK'
  <2>1. Msg(c).id \in Ids
    BY <1>11, HandFacts DEF IsDuplicateFails, IsDuplicateRetried, InChain
  <2>2. CASE IsDuplicateFails(c)
    BY <2>1, <2>2, ConcludeType DEF TypeOK, IsDuplicateFails, kafkaVars, dbVars
  <2>3. CASE IsDuplicateRetried(c)
    BY <2>1, <2>3 DEF TypeOK, IsDuplicateRetried, Goto, PCs, kafkaVars, dbVars
  <2> QED
    BY <1>11, <2>2, <2>3
<1>12. ASSUME NEW c \in Claims, CheckFraudBlank(c) \/ Insert(c)
      PROVE  TypeOK'
  BY <1>12 DEF TypeOK, CheckFraudBlank, Insert, Goto, PCs, kafkaVars, redisVars, dbVars
<1>13. ASSUME NEW c \in Claims, CheckFraud(c)
      PROVE  TypeOK'
  <2>1. Hand(c) \in Deliveries /\ Msg(c).ip \in IPs
    BY <1>13, HandFacts DEF CheckFraud, InChain
  <2>2. PICK n \in {1, 2} : count' = [count EXCEPT ![Msg(c).ip] = @ + n]
    BY <1>13 DEF CheckFraud, Increments
  <2>3. count' \in [IPs -> Nat] /\ count'[Msg(c).ip] >= 1
    BY <2>1, <2>2 DEF TypeOK
  <2>4. seats' \in SUBSET [ip : IPs, window : 0..MaxWindows, rank : 1..Threshold, d : Deliveries]
    <3>1. CASE count'[Msg(c).ip] > Threshold
      BY <1>13, <3>1 DEF CheckFraud, TypeOK
    <3>2. CASE ~(count'[Msg(c).ip] > Threshold)
      <4>1. count'[Msg(c).ip] \in 1..Threshold
        BY <2>1, <2>3, <3>2, ThresholdPositive
      <4>2. [ip |-> Msg(c).ip, window |-> windows[Msg(c).ip], rank |-> count'[Msg(c).ip], d |-> Hand(c)]
              \in [ip : IPs, window : 0..MaxWindows, rank : 1..Threshold, d : Deliveries]
        BY <2>1, <4>1 DEF TypeOK
      <4> QED
        BY <1>13, <3>2, <4>2 DEF CheckFraud, TypeOK
    <3> QED BY <3>1, <3>2
  <2>5. pc' \in [Claims -> PCs] /\ UNCHANGED <<host, next, marked, start>>
    BY <1>13 DEF CheckFraud, Goto, TypeOK, PCs
  <2> QED
    BY <1>13, <2>3, <2>4, <2>5 DEF TypeOK, CheckFraud, kafkaVars, dbVars
<1>14. ASSUME NEW c \in Claims, CheckFraudFails(c)
      PROVE  TypeOK'
  <2>1. Msg(c).ip \in IPs
    BY <1>14, HandFacts DEF CheckFraudFails, InChain
  <2> QED
    <3>1. count' \in [IPs -> Nat]
      <4>1. count' = count \/ count' = [count EXCEPT ![Msg(c).ip] = @ + 1]
        <5>1. count' \in {count} \cup (IF "redis" \in Faults THEN {[count EXCEPT ![Msg(c).ip] = @ + 1]} ELSE {})
          BY <1>14 DEF CheckFraudFails
        <5> QED
          BY <5>1
      <4> QED
        <5>1. count \in [IPs -> Nat]
          BY DEF TypeOK
        <5>2. [count EXCEPT ![Msg(c).ip] = @ + 1] \in [IPs -> Nat]
          BY <5>1, <2>1
        <5> QED
          BY <4>1, <5>1, <5>2
    <3> QED
      BY <1>14, <3>1, ConcludeType DEF TypeOK, CheckFraudFails, kafkaVars, dbVars
<1>15. ASSUME NEW c \in Claims, UpsertStats(c)
      PROVE  TypeOK'
  <2>1. Hand(c) \in Deliveries
    BY <1>15, HandFacts DEF UpsertStats, InChain
  <2> QED
    BY <1>15, <2>1 DEF TypeOK, UpsertStats, Goto, PCs, kafkaVars, redisVars
<1>16. ASSUME NEW c \in Claims, CommitRow(c) \/ PersistFails(c)
      PROVE  TypeOK'
  <2>1. Hand(c) \in Deliveries
    BY <1>16, HandFacts DEF CommitRow, PersistFails, InChain
  <2> QED
    BY <1>16, <2>1, ConcludeType DEF TypeOK, CommitRow, PersistFails, kafkaVars, redisVars
<1>17. ASSUME NEW id \in Ids, ExpireKey(id)
      PROVE  TypeOK'
  BY <1>17, BoundTypes DEF TypeOK, ExpireKey, kafkaVars, claimVars, dbVars
<1>18. ASSUME NEW i \in IPs, ExpireWindow(i)
      PROVE  TypeOK'
  <2>1. count' \in [IPs -> Nat] /\ windows' \in [IPs -> 0..MaxWindows]
    BY <1>18, BoundTypes DEF TypeOK, ExpireWindow
  <2> QED
    BY <1>18, <2>1 DEF TypeOK, ExpireWindow, kafkaVars, claimVars, dbVars
<1>19. ASSUME NEW w \in Workers, Crash(w)
      PROVE  TypeOK'
  BY <1>19 DEF TypeOK, Crash, PCs, kafkaVars, redisVars, dbVars
<1>20. ASSUME NEW w \in Workers, Restart(w) \/ Cancel(w) \/ CloseArchiver(w) \/ Exit(w)
      PROVE  TypeOK'
  BY <1>20 DEF TypeOK, Restart, Cancel, CloseArchiver, Exit, kafkaVars, claimVars, redisVars, dbVars
<1>21. CASE Idle \/ UNCHANGED vars
  BY <1>21 DEF TypeOK, Idle, vars, kafkaVars, claimVars, redisVars, dbVars
<1> QED
  BY <1>1, <1>2, <1>3, <1>4, <1>5, <1>6, <1>7, <1>8, <1>9, <1>10, <1>11, <1>12, <1>13, <1>14,
     <1>15, <1>16, <1>17, <1>18, <1>19, <1>20, <1>21
  DEF Next, ClaimStep, ProcessStep

-----------------------------------------------------------------------------
(* How a claim moves                                                       *)

\* Delivery d is one of those in K that were told their id is new; it has a seat in K,
\* or no address that needs one.
Took(d, K) == \E x \in K : x.d = d
Seated(d, K) == EventOf(d).ip = Blank \/ Took(d, K)

Stays(c) ==
    /\ pc'[c] = pc[c] /\ next'[c] = next[c] /\ marked'[c] = marked[c] /\ start'[c] = start[c]

AtThreshold(i) == i \in IPs /\ count[i] >= Threshold

\* It goes on with the same message, leaving the trace of the call it made, or stops.
Proceeds(c) ==
    /\ next'[c] = next[c] /\ marked'[c] = marked[c] /\ start'[c] = start[c]
    /\ \/ pc[c] = "poll" /\ pc'[c] = "raw" /\ Msg(c).ok
          /\ next[c] <= produced[c[1]] /\ next[c] <= Len(Log[c[1]])
       \/ pc[c] = "poll" /\ pc'[c] = "returned"
       \/ pc[c] = "returned" /\ pc'[c] = "ended"
       \/ pc[c] = "raw" /\ pc'[c] = "setnx" /\ Hand(c) \in archived'["raw"]
       \/ pc[c] = "setnx" /\ pc'[c] = "duplicate" /\ (Msg(c).id \in seen \/ "redis" \in Faults)
       \/ pc[c] = "setnx" /\ pc'[c] = "score" /\ Took(Hand(c), claimed')
       \/ pc[c] = "score" /\ pc'[c] = "fraud" /\ (AtThreshold(Msg(c).ip) \/ "redis" \in Faults)
       \/ pc[c] = "score" /\ pc'[c] = "accepted" /\ Seated(Hand(c), seats')
       \/ pc[c] = "accepted" /\ pc'[c] = "insert" /\ Hand(c) \in archived'["accepted"]
       \/ pc[c] = "insert" /\ pc'[c] = "stats"
       \/ pc[c] = "stats" /\ pc'[c] = "commit" /\ Hand(c) \in counted'
       \/ Live(c) /\ pc'[c] = "dead"

\* It has done with its message.
Passes(c) ==
    /\ pc[c] \in InChain \cup {"poll"} /\ pc'[c] = "poll"
    /\ pc[c] = "poll" => next[c] <= produced[c[1]]
    /\ next'[c] = next[c] + 1 /\ marked'[c] = next[c] + 1 /\ start'[c] = start[c]

Moves(c) == Stays(c) \/ Proceeds(c) \/ Passes(c) \/ \E w \in Workers : StartClaim(c[1], w)

\* The two ways in which the actions move a claim.
LEMMA GotoMoves ==
    ASSUME TypeOK, NEW c \in Claims, NEW l \in PCs, Goto(c, l), NEW k \in Claims
    PROVE  IF k = c THEN /\ pc'[c] = l /\ next'[c] = next[c] /\ marked'[c] = marked[c]
                         /\ start'[c] = start[c]
                    ELSE Stays(k)
  BY DEF TypeOK, Goto, Stays

LEMMA ConcludeMoves ==
    ASSUME TypeOK, NEW c \in Claims, Conclude(c), NEW k \in Claims,
           pc[c] \in InChain \/ HasMessage(c)
    PROVE  IF k = c THEN Passes(k) ELSE Stays(k)
  BY DEF TypeOK, Conclude, Stays, Passes, HasMessage, InChain

\* The moves of a claim, whatever step is taken.
LEMMA ClaimMoves ==
    ASSUME TypeInv, [Next]_vars, NEW k \in Claims
    PROVE  Moves(k)
<1> USE DEF TypeInv
<1>1. ASSUME NEW c \in Claims, EndClaim(c) \/ Fetch(c) \/ ReturnClaim(c)
      PROVE  Moves(k)
  <2>1. next[c] <= produced[c[1]] => next[c] <= Len(Log[c[1]])
    <3>1. c[1] \in Partitions /\ Len(Log[c[1]]) \in Nat
      BY ClaimFacts, LengthFacts
    <3>2. next[c] \in Nat /\ produced[c[1]] \in Nat /\ produced[c[1]] <= Len(Log[c[1]])
      BY <3>1 DEF TypeOK
    <3> QED
      BY <3>1, <3>2
  <2> QED
    BY <1>1, <2>1, GotoMoves DEF Moves, EndClaim, Fetch, ReturnClaim, HasMessage, PCs, Proceeds
<1>2. ASSUME NEW c \in Claims, FetchInvalid(c) \/ EnqueueRefused(c) \/ EnqueueFinal(c)
                               \/ IsDuplicateFails(c) \/ CheckFraudFails(c) \/ CommitRow(c) \/ PersistFails(c)
      PROVE  Moves(k)
  BY <1>2, ConcludeMoves DEF Moves, FetchInvalid, HasMessage, EnqueueRefused, EnqueueFinal,
     IsDuplicateFails, CheckFraudFails,
     CommitRow, PersistFails, InChain
<1>3. ASSUME NEW c \in Claims, EnqueueRaw(c) \/ EnqueueAccepted(c)
      PROVE  Moves(k)
  <2>1. /\ EnqueueRaw(c) => Hand(c) \in archived'["raw"]
        /\ EnqueueAccepted(c) => Hand(c) \in archived'["accepted"]
    BY DEF EnqueueRaw, EnqueueAccepted, Archive, TypeOK, Statuses
  <2> QED
    BY <1>3, <2>1, GotoMoves DEF Moves, EnqueueRaw, EnqueueAccepted, PCs, Proceeds
<1>4. ASSUME NEW c \in Claims, IsDuplicateRetried(c) \/ Insert(c) \/ UpsertStats(c)
      PROVE  Moves(k)
  BY <1>4, GotoMoves DEF Moves, IsDuplicateRetried, Insert, UpsertStats, PCs, Proceeds
<1>5. ASSUME NEW c \in Claims, IsDuplicate(c)
      PROVE  Moves(k)
  <2>1. Msg(c).id \notin seen => Took(Hand(c), claimed')
    <3> DEFINE x == [id |-> Msg(c).id, epoch |-> expiries[Msg(c).id], d |-> Hand(c)]
    <3>1. Msg(c).id \notin seen => x \in claimed'
      BY <1>5 DEF IsDuplicate, TakeKey
    <3>2. x.d = Hand(c)
      OBVIOUS
    <3> QED
      BY <3>1, <3>2 DEF Took
  <2> QED
    BY <1>5, <2>1, GotoMoves DEF Moves, IsDuplicate, PCs, Proceeds
<1>6. ASSUME NEW c \in Claims, CheckFraudBlank(c) \/ CheckFraud(c)
      PROVE  Moves(k)
  <2>1. EventOf(Hand(c)) = Msg(c)
    BY <1>6, HandFacts DEF CheckFraudBlank, CheckFraud, InChain
  <2>2. CASE CheckFraudBlank(c)
    BY <2>1, <2>2, GotoMoves DEF Moves, CheckFraudBlank, PCs, Proceeds, Seated
  <2>3. CASE CheckFraud(c)
    <3>1. CASE count'[Msg(c).ip] > Threshold
      <4>1. AtThreshold(Msg(c).ip) \/ "redis" \in Faults
        <5>1. Msg(c).ip \in IPs
          BY <2>3, HandFacts DEF CheckFraud, InChain
        <5>2. "redis" \notin Faults => count' = [count EXCEPT ![Msg(c).ip] = @ + 1]
          BY <2>3 DEF CheckFraud, Increments
        <5> QED
          BY <3>1, <5>1, <5>2, ThresholdPositive DEF AtThreshold, TypeOK
      <4> QED
        BY <2>3, <3>1, <4>1, GotoMoves DEF Moves, CheckFraud, PCs, Proceeds
    <3>2. CASE ~(count'[Msg(c).ip] > Threshold)
      <4>1. Took(Hand(c), seats') /\ Goto(c, "accepted") /\ pc[c] = "score"
        <5> DEFINE x == [ip |-> Msg(c).ip, window |-> windows[Msg(c).ip],
                         rank |-> count'[Msg(c).ip], d |-> Hand(c)]
        <5>1. x \in seats' /\ Goto(c, "accepted") /\ pc[c] = "score"
          BY <2>3, <3>2 DEF CheckFraud
        <5>2. x.d = Hand(c)
          OBVIOUS
        <5> QED
          BY <5>1, <5>2 DEF Took
      <4> QED
        BY <4>1, GotoMoves DEF Moves, PCs, Proceeds, Seated
    <3> QED
      BY <3>1, <3>2
  <2> QED
    BY <1>6, <2>2, <2>3
<1>7. ASSUME NEW w \in Workers, Crash(w)
      PROVE  Moves(k)
  BY <1>7 DEF Moves, Crash, ClaimsOf, Stays, Proceeds, TypeOK
<1>8. ASSUME NEW p \in Partitions, NEW w \in Workers, StartClaim(p, w)
      PROVE  Moves(k)
  <2>1. CASE k[1] = p
    BY <1>8, <2>1 DEF Moves
  <2>2. CASE k[1] # p
    <3>1. k # <<p, gen[p] + 1>>
      BY <2>2
    <3> QED
      BY <1>8, <3>1 DEF Moves, StartClaim, Stays, TypeOK
  <2> QED
    BY <2>1, <2>2
<1>9. CASE \/ \E p \in Partitions : Produce(p)
           \/ \E c \in Claims : Revoke(c) \/ AutoCommit(c)
           \/ \E id \in Ids : ExpireKey(id)
           \/ \E i \in IPs : ExpireWindow(i)
           \/ \E w \in Workers : Restart(w) \/ Cancel(w) \/ CloseArchiver(w) \/ Exit(w)
           \/ Idle \/ UNCHANGED vars
  <2>1. UNCHANGED claimVars
    BY <1>9 DEF Produce, Revoke, AutoCommit, ExpireKey, ExpireWindow, Restart, Cancel,
       CloseArchiver, Exit, Idle, vars
  <2> QED
    BY <2>1 DEF claimVars, Stays, Moves
<1> QED
  BY <1>1, <1>2, <1>3, <1>4, <1>5, <1>6, <1>7, <1>8, <1>9 DEF Next, ClaimStep, ProcessStep

\* Only an assignment changes the generation of a partition.
LEMMA GenerationStep ==
    ASSUME [Next]_vars
    PROVE  UNCHANGED gen \/ \E p \in Partitions, w \in Workers : StartClaim(p, w)
  BY DEF Next, ClaimStep, ProcessStep, Produce, Revoke, AutoCommit, EndClaim, Fetch, FetchInvalid,
     ReturnClaim, EnqueueRefused, EnqueueRaw, EnqueueFinal, EnqueueAccepted, IsDuplicate,
     IsDuplicateFails, IsDuplicateRetried, CheckFraudBlank, CheckFraud, CheckFraudFails, Insert,
     UpsertStats, CommitRow, PersistFails, ExpireKey, ExpireWindow, Crash, Restart, Cancel,
     CloseArchiver, Exit, Idle, vars, kafkaVars

\* What an assignment does to the claims.
LEMMA StartFacts ==
    ASSUME TypeInv, NEW p \in Partitions, NEW w \in Workers, StartClaim(p, w)
    PROVE  \E n \in Claims :
             /\ n = <<p, gen[p] + 1>> /\ pc[n] = "unborn"
             /\ gen' = [gen EXCEPT ![p] = @ + 1]
             /\ pc'[n] = "poll" /\ next'[n] = start'[n] /\ start'[n] \in Nat \ {0}
             /\ start'[n] = IF committed[p] = 0 THEN produced[p] + 1 ELSE committed[p]
             /\ UNCHANGED <<committed, base, marked>>
             /\ \A k \in Claims : k # n => Stays(k)
<1> DEFINE n == <<p, gen[p] + 1>>
           from == IF committed[p] = 0 THEN produced[p] + 1 ELSE committed[p]
<1>1. n \in Claims /\ gen[p] \in Nat
  BY BoundTypes DEF TypeInv, TypeOK, StartClaim, MayFollow, Claims
<1>2. pc[n] = "unborn"
  BY <1>1 DEF TypeInv, PositionInv
<1>3. from \in Nat \ {0}
  BY DEF TypeInv, TypeOK
<1>4. /\ gen' = [gen EXCEPT ![p] = @ + 1]
      /\ pc' = [pc EXCEPT ![n] = "poll"]
      /\ next' = [next EXCEPT ![n] = from]
      /\ start' = [start EXCEPT ![n] = from]
      /\ UNCHANGED <<committed, base, marked>>
  BY DEF StartClaim
<1> HIDE DEF from
<1>5. pc'[n] = "poll" /\ next'[n] = start'[n] /\ start'[n] = from
  BY <1>1, <1>4 DEF TypeInv, TypeOK
<1>6. \A k \in Claims : k # n => Stays(k)
  BY <1>1, <1>4 DEF TypeInv, TypeOK, Stays
<1> QED
  BY <1>1, <1>2, <1>3, <1>4, <1>5, <1>6 DEF from

\* An assignment gives the partition a new generation.
LEMMA StartChanges ==
    ASSUME TypeInv, NEW p \in Partitions, NEW w \in Workers, StartClaim(p, w)
    PROVE  gen' # gen
<1>1. gen \in [Partitions -> Nat] /\ gen[p] \in Nat
  BY BoundTypes DEF TypeInv, TypeOK
<1>2. gen' = [gen EXCEPT ![p] = @ + 1]
  BY DEF StartClaim
<1>3. gen'[p] = gen[p] + 1
  BY <1>1, <1>2
<1> QED
  BY <1>1, <1>3

\* Every step keeps PositionInv: by the moves of a claim, and by the two kinds of step
\* that an assignment and any other are for its generation.
LEMMA PositionStep == TypeInv /\ [Next]_vars => PositionInv'
<1> SUFFICES ASSUME TypeInv, [Next]_vars, TypeOK', NEW k \in Claims
             PROVE  /\ pc'[k] = "unborn" <=> gen'[k[1]] < k[2]
                    /\ pc'[k] # "unborn" => 1 <= start'[k] /\ start'[k] <= next'[k]
                    /\ pc'[k] = "unborn" => next'[k] = 0 /\ marked'[k] = 0
                    /\ pc'[k] \in InChain => next'[k] <= Len(Log[k[1]])
                    /\ marked'[k] # 0 => start'[k] < marked'[k] /\ marked'[k] <= next'[k]
  BY TypeStep DEF PositionInv
<1>1. /\ k[1] \in Partitions /\ k[2] \in Nat /\ gen[k[1]] \in Nat
      /\ next[k] \in Nat /\ start[k] \in Nat /\ marked[k] \in Nat
  BY ClaimFacts, BoundTypes DEF TypeInv, TypeOK
<1>2. /\ pc[k] = "unborn" <=> gen[k[1]] < k[2]
      /\ pc[k] # "unborn" => 1 <= start[k] /\ start[k] <= next[k]
      /\ pc[k] = "unborn" => next[k] = 0 /\ marked[k] = 0
      /\ pc[k] \in InChain => next[k] <= Len(Log[k[1]])
      /\ marked[k] # 0 => start[k] < marked[k] /\ marked[k] <= next[k]
  BY DEF TypeInv, PositionInv
<1>3. ASSUME NEW p \in Partitions, NEW w \in Workers, StartClaim(p, w)
      PROVE  /\ pc'[k] = "unborn" <=> gen'[k[1]] < k[2]
             /\ k = <<p, gen[p] + 1>> \/ Stays(k)
             /\ k = <<p, gen[p] + 1>> =>
                  /\ pc[k] = "unborn" /\ pc'[k] = "poll"
                  /\ next'[k] = start'[k] /\ start'[k] \in Nat \ {0} /\ marked'[k] = marked[k]
  <2>1. PICK n \in Claims :
             /\ n = <<p, gen[p] + 1>> /\ pc[n] = "unborn"
             /\ gen' = [gen EXCEPT ![p] = @ + 1]
             /\ pc'[n] = "poll" /\ next'[n] = start'[n] /\ start'[n] \in Nat \ {0}
             /\ UNCHANGED <<committed, base, marked>>
             /\ \A c \in Claims : c # n => Stays(c)
    BY <1>3, StartFacts
  <2>2. CASE k = n
    BY <1>1, <2>1, <2>2 DEF TypeInv, TypeOK
  <2>3. CASE k # n
    <3>1. Stays(k)
      BY <2>1, <2>3
    <3>2. gen'[k[1]] = IF k[1] = p THEN gen[p] + 1 ELSE gen[k[1]]
      BY <1>1, <2>1 DEF TypeInv, TypeOK
    <3>3. k[1] = p => k[2] # gen[p] + 1
      BY <2>1, <2>3, ClaimFacts
    <3> QED
      BY <1>1, <1>2, <2>1, <2>3, <3>1, <3>2, <3>3 DEF Stays
  <2> QED
    BY <2>2, <2>3
<1>4. ASSUME UNCHANGED gen
      PROVE  pc'[k] = "unborn" <=> gen'[k[1]] < k[2]
  <2>1. ASSUME NEW w \in Workers, StartClaim(k[1], w)
        PROVE  FALSE
    BY <1>1, <1>4, <2>1, StartChanges
  <2>2. Stays(k) \/ Proceeds(k) \/ Passes(k)
    BY <2>1, ClaimMoves DEF Moves
  <2> QED
    BY <1>2, <1>4, <2>2 DEF Stays, Proceeds, Passes, Live, InChain
<1>5. ASSUME Stays(k) \/ Proceeds(k) \/ Passes(k)
      PROVE  /\ pc'[k] # "unborn" => 1 <= start'[k] /\ start'[k] <= next'[k]
             /\ pc'[k] = "unborn" => next'[k] = 0 /\ marked'[k] = 0
             /\ pc'[k] \in InChain => next'[k] <= Len(Log[k[1]])
             /\ marked'[k] # 0 => start'[k] < marked'[k] /\ marked'[k] <= next'[k]
  <2>1. CASE Stays(k)
    BY <1>2, <2>1 DEF Stays
  <2>2. CASE Proceeds(k)
    BY <1>2, <2>2 DEF Proceeds, Live, InChain
  <2>3. CASE Passes(k)
    BY <1>1, <1>2, <2>3 DEF Passes, InChain
  <2> QED
    BY <1>5, <2>1, <2>2, <2>3
<1>6. CASE UNCHANGED gen
  <2>1. ASSUME NEW w \in Workers, StartClaim(k[1], w)
        PROVE  FALSE
    BY <1>1, <1>6, <2>1, StartChanges
  <2> QED
    BY <1>4, <1>5, <1>6, <2>1, ClaimMoves DEF Moves
<1>7. CASE \E p \in Partitions, w \in Workers : StartClaim(p, w)
  <2>1. CASE Stays(k)
    BY <1>3, <1>5, <1>7, <2>1
  <2>2. CASE ~Stays(k)
    BY <1>1, <1>2, <1>3, <1>7, <2>2 DEF InChain
  <2> QED
    BY <2>1, <2>2
<1> QED
  BY <1>6, <1>7, GenerationStep

\* The types hold at first, and so always.
LEMMA InitTypes == Init => TypeInv
  BY BoundTypes, LengthFacts DEF Init, TypeInv, TypeOK, PositionInv, PCs, Claims, InChain, Statuses

LEMMA TypeInvariant == Spec => []TypeInv
<1>1. TypeInv /\ [Next]_vars => TypeInv'
  BY TypeStep, PositionStep DEF TypeInv
<1> QED
  BY InitTypes, <1>1, PTL DEF Spec

\* The variables keep their types: in particular a rank between 1 and the threshold is
\* all that a seat can have (scorer.go:82).
THEOREM TypeCorrect == Spec => []TypeOK
  BY TypeInvariant, PTL DEF TypeInv

-----------------------------------------------------------------------------
(* Offsets: no message skipped, no commit goes back                        *)

\* A commit is never behind the start of the claim Kafka listens to, nor ahead of what
\* that claim has passed; its mark never falls behind the commit.
OffsetInv ==
    /\ \A p \in Partitions : committed[p] = 0 <=> base[p] = 0
    /\ \A c \in Claims : Current(c) =>
          /\ committed[c[1]] # 0 => start[c] <= committed[c[1]] /\ committed[c[1]] <= next[c]
          /\ marked[c] # 0 => committed[c[1]] <= marked[c]

\* A commit is one of the claim Kafka listens to.
LEMMA CommitStep ==
    ASSUME TypeInv, [Next]_vars
    PROVE  \/ UNCHANGED <<committed, base>>
           \/ \E c \in Claims : /\ Current(c) /\ Dirty(c) /\ Commit(c)
                                /\ UNCHANGED <<gen, next, marked, start>>
<1>1. ASSUME NEW c \in Claims, AutoCommit(c) \/ EndClaim(c)
      PROVE  \/ UNCHANGED <<committed, base>>
             \/ /\ Current(c) /\ Dirty(c) /\ Commit(c)
                /\ UNCHANGED <<gen, next, marked, start>>
  BY <1>1 DEF AutoCommit, EndClaim, Goto, claimVars
<1> QED
  BY <1>1
  DEF Next, ClaimStep, ProcessStep, Produce, StartClaim, Revoke, Fetch, FetchInvalid,
     ReturnClaim, EnqueueRefused, EnqueueRaw, EnqueueFinal, EnqueueAccepted, IsDuplicate,
     IsDuplicateFails, IsDuplicateRetried, CheckFraudBlank, CheckFraud, CheckFraudFails, Insert,
     UpsertStats, CommitRow, PersistFails, ExpireKey, ExpireWindow, Crash, Restart, Cancel,
     CloseArchiver, Exit, Idle, vars, kafkaVars

\* A claim that exists never reads backwards and keeps its start.
LEMMA ClaimForward ==
    ASSUME TypeInv, [Next]_vars, NEW k \in Claims, pc[k] # "unborn"
    PROVE  /\ start'[k] = start[k] /\ next'[k] >= next[k]
           /\ \/ marked'[k] = marked[k]
              \/ marked'[k] = next[k] + 1 /\ next'[k] = next[k] + 1
<1>1. next[k] \in Nat
  BY DEF TypeInv, TypeOK
<1>2. ASSUME NEW w \in Workers, StartClaim(k[1], w)
      PROVE  Stays(k)
  BY <1>2, StartFacts, ClaimFacts
<1> QED
  BY <1>1, <1>2, ClaimMoves DEF Moves, Stays, Proceeds, Passes

\* Generations only grow.
LEMMA GenerationForward ==
    ASSUME TypeInv, [Next]_vars, NEW p \in Partitions
    PROVE  gen[p] \in Nat /\ gen'[p] \in Nat /\ gen'[p] >= gen[p]
<1>1. gen \in [Partitions -> 0..MaxGen] /\ gen[p] \in Nat
  BY BoundTypes DEF TypeInv, TypeOK
<1>2. ASSUME NEW q \in Partitions, NEW w \in Workers, StartClaim(q, w)
      PROVE  gen'[p] \in Nat /\ gen'[p] >= gen[p]
  <2>1. gen' = [gen EXCEPT ![q] = @ + 1]
    BY <1>2 DEF StartClaim
  <2> QED
    BY <1>1, <2>1
<1> QED
  BY <1>1, <1>2, GenerationStep

\* Every step keeps OffsetInv: either a current claim commits, or the claims move on
\* under the same offsets.
LEMMA OffsetStep == TypeInv /\ OffsetInv /\ [Next]_vars => OffsetInv'
<1> SUFFICES ASSUME TypeInv, OffsetInv, [Next]_vars
             PROVE  OffsetInv'
  OBVIOUS
<1>1. ASSUME NEW c \in Claims, Current(c), Dirty(c), Commit(c), UNCHANGED <<gen, next, marked, start>>
      PROVE  OffsetInv'
  <2>1. /\ c[1] \in Partitions /\ marked[c] # 0 /\ marked[c] \in Nat /\ start[c] \in Nat
        /\ next[c] \in Nat /\ pc[c] # "unborn"
    BY <1>1, ClaimFacts DEF TypeInv, TypeOK, PositionInv, Dirty
  <2>2. start[c] >= 1 /\ start[c] < marked[c] /\ marked[c] <= next[c]
    BY <2>1 DEF TypeInv, PositionInv
  <2>3. /\ \A p \in Partitions : committed'[p] = IF p = c[1] THEN marked[c] ELSE committed[p]
        /\ \A p \in Partitions : base'[p] = IF p = c[1] /\ base[p] = 0 THEN start[c] ELSE base[p]
    BY <1>1 DEF Commit, TypeInv, TypeOK
  <2>4. ASSUME NEW p \in Partitions
        PROVE  committed'[p] = 0 <=> base'[p] = 0
    BY <2>1, <2>2, <2>3 DEF OffsetInv
  <2>5. ASSUME NEW k \in Claims, gen'[k[1]] = k[2]
        PROVE  /\ committed'[k[1]] # 0 => start'[k] <= committed'[k[1]] /\ committed'[k[1]] <= next'[k]
               /\ marked'[k] # 0 => committed'[k[1]] <= marked'[k]
    <3>1. CASE k[1] = c[1]
      <4>1. k = c
        BY <1>1, <2>5, <3>1, ClaimFacts DEF Current
      <4> QED
        BY <1>1, <2>1, <2>2, <2>3, <4>1
    <3>2. CASE k[1] # c[1]
      BY <1>1, <2>3, <2>5, <3>2, ClaimFacts DEF OffsetInv, Current
    <3> QED
      BY <3>1, <3>2
  <2> QED
    BY <2>4, <2>5 DEF OffsetInv, Current
<1>2. ASSUME UNCHANGED <<committed, base>>
      PROVE  OffsetInv'
  <2>1. ASSUME NEW k \in Claims, gen'[k[1]] = k[2]
        PROVE  /\ committed[k[1]] # 0 => start'[k] <= committed[k[1]] /\ committed[k[1]] <= next'[k]
               /\ marked'[k] # 0 => committed[k[1]] <= marked'[k]
    <3> k[1] \in Partitions /\ k = <<k[1], k[2]>> /\ k[2] \in Nat
      BY ClaimFacts
    <3>1. /\ start[k] \in Nat /\ next[k] \in Nat /\ marked[k] \in Nat /\ committed[k[1]] \in Nat
          /\ gen[k[1]] \in Nat
      BY BoundTypes DEF TypeInv, TypeOK
    <3>2. CASE gen[k[1]] = k[2]
      <4>1. pc[k] # "unborn"
        BY <3>1, <3>2 DEF TypeInv, PositionInv
      <4>2. /\ committed[k[1]] # 0 => start[k] <= committed[k[1]] /\ committed[k[1]] <= next[k]
            /\ marked[k] # 0 => committed[k[1]] <= marked[k]
        BY <3>2 DEF OffsetInv, Current
      <4>3. next'[k] \in Nat
        BY TypeStep DEF TypeOK
      <4> QED
        BY <3>1, <4>1, <4>2, <4>3, ClaimForward
    <3>3. CASE gen[k[1]] # k[2]
      <4>1. PICK p \in Partitions, w \in Workers : StartClaim(p, w)
        BY <2>1, <3>3, GenerationStep
      <4>2. k = <<p, gen[p] + 1>>
        <5>1. gen' = [gen EXCEPT ![p] = @ + 1] /\ gen \in [Partitions -> 0..MaxGen]
          BY <4>1 DEF StartClaim, TypeInv, TypeOK
        <5> QED
          BY <2>1, <3>3, <5>1
      <4>3. /\ pc[k] = "unborn" /\ next'[k] = start'[k] /\ start'[k] \in Nat
            /\ start'[k] = (IF committed[p] = 0 THEN produced[p] + 1 ELSE committed[p])
            /\ marked' = marked
        BY <4>1, <4>2, StartFacts
      <4>4. marked'[k] = 0
        BY <4>3 DEF TypeInv, PositionInv
      <4>5. k[1] = p
        BY <4>2
      <4> QED
        BY <3>1, <4>3, <4>4, <4>5
    <3> QED
      BY <3>2, <3>3
  <2> QED
    BY <1>2, <2>1 DEF OffsetInv, Current
<1> QED
  BY <1>1, <1>2, CommitStep

\* The offsets agree with the claims in every reachable state.
LEMMA OffsetInvariant == Spec => [](TypeInv /\ OffsetInv)
<1>1. Init => OffsetInv
  BY DEF Init, OffsetInv, Claims
<1> QED
  BY <1>1, OffsetStep, TypeInvariant, PTL DEF Spec

\* No commit and no claim is beyond the end of the log, and a claim inside ProcessEvent has
\* one of its messages.
EndInv ==
    /\ \A p \in Partitions : committed[p] <= produced[p] + 1
    /\ \A c \in Claims : /\ next[c] <= produced[c[1]] + 1
                         /\ pc[c] \in InChain => next[c] <= produced[c[1]]

\* The log only grows.
LEMMA LogGrows ==
    ASSUME TypeInv, [Next]_vars, NEW p \in Partitions
    PROVE  produced[p] \in Nat /\ produced'[p] \in Nat /\ produced[p] <= produced'[p]
<1>1. produced[p] \in Nat /\ produced'[p] \in Nat
  BY TypeStep DEF TypeInv, TypeOK
<1>2. UNCHANGED produced \/ \E q \in Partitions : Produce(q)
  BY DEF Next, ClaimStep, ProcessStep, StartClaim, Revoke, AutoCommit, EndClaim, Fetch, FetchInvalid,
     ReturnClaim, EnqueueRefused, EnqueueRaw, EnqueueFinal, EnqueueAccepted, IsDuplicate,
     IsDuplicateFails, IsDuplicateRetried, CheckFraudBlank, CheckFraud, CheckFraudFails, Insert,
     UpsertStats, CommitRow, PersistFails, ExpireKey, ExpireWindow, Crash, Restart, Cancel,
     CloseArchiver, Exit, Idle, vars, kafkaVars
<1>3. ASSUME NEW q \in Partitions, Produce(q)
      PROVE  produced[p] <= produced'[p]
  BY <1>1, <1>3 DEF Produce, TypeInv, TypeOK
<1> QED
  BY <1>1, <1>2, <1>3

\* Every step keeps EndInv.
LEMMA EndStep == TypeInv /\ EndInv /\ [Next]_vars => EndInv'
<1> SUFFICES ASSUME TypeInv, EndInv, [Next]_vars
             PROVE  EndInv'
  OBVIOUS
<1>1. ASSUME NEW p \in Partitions
      PROVE  committed'[p] <= produced'[p] + 1
  <2>1. committed[p] \in Nat /\ committed[p] <= produced[p] + 1
    BY DEF TypeInv, TypeOK, EndInv
  <2>2. ASSUME NEW c \in Claims, Dirty(c), Commit(c), c[1] = p
        PROVE  committed'[p] <= produced[p] + 1
    <3>1. committed'[p] = marked[c] /\ marked[c] # 0 /\ marked[c] \in Nat /\ next[c] \in Nat
      BY <2>2 DEF Dirty, Commit, TypeInv, TypeOK
    <3>2. marked[c] <= next[c] /\ next[c] <= produced[p] + 1
      BY <2>2, <3>1 DEF TypeInv, PositionInv, EndInv
    <3> QED
      BY <3>1, <3>2, LogGrows
  <2>3. ASSUME NEW c \in Claims, Commit(c), c[1] # p
        PROVE  committed'[p] = committed[p]
    BY <2>3 DEF Commit, TypeInv, TypeOK
  <2>4. committed'[p] \in Nat
    BY TypeStep DEF TypeOK
  <2> QED
    BY <2>1, <2>2, <2>3, <2>4, CommitStep, LogGrows
<1>2. ASSUME NEW c \in Claims
      PROVE  /\ next'[c] <= produced'[c[1]] + 1
             /\ pc'[c] \in InChain => next'[c] <= produced'[c[1]]
  <2>1. /\ c[1] \in Partitions /\ next[c] \in Nat /\ committed[c[1]] \in Nat
        /\ produced[c[1]] \in Nat /\ produced'[c[1]] \in Nat /\ produced[c[1]] <= produced'[c[1]]
    BY ClaimFacts, LogGrows DEF TypeInv, TypeOK
  <2>2. /\ next[c] <= produced[c[1]] + 1
        /\ pc[c] \in InChain => next[c] <= produced[c[1]]
        /\ committed[c[1]] <= produced[c[1]] + 1
    BY <2>1 DEF EndInv
  <2>3. CASE Stays(c)
    BY <2>1, <2>2, <2>3 DEF Stays
  <2>4. CASE Proceeds(c)
    BY <2>1, <2>2, <2>4 DEF Proceeds, InChain
  <2>5. CASE Passes(c)
    <3>1. next[c] <= produced[c[1]] /\ next'[c] = next[c] + 1 /\ pc'[c] \notin InChain
      BY <2>2, <2>5 DEF Passes, InChain
    <3> QED
      BY <2>1, <3>1
  <2>6. ASSUME NEW w \in Workers, StartClaim(c[1], w), ~Stays(c)
        PROVE  /\ next'[c] <= produced'[c[1]] + 1
               /\ pc'[c] \notin InChain
    <3>1. /\ pc'[c] = "poll" /\ next'[c] = start'[c]
          /\ start'[c] = IF committed[c[1]] = 0 THEN produced[c[1]] + 1 ELSE committed[c[1]]
      BY <2>1, <2>6, StartFacts
    <3> QED
      BY <2>1, <2>2, <3>1 DEF InChain
  <2> QED
    BY <2>3, <2>4, <2>5, <2>6, ClaimMoves DEF Moves
<1> QED
  BY <1>1, <1>2 DEF EndInv

LEMMA EndInvariant == Spec => [](TypeInv /\ OffsetInv /\ EndInv)
<1>1. Init => EndInv
  BY DEF Init, EndInv, Claims, InChain
<1>2. TypeInv /\ EndInv /\ [Next]_vars => EndInv'
  BY EndStep
<1> QED
  BY <1>1, <1>2, OffsetInvariant, PTL DEF Spec

\* Kafka's committed offset never goes back, whichever claim commits and however late; it
\* and the claims stay within the log; a new claim does not start before it
\* (consumer.go:88-117).
THEOREM OffsetsGoForward == Spec => OffsetsForward
<1>1. ASSUME TypeInv, OffsetInv, [Next]_vars, NEW p \in Partitions
      PROVE  committed[p] <= committed'[p]
  <2>1. committed[p] \in Nat
    BY <1>1 DEF TypeInv, TypeOK
  <2>2. ASSUME NEW c \in Claims, Current(c), Dirty(c), Commit(c)
        PROVE  committed[p] <= committed'[p]
    <3>1. /\ c[1] \in Partitions /\ marked[c] \in Nat /\ marked[c] # 0
          /\ committed' = [committed EXCEPT ![c[1]] = marked[c]]
          /\ committed \in [Partitions -> Nat]
      BY <1>1, <2>2, ClaimFacts DEF Dirty, Commit, TypeInv, TypeOK
    <3>2. committed[c[1]] <= marked[c]
      BY <1>1, <2>2, <3>1 DEF OffsetInv
    <3> QED
      BY <2>1, <3>1, <3>2
  <2> QED
    BY <1>1, <2>1, <2>2, CommitStep
<1>2. ASSUME TypeInv, [Next]_vars, NEW p \in Partitions, NEW g \in 1..MaxGen,
             gen[p] < g, g <= gen'[p]
      PROVE  committed[p] <= start'[<<p, g>>]
  <2>1. gen \in [Partitions -> 0..MaxGen] /\ gen[p] \in Nat
    BY <1>2, BoundTypes DEF TypeInv, TypeOK
  <2>2. PICK q \in Partitions, w \in Workers : StartClaim(q, w)
    <3>1. gen'[p] # gen[p]
      BY <1>2, <2>1
    <3> QED
      BY <1>2, <3>1, GenerationStep
  <2>3. gen' = [gen EXCEPT ![q] = @ + 1]
    BY <2>2 DEF StartClaim
  <2>4. q = p /\ g = gen[p] + 1
    BY <1>2, <2>1, <2>3
  <2>5. start'[<<p, g>>] = IF committed[p] = 0 THEN produced[p] + 1 ELSE committed[p]
    BY <1>2, <2>2, <2>4, StartFacts
  <2> QED
    BY <1>2, <2>5, LogGrows DEF TypeInv, TypeOK
<1>3. ASSUME EndInv'
      PROVE  \A p \in Partitions :
                /\ committed'[p] <= produced'[p] + 1
                /\ \A g \in 1..MaxGen : next'[<<p, g>>] <= produced'[p] + 1
  BY <1>3 DEF EndInv, Claims
<1> DEFINE Forward ==
       \A p \in Partitions :
          /\ committed[p] <= committed'[p] /\ committed'[p] <= produced'[p] + 1
          /\ \A g \in 1..MaxGen :
                /\ next'[<<p, g>>] <= produced'[p] + 1
                /\ gen[p] < g /\ g <= gen'[p] => committed[p] <= start'[<<p, g>>]
<1>4. TypeInv /\ OffsetInv /\ EndInv' /\ [Next]_vars => [Forward]_vars
  BY <1>1, <1>2, <1>3
<1> QED
  BY <1>4, EndInvariant, PTL DEF Spec, OffsetsForward

\* A position that was handled stays handled.
LEMMA HandledStays ==
    ASSUME TypeInv, [Next]_vars, NEW p \in Partitions, NEW o \in Nat, Handled(p, o)
    PROVE  Handled(p, o)'
<1>1. gen[p] \in Nat /\ gen[p] <= MaxGen /\ gen'[p] \in Nat /\ gen'[p] >= gen[p]
  <2>1. gen[p] \in 0..MaxGen
    BY DEF TypeInv, TypeOK
  <2> QED
    BY <2>1, GenerationForward, BoundTypes
<1>2. PICK g \in 1..gen[p] : start[<<p, g>>] <= o /\ o < next[<<p, g>>]
  BY DEF Handled
<1>3. <<p, g>> \in Claims /\ g \in 1..gen'[p]
  BY <1>1, <1>2, BoundTypes DEF Claims
<1>4. pc[<<p, g>>] # "unborn"
  BY <1>1, <1>2, <1>3 DEF TypeInv, PositionInv
<1>5. start'[<<p, g>>] = start[<<p, g>>] /\ next'[<<p, g>>] >= next[<<p, g>>]
  BY <1>3, <1>4, ClaimForward
<1>6. next[<<p, g>>] \in Nat /\ next'[<<p, g>>] \in Nat
  BY <1>3, TypeStep DEF TypeInv, TypeOK
<1> QED
  BY <1>2, <1>3, <1>5, <1>6 DEF Handled

\* A position that becomes committed was passed by the claim that commits it, or by
\* one before.
LEMMA SkipStep ==
    TypeInv /\ OffsetInv /\ NoMessageSkipped /\ [Next]_vars => NoMessageSkipped'
<1> SUFFICES ASSUME TypeInv, OffsetInv, NoMessageSkipped, [Next]_vars,
                    NEW p \in Partitions, NEW o \in base'[p]..(committed'[p] - 1)
             PROVE  Handled(p, o)'
  BY DEF NoMessageSkipped, Handled
<1>1. /\ base[p] \in Nat /\ committed[p] \in Nat /\ base'[p] \in Nat /\ committed'[p] \in Nat
      /\ o \in Nat /\ base'[p] <= o /\ o < committed'[p]
  <2>1. TypeOK /\ TypeOK'
    BY TypeStep DEF TypeInv
  <2>2. /\ base[p] \in Nat /\ committed[p] \in Nat /\ base'[p] \in Nat /\ committed'[p] \in Nat
    BY <2>1 DEF TypeOK
  <2> QED
    BY <2>2
<1>2. CASE o \in base[p]..(committed[p] - 1)
  BY <1>1, <1>2, HandledStays DEF NoMessageSkipped
<1>3. CASE o \notin base[p]..(committed[p] - 1)
  <2>1. PICK c \in Claims : /\ Current(c) /\ Dirty(c) /\ Commit(c)
                            /\ UNCHANGED <<gen, next, marked, start>>
    BY <1>1, <1>3, CommitStep
  <2>2. /\ committed \in [Partitions -> Nat] /\ base \in [Partitions -> Nat]
        /\ committed' = [committed EXCEPT ![c[1]] = marked[c]]
        /\ base' = [base EXCEPT ![c[1]] = IF @ = 0 THEN start[c] ELSE @]
    BY <2>1 DEF Commit, TypeInv, TypeOK
  <2>3. p = c[1]
    BY <1>1, <1>3, <2>2
  <2>4. c = <<p, c[2]>> /\ c[2] \in 1..MaxGen /\ c[2] = gen[p]
    BY <2>1, <2>3, ClaimFacts DEF Current
  <2>5. marked[c] # 0 /\ marked[c] \in Nat /\ start[c] \in Nat /\ next[c] \in Nat
    BY <2>1 DEF Dirty, TypeInv, TypeOK
  <2>6. marked[c] <= next[c] /\ committed'[p] = marked[c]
    BY <2>2, <2>3, <2>5 DEF TypeInv, PositionInv
  <2>7. start[c] <= o
    <3>1. CASE base[p] = 0
      <4>1. base'[p] = start[c]
        BY <2>2, <2>3, <3>1
      <4> QED
        BY <1>1, <4>1
    <3>2. CASE base[p] # 0
      <4>1. base'[p] = base[p] /\ committed[p] # 0
        BY <2>2, <2>3, <3>2 DEF OffsetInv
      <4>2. start[c] <= committed[p]
        BY <2>1, <2>3, <4>1 DEF OffsetInv
      <4>3. committed[p] <= o
        BY <1>1, <1>3, <4>1
      <4> QED
        BY <1>1, <2>5, <4>2, <4>3
    <3> QED
      BY <3>1, <3>2
  <2>8. start[c] <= o /\ o < next[c]
    BY <1>1, <2>5, <2>6, <2>7
  <2>9. Handled(p, o)
    BY <2>4, <2>8, BoundTypes DEF Handled
  <2> QED
    BY <1>1, <2>9, HandledStays
<1> QED
  BY <1>2, <1>3

\* Below the committed offset every message was handed to ProcessEvent and finished, for
\* every log, any number of workers, crashes, zombies and hand-overs.
THEOREM NothingSkipped == Spec => []NoMessageSkipped
<1>1. Init => NoMessageSkipped
  BY DEF Init, NoMessageSkipped
<1> QED
  BY <1>1, SkipStep, OffsetInvariant, PTL DEF Spec

-----------------------------------------------------------------------------
(* The traces of a delivery: archive, dedupe key, seat, aggregates, row    *)

\* The steps that leave a trace, and where they leave the claim.
Holds(c) == next'[c] = next[c]
Leaves(c) == next'[c] = next[c] + 1

ArchivesAs(c, s) == archived' = [archived EXCEPT ![s] = @ \cup {Hand(c)}]

TakesKey(c) ==
    /\ pc[c] = "setnx" /\ pc'[c] = "score" /\ Holds(c)
    /\ Msg(c).id \notin seen
    /\ TakeKey(c)
    /\ UNCHANGED <<archived, seats, counted, rows, expiries>>

TakesSeat(c) ==
    LET i == Msg(c).ip IN
    /\ pc[c] = "score" /\ pc'[c] = "accepted" /\ Holds(c)
    /\ i \in IPs
    /\ count'[i] > count[i]
    /\ \A j \in IPs : count'[j] >= count[j]
    /\ seats' = seats \cup {[ip |-> i, window |-> windows[i], rank |-> count'[i], d |-> Hand(c)]}
    /\ UNCHANGED <<archived, claimed, counted, rows, windows>>

LeavesTrace(c) ==
    \/ /\ pc[c] = "raw" /\ pc'[c] = "setnx" /\ Holds(c)
       /\ ArchivesAs(c, "raw") /\ UNCHANGED <<claimed, seats, counted, rows>>
    \/ /\ pc[c] \in {"duplicate", "fraud"} /\ Leaves(c)
       /\ ArchivesAs(c, pc[c]) /\ UNCHANGED <<claimed, seats, counted, rows>>
    \/ /\ pc[c] = "accepted" /\ pc'[c] = "insert" /\ Holds(c)
       /\ ArchivesAs(c, "accepted") /\ UNCHANGED <<claimed, seats, counted, rows>>
    \/ TakesKey(c)
    \/ TakesSeat(c)
    \/ /\ pc[c] = "stats" /\ (Leaves(c) \/ (Holds(c) /\ pc'[c] = "commit"))
       /\ counted' = counted \cup {Hand(c)} /\ UNCHANGED <<archived, claimed, seats, rows>>
    \/ /\ pc[c] = "commit" /\ Leaves(c)
       /\ rows' = rows \cup {Hand(c)} /\ UNCHANGED <<archived, claimed, seats, counted>>

traces == <<archived, claimed, seats, counted, rows>>

\* Every step that changes a trace is one of these.
LEMMA TraceSteps ==
    ASSUME TypeInv, [Next]_vars
    PROVE  UNCHANGED traces \/ \E c \in Claims : LeavesTrace(c)
<1> SUFFICES ASSUME ~UNCHANGED traces
             PROVE  \E c \in Claims : LeavesTrace(c)
  OBVIOUS
<1>0. TypeOK
  BY DEF TypeInv
<1>1. ASSUME NEW c \in Claims, EnqueueRaw(c)
      PROVE  LeavesTrace(c)
  BY <1>0, <1>1, GotoMoves
  DEF EnqueueRaw, Archive, ArchivesAs, PCs, LeavesTrace, Holds, redisVars, dbVars
<1>2. ASSUME NEW c \in Claims, EnqueueAccepted(c)
      PROVE  LeavesTrace(c)
  BY <1>0, <1>2, GotoMoves
  DEF EnqueueAccepted, Archive, ArchivesAs, PCs, LeavesTrace, Holds, redisVars, dbVars
<1>3. ASSUME NEW c \in Claims, EnqueueFinal(c)
      PROVE  LeavesTrace(c)
  BY <1>0, <1>3, ConcludeMoves
  DEF EnqueueFinal, Archive, ArchivesAs, InChain, Passes, LeavesTrace, Leaves, redisVars, dbVars
<1>4. ASSUME NEW c \in Claims, IsDuplicate(c)
      PROVE  LeavesTrace(c)
  <2>1. Msg(c).id \notin seen /\ Goto(c, "score") /\ TakeKey(c)
    BY <1>4 DEF IsDuplicate, traces, dbVars
  <2> QED
    BY <1>0, <1>4, <2>1, GotoMoves DEF IsDuplicate, TakesKey, PCs, LeavesTrace, Holds, dbVars
<1>5. ASSUME NEW c \in Claims, CheckFraud(c)
      PROVE  LeavesTrace(c)
  <2>1. ~(count'[Msg(c).ip] > Threshold)
    BY <1>5 DEF CheckFraud, traces, dbVars
  <2>2. Msg(c).ip \in IPs
    BY <1>5, HandFacts DEF CheckFraud, InChain
  <2>3. PICK n \in {1, 2} : count' = [count EXCEPT ![Msg(c).ip] = @ + n]
    BY <1>5 DEF CheckFraud, Increments
  <2>4. count'[Msg(c).ip] > count[Msg(c).ip] /\ \A j \in IPs : count'[j] >= count[j]
    BY <1>0, <2>2, <2>3 DEF TypeOK
  <2>5. pc'[c] = "accepted" /\ Holds(c)
    BY <1>0, <1>5, <2>1, GotoMoves DEF CheckFraud, PCs, Holds
  <2>6. TakesSeat(c)
    BY <1>5, <2>1, <2>2, <2>4, <2>5 DEF CheckFraud, TakesSeat, dbVars
  <2> QED
    BY <2>6 DEF LeavesTrace
<1>6. ASSUME NEW c \in Claims, UpsertStats(c)
      PROVE  LeavesTrace(c)
  BY <1>0, <1>6, GotoMoves DEF UpsertStats, PCs, LeavesTrace, Holds, redisVars
<1>7. ASSUME NEW c \in Claims, CommitRow(c)
      PROVE  LeavesTrace(c)
  BY <1>0, <1>7, ConcludeMoves DEF CommitRow, InChain, Passes, LeavesTrace, Leaves, redisVars
<1>8. ASSUME NEW c \in Claims, PersistFails(c)
      PROVE  LeavesTrace(c)
  <2>1. Leaves(c)
    BY <1>0, <1>8, ConcludeMoves DEF PersistFails, InChain, Passes, Leaves
  <2>2. UNCHANGED <<archived, claimed, seats>> /\ (counted' # counted \/ rows' # rows)
    BY <1>8 DEF PersistFails, traces, redisVars
  <2>3. counted' # counted => pc[c] = "stats" /\ counted' = counted \cup {Hand(c)}
    BY <1>8 DEF PersistFails
  <2>4. rows' # rows => pc[c] = "commit" /\ rows' = rows \cup {Hand(c)}
    BY <1>8 DEF PersistFails
  <2> QED
    <3>1. CASE counted' # counted
      <4>1. pc[c] = "stats" /\ counted' = counted \cup {Hand(c)} /\ rows' = rows
        BY <2>3, <2>4, <3>1
      <4> QED
        BY <2>1, <2>2, <4>1 DEF LeavesTrace
    <3>2. CASE counted' = counted
      <4>1. pc[c] = "commit" /\ rows' = rows \cup {Hand(c)}
        BY <2>2, <2>4, <3>2
      <4> QED
        BY <2>1, <2>2, <3>2, <4>1 DEF LeavesTrace
    <3> QED
      BY <3>1, <3>2
<1> QED
  BY <1>1, <1>2, <1>3, <1>4, <1>5, <1>6, <1>7, <1>8
  DEF Next, ClaimStep, ProcessStep, Produce, StartClaim, Revoke, AutoCommit, EndClaim, Fetch,
     FetchInvalid, ReturnClaim, EnqueueRefused, IsDuplicateFails, IsDuplicateRetried,
     CheckFraudBlank, CheckFraudFails, Insert, ExpireKey, ExpireWindow, Crash, Restart, Cancel,
     CloseArchiver, Exit, Idle, vars, redisVars, dbVars, traces

\* The stages behind each trace.
AfterRaw == {"setnx", "duplicate", "score", "fraud", "accepted", "insert", "stats", "commit"}
AfterKey == {"score", "fraud", "accepted", "insert", "stats", "commit"}
AfterSeat == {"accepted", "insert", "stats", "commit"}
AfterAccept == {"insert", "stats", "commit"}
AfterCount == {"commit"}
Stages == {AfterRaw, AfterKey, AfterSeat, AfterAccept, AfterCount, {}}

\* Delivery d is over, or its claim is at a stage in S, or died with it in hand.
Passed(d, S) ==
    \/ d[2] < next[d[1]]
    \/ d[2] = next[d[1]] /\ pc[d[1]] \in S \cup {"dead"}

\* A delivery is a claim and a position.
LEMMA DeliveryParts ==
    ASSUME NEW d \in Deliveries
    PROVE  d[1] \in Claims /\ d[2] \in Nat \ {0} /\ d = <<d[1], d[2]>>
<1>1. PICK c \in Claims : d \in {c} \X Positions(c[1])
  BY DEF Deliveries
<1>2. c[1] \in Partitions
  BY ClaimFacts
<1> QED
  BY <1>1, <1>2, LengthFacts DEF Positions

\* A stage once passed is passed for good.
LEMMA PassedStays ==
    ASSUME TypeInv, [Next]_vars, NEW d \in Deliveries, NEW S \in Stages, Passed(d, S)
    PROVE  Passed(d, S)'
<1> DEFINE k == d[1]
<1>1. k \in Claims /\ d[2] \in Nat \ {0}
  BY DeliveryParts
<1>2. pc[k] # "unborn"
  BY <1>1 DEF TypeInv, PositionInv, Passed
<1>3. next[k] \in Nat /\ next'[k] \in Nat
  BY <1>1, TypeStep DEF TypeInv, TypeOK
<1>4. next'[k] >= next[k]
  BY <1>1, <1>2, ClaimForward
<1>5. CASE d[2] < next[k]
  BY <1>1, <1>3, <1>4, <1>5 DEF Passed
<1>6. CASE d[2] = next[k] /\ pc[k] \in S \cup {"dead"}
  <2>1. ASSUME NEW w \in Workers, StartClaim(k[1], w)
        PROVE  Stays(k)
    BY <1>1, <1>2, <2>1, StartFacts, ClaimFacts
  <2>2. CASE Stays(k)
    BY <1>6, <2>2 DEF Stays, Passed
  <2>3. CASE Proceeds(k)
    <3>1. next'[k] = next[k]
      BY <2>3 DEF Proceeds
    <3>2. pc'[k] \in S \cup {"dead"}
      BY <1>6, <2>3
      DEF Proceeds, Live, Stages, AfterRaw, AfterKey, AfterSeat, AfterAccept, AfterCount
    <3> QED
      BY <1>6, <3>1, <3>2 DEF Passed
  <2>4. CASE Passes(k)
    BY <1>3, <1>6, <2>4 DEF Passes, Passed
  <2> QED
    BY <1>1, <2>1, <2>2, <2>3, <2>4, ClaimMoves DEF Moves
<1> QED
  BY <1>5, <1>6 DEF Passed

\* What a trace says of where its delivery is.
TracesBehind ==
    /\ \A d \in archived["raw"] : Passed(d, AfterRaw)
    /\ \A x \in claimed : Passed(x.d, AfterKey)
    /\ \A x \in seats : Passed(x.d, AfterSeat)
    /\ \A d \in archived["accepted"] : Passed(d, AfterAccept)
    /\ \A d \in archived["duplicate"] \cup archived["fraud"] : Passed(d, {})
    /\ \A d \in counted : Passed(d, AfterCount)
    /\ \A d \in rows : Passed(d, {})

\* What a stage says of the traces its delivery has left.
TracesLeft ==
    \A c \in Claims :
        /\ pc[c] \in AfterRaw => Hand(c) \in archived["raw"]
        /\ pc[c] \in AfterKey => Took(Hand(c), claimed)
        /\ pc[c] \in AfterSeat => Seated(Hand(c), seats)
        /\ pc[c] \in AfterAccept => Hand(c) \in archived["accepted"]
        /\ pc[c] \in AfterCount => Hand(c) \in counted

\* Traces are never taken back.
LEMMA TracesGrow ==
    ASSUME TypeInv, [Next]_vars
    PROVE  /\ \A s \in Statuses : archived[s] \subseteq archived'[s]
           /\ claimed \subseteq claimed' /\ seats \subseteq seats'
           /\ counted \subseteq counted' /\ rows \subseteq rows'
<1>1. archived \in [Statuses -> SUBSET Deliveries]
  BY DEF TypeInv, TypeOK
<1>2. ASSUME NEW c \in Claims, LeavesTrace(c)
      PROVE  /\ \A s \in Statuses : archived[s] \subseteq archived'[s]
             /\ claimed \subseteq claimed' /\ seats \subseteq seats'
             /\ counted \subseteq counted' /\ rows \subseteq rows'
  <2>1. ASSUME NEW t, ArchivesAs(c, t)
        PROVE  \A s \in Statuses : archived[s] \subseteq archived'[s]
    BY <1>1, <2>1 DEF ArchivesAs
  <2>2. archived' = archived \/ \E t \in Statuses : ArchivesAs(c, t)
    BY <1>2 DEF LeavesTrace, TakesKey, TakesSeat, Statuses
  <2>3. \A s \in Statuses : archived[s] \subseteq archived'[s]
    BY <2>1, <2>2
  <2>4. claimed \subseteq claimed' /\ seats \subseteq seats' /\ counted \subseteq counted' /\ rows \subseteq rows'
    BY <1>2 DEF LeavesTrace, TakesKey, TakeKey, TakesSeat
  <2> QED
    BY <2>3, <2>4
<1> QED
  BY <1>2, TraceSteps DEF traces

\* A claim gets to a stage only by leaving the trace before it.
LEMMA LeftStep == TypeInv /\ TracesLeft /\ [Next]_vars => TracesLeft'
<1> SUFFICES ASSUME TypeInv, TracesLeft, [Next]_vars, NEW c \in Claims
             PROVE  /\ pc'[c] \in AfterRaw => <<c, next'[c]>> \in archived'["raw"]
                    /\ pc'[c] \in AfterKey => Took(<<c, next'[c]>>, claimed')
                    /\ pc'[c] \in AfterSeat => Seated(<<c, next'[c]>>, seats')
                    /\ pc'[c] \in AfterAccept => <<c, next'[c]>> \in archived'["accepted"]
                    /\ pc'[c] \in AfterCount => <<c, next'[c]>> \in counted'
  BY DEF TracesLeft, Hand, Took, Seated, EventOf
<1>1. /\ archived["raw"] \subseteq archived'["raw"]
      /\ archived["accepted"] \subseteq archived'["accepted"]
      /\ claimed \subseteq claimed' /\ seats \subseteq seats' /\ counted \subseteq counted'
  BY TracesGrow DEF Statuses
<1>2. /\ Took(Hand(c), claimed) => Took(Hand(c), claimed')
      /\ Seated(Hand(c), seats) => Seated(Hand(c), seats')
  BY <1>1 DEF Took, Seated
<1>3. /\ pc[c] \in AfterRaw => Hand(c) \in archived'["raw"]
      /\ pc[c] \in AfterKey => Took(Hand(c), claimed')
      /\ pc[c] \in AfterSeat => Seated(Hand(c), seats')
      /\ pc[c] \in AfterAccept => Hand(c) \in archived'["accepted"]
      /\ pc[c] \in AfterCount => Hand(c) \in counted'
  BY <1>1, <1>2 DEF TracesLeft
<1>4. CASE Stays(c)
  BY <1>3, <1>4 DEF Stays, Hand
<1>5. CASE Proceeds(c)
  <2>1. Hand(c) = <<c, next'[c]>>
    BY <1>5 DEF Proceeds, Hand
  <2>2. /\ pc'[c] \in AfterRaw => pc[c] \in AfterRaw \/ Hand(c) \in archived'["raw"]
        /\ pc'[c] \in AfterKey => pc[c] \in AfterKey \/ Took(Hand(c), claimed')
        /\ pc'[c] \in AfterSeat => pc[c] \in AfterSeat \/ Seated(Hand(c), seats')
        /\ pc'[c] \in AfterAccept => pc[c] \in AfterAccept \/ Hand(c) \in archived'["accepted"]
        /\ pc'[c] \in AfterCount => pc[c] \in AfterCount \/ Hand(c) \in counted'
    BY <1>5 DEF Proceeds, AfterRaw, AfterKey, AfterSeat, AfterAccept, AfterCount
  <2> QED
    BY <1>3, <2>1, <2>2
<1>6. CASE Passes(c) \/ \E w \in Workers : StartClaim(c[1], w) /\ ~Stays(c)
  <2>1. pc'[c] = "poll"
    BY <1>6, StartFacts, ClaimFacts DEF Passes
  <2> QED
    BY <2>1 DEF AfterRaw, AfterKey, AfterSeat, AfterAccept, AfterCount
<1> QED
  BY <1>4, <1>5, <1>6, ClaimMoves DEF Moves

\* The message that a step leaves behind, or carries into a stage of S.
LEMMA HandPassed ==
    ASSUME TypeInv, NEW c \in Claims, NEW d \in Deliveries, d = Hand(c), NEW S,
           Leaves(c) \/ (Holds(c) /\ pc'[c] \in S)
    PROVE  Passed(d, S)'
  BY DEF TypeInv, TypeOK, Passed, Leaves, Holds, Hand

\* Traces are left by claims inside ProcessEvent.
LEMMA TracingHand ==
    ASSUME TypeInv, NEW c \in Claims, LeavesTrace(c)
    PROVE  Hand(c) \in Deliveries /\ pc[c] \in InChain
<1>1. pc[c] \in InChain
  BY DEF LeavesTrace, TakesKey, TakesSeat, InChain
<1> QED
  BY <1>1, HandFacts

\* The new traces of a step, if any, are those of the message in hand.
LEMMA NewTraces ==
    ASSUME TypeInv, [Next]_vars,
           NEW d \in Deliveries
    PROVE  /\ d \in archived'["raw"] => d \in archived["raw"] \/ Passed(d, AfterRaw)'
           /\ d \in archived'["accepted"] => d \in archived["accepted"] \/ Passed(d, AfterAccept)'
           /\ d \in archived'["duplicate"] \cup archived'["fraud"] =>
                d \in archived["duplicate"] \cup archived["fraud"] \/ Passed(d, {})'
           /\ Took(d, claimed') => Took(d, claimed) \/ Passed(d, AfterKey)'
           /\ Took(d, seats') => Took(d, seats) \/ Passed(d, AfterSeat)'
           /\ d \in counted' => d \in counted \/ Passed(d, AfterCount)'
           /\ d \in rows' => d \in rows \/ Passed(d, {})'
<1>1. CASE UNCHANGED traces
  BY <1>1 DEF traces
<1>2. ASSUME NEW c \in Claims, LeavesTrace(c), d # Hand(c)
      PROVE  /\ \A s \in Statuses : d \in archived'[s] => d \in archived[s]
             /\ Took(d, claimed') => Took(d, claimed)
             /\ Took(d, seats') => Took(d, seats)
             /\ d \in counted' => d \in counted
             /\ d \in rows' => d \in rows
  <2>1. archived \in [Statuses -> SUBSET Deliveries]
    BY DEF TypeInv, TypeOK
  <2>2. ASSUME NEW t, ArchivesAs(c, t), NEW s \in Statuses, d \in archived'[s]
        PROVE  d \in archived[s]
    BY <1>2, <2>1, <2>2 DEF ArchivesAs
  <2>3. archived' = archived \/ \E t \in Statuses : ArchivesAs(c, t)
    BY <1>2 DEF LeavesTrace, TakesKey, TakesSeat, Statuses
  <2>4. \A s \in Statuses : d \in archived'[s] => d \in archived[s]
    BY <2>2, <2>3
  <2>5. Took(d, claimed') => Took(d, claimed)
    BY <1>2 DEF LeavesTrace, TakesKey, TakeKey, TakesSeat, Took
  <2>6. Took(d, seats') => Took(d, seats)
    BY <1>2 DEF LeavesTrace, TakesKey, TakeKey, TakesSeat, Took
  <2>7. (d \in counted' => d \in counted) /\ (d \in rows' => d \in rows)
    BY <1>2 DEF LeavesTrace, TakesKey, TakesSeat
  <2> QED
    BY <2>4, <2>5, <2>6, <2>7
<1>3. ASSUME NEW c \in Claims, LeavesTrace(c), d = Hand(c)
      PROVE  /\ archived'["raw"] = archived["raw"] \/ Passed(d, AfterRaw)'
             /\ archived'["accepted"] = archived["accepted"] \/ Passed(d, AfterAccept)'
             /\ (archived'["duplicate"] = archived["duplicate"] /\ archived'["fraud"] = archived["fraud"])
                \/ Passed(d, {})'
             /\ claimed' = claimed \/ Passed(d, AfterKey)'
             /\ seats' = seats \/ Passed(d, AfterSeat)'
             /\ counted' = counted \/ Passed(d, AfterCount)'
             /\ rows' = rows \/ Passed(d, {})'
  <2>1. archived \in [Statuses -> SUBSET Deliveries]
    BY DEF TypeInv, TypeOK
  <2>2. ASSUME NEW S, Leaves(c) \/ (Holds(c) /\ pc'[c] \in S)
        PROVE  Passed(d, S)'
    BY <1>3, <2>2, HandPassed
  <2>3. CASE Leaves(c)
    BY <2>2, <2>3
  <2>4. CASE ~Leaves(c)
    <3>1. archived'["raw"] = archived["raw"] \/ (Holds(c) /\ pc'[c] \in AfterRaw)
      BY <1>3, <2>1, <2>4 DEF LeavesTrace, ArchivesAs, AfterRaw, TakesKey, TakesSeat, Statuses
    <3>2. archived'["accepted"] = archived["accepted"] \/ (Holds(c) /\ pc'[c] \in AfterAccept)
      BY <1>3, <2>1, <2>4 DEF LeavesTrace, ArchivesAs, AfterAccept, TakesKey, TakesSeat, Statuses
    <3>3. archived'["duplicate"] = archived["duplicate"] /\ archived'["fraud"] = archived["fraud"]
      BY <1>3, <2>1, <2>4 DEF LeavesTrace, ArchivesAs, TakesKey, TakesSeat, Statuses
    <3>4. claimed' = claimed \/ (Holds(c) /\ pc'[c] \in AfterKey)
      BY <1>3, <2>4 DEF LeavesTrace, TakesKey, TakesSeat, AfterKey
    <3>5. seats' = seats \/ (Holds(c) /\ pc'[c] \in AfterSeat)
      BY <1>3, <2>4 DEF LeavesTrace, TakesKey, TakesSeat, AfterSeat
    <3>6. counted' = counted \/ (Holds(c) /\ pc'[c] \in AfterCount)
      BY <1>3, <2>4 DEF LeavesTrace, TakesKey, TakesSeat, AfterCount
    <3>7. rows' = rows
      BY <1>3, <2>4 DEF LeavesTrace, TakesKey, TakesSeat
    <3> QED
      BY <2>2, <3>1, <3>2, <3>3, <3>4, <3>5, <3>6, <3>7
  <2> QED
    BY <2>3, <2>4
<1>4. CASE \E c \in Claims : LeavesTrace(c)
  <2>1. PICK c \in Claims : LeavesTrace(c)
    BY <1>4
  <2>2. CASE d = Hand(c)
    BY <1>3, <2>1, <2>2
  <2>3. CASE d # Hand(c)
    BY <1>2, <2>1, <2>3 DEF Statuses
  <2> QED
    BY <2>2, <2>3
<1> QED
  BY <1>1, <1>4, TraceSteps

\* A trace is left behind by the step that leaves it, and stays behind.
LEMMA BehindStep == TypeInv /\ TracesBehind /\ [Next]_vars => TracesBehind'
<1> SUFFICES ASSUME TypeInv, TracesBehind, [Next]_vars
             PROVE  TracesBehind'
  OBVIOUS
<1> USE DEF Stages
<1>1. TypeOK'
  BY TypeStep
<1>2. ASSUME NEW d \in Deliveries
      PROVE  /\ d \in archived'["raw"] => Passed(d, AfterRaw)'
             /\ d \in archived'["accepted"] => Passed(d, AfterAccept)'
             /\ d \in archived'["duplicate"] \cup archived'["fraud"] => Passed(d, {})'
             /\ Took(d, claimed') => Passed(d, AfterKey)'
             /\ Took(d, seats') => Passed(d, AfterSeat)'
             /\ d \in counted' => Passed(d, AfterCount)'
             /\ d \in rows' => Passed(d, {})'
  <2>1. /\ d \in archived["raw"] => Passed(d, AfterRaw)
        /\ d \in archived["accepted"] => Passed(d, AfterAccept)
        /\ d \in archived["duplicate"] \cup archived["fraud"] => Passed(d, {})
        /\ Took(d, claimed) => Passed(d, AfterKey)
        /\ Took(d, seats) => Passed(d, AfterSeat)
        /\ d \in counted => Passed(d, AfterCount)
        /\ d \in rows => Passed(d, {})
    BY DEF TracesBehind, Took
  <2>2. \A S \in Stages : Passed(d, S) => Passed(d, S)'
    BY PassedStays
  <2> HIDE DEF Stages
  <2>3. {AfterRaw, AfterAccept, {}, AfterKey, AfterSeat, AfterCount} \subseteq Stages
    BY DEF Stages
  <2> QED
    BY <2>1, <2>2, <2>3, NewTraces
<1>3. /\ \A s \in Statuses : archived'[s] \subseteq Deliveries
      /\ \A x \in claimed' : x.d \in Deliveries
      /\ \A x \in seats' : x.d \in Deliveries
      /\ counted' \subseteq Deliveries /\ rows' \subseteq Deliveries
  BY <1>1 DEF TypeOK
<1>4. /\ \A x \in claimed' : Took(x.d, claimed')
      /\ \A x \in seats' : Took(x.d, seats')
  BY DEF Took
<1> QED
  BY <1>2, <1>3, <1>4 DEF TracesBehind, Statuses

-----------------------------------------------------------------------------
(* Order of the chain                                                      *)

\* The order of the chain with what it rests on: only a delivery that took its key and,
\* with an address, has a seat gets further.
OrderInv ==
    /\ OnlyAcceptedPersisted
    /\ RowsAreCounted
    /\ \A d \in archived["accepted"] \cup archived["fraud"] : Took(d, claimed)
    /\ \A d \in archived["accepted"] : Seated(d, seats)

ChainInv == TypeInv /\ TracesBehind /\ TracesLeft

\* A message in hand that has not passed S has left none of the later traces.
LEMMA NotPassed ==
    ASSUME TypeInv, NEW c \in Claims, NEW S, pc[c] \in InChain, pc[c] \notin S
    PROVE  ~Passed(Hand(c), S)
  BY DEF TypeInv, TypeOK, Passed, Hand, InChain

\* Every step keeps the order: one case per trace, by what the stage of the claim says of
\* the traces its message has and has not.
LEMMA OrderStep == ChainInv /\ OrderInv /\ [Next]_vars => OrderInv'
<1> SUFFICES ASSUME ChainInv, OrderInv, [Next]_vars
             PROVE  OrderInv'
  OBVIOUS
<1> USE DEF ChainInv
<1>1. archived \in [Statuses -> SUBSET Deliveries]
  BY DEF TypeInv, TypeOK
<1>2. claimed \subseteq claimed' /\ seats \subseteq seats'
  BY TracesGrow
<1>3. \A d : (Took(d, claimed) => Took(d, claimed')) /\ (Seated(d, seats) => Seated(d, seats'))
  BY <1>2 DEF Took, Seated
<1>4. CASE UNCHANGED traces
  BY <1>4 DEF OrderInv, OnlyAcceptedPersisted, RowsAreCounted, traces, Took, Seated, EventOf
<1>5. ASSUME NEW c \in Claims, LeavesTrace(c)
      PROVE  OrderInv'
  <2> DEFINE h == Hand(c)
  <2>1. pc[c] \in InChain
    BY <1>5, TracingHand
  <2>2. /\ pc[c] \notin AfterAccept => h \notin archived["accepted"]
        /\ h \notin archived["duplicate"] \cup archived["fraud"]
    BY <2>1, NotPassed DEF TracesBehind
  <2>3. /\ pc[c] \in AfterRaw => h \in archived["raw"]
        /\ pc[c] \in AfterKey => Took(h, claimed)
        /\ pc[c] \in AfterSeat => Seated(h, seats)
        /\ pc[c] \in AfterAccept => h \in archived["accepted"]
        /\ pc[c] \in AfterCount => h \in counted
    BY DEF TracesLeft
  <2> HIDE DEF h
  <2>4. ASSUME NEW s \in Statuses, archived' = [archived EXCEPT ![s] = @ \cup {h}],
               UNCHANGED <<counted, rows>>,
               s = "raw" \/ pc[c] \in AfterRaw,
               s \in {"accepted", "fraud"} => pc[c] \in AfterKey,
               s = "accepted" => pc[c] \in AfterSeat,
               pc[c] \notin AfterAccept
        PROVE  OrderInv'
    <3>1. \A t \in Statuses : archived'[t] = IF t = s THEN archived[t] \cup {h} ELSE archived[t]
      BY <1>1, <2>4
    <3>2. counted' \subseteq archived'["accepted"] /\ rows' \subseteq archived'["accepted"] /\ rows' \subseteq counted'
      BY <2>4, <3>1 DEF OrderInv, OnlyAcceptedPersisted, RowsAreCounted, Statuses
    <3>3. \A t \in Statuses : archived'[t] \subseteq archived'["raw"]
      BY <2>3, <2>4, <3>1 DEF OrderInv, OnlyAcceptedPersisted, Statuses
    <3>4. \A t, u \in Statuses \ {"raw"} : t # u => archived'[t] \cap archived'[u] = {}
      BY <2>2, <2>4, <3>1 DEF OrderInv, OnlyAcceptedPersisted, Statuses
    <3>5. \A d \in archived'["accepted"] \cup archived'["fraud"] : Took(d, claimed')
      BY <1>3, <2>3, <2>4, <3>1 DEF OrderInv, Statuses
    <3>6. \A d \in archived'["accepted"] : Seated(d, seats')
      BY <1>3, <2>3, <2>4, <3>1 DEF OrderInv, Statuses
    <3> QED
      BY <3>2, <3>3, <3>4, <3>5, <3>6 DEF OrderInv, OnlyAcceptedPersisted, RowsAreCounted, Took,
         Seated, EventOf
  <2>5. ASSUME archived' = archived, counted' \subseteq archived["accepted"], rows' \subseteq counted'
        PROVE  OrderInv'
    BY <1>3, <2>5 DEF OrderInv, OnlyAcceptedPersisted, RowsAreCounted, Took, Seated, EventOf
  <2>6. CASE ArchivesAs(c, "raw") /\ pc[c] = "raw" /\ UNCHANGED <<claimed, seats, counted, rows>>
    BY <2>4, <2>6 DEF ArchivesAs, h, Statuses, AfterAccept
  <2>7. CASE pc[c] \in {"duplicate", "fraud"} /\ ArchivesAs(c, pc[c]) /\ UNCHANGED <<claimed, seats, counted, rows>>
    BY <2>4, <2>7 DEF ArchivesAs, h, Statuses, AfterRaw, AfterKey, AfterAccept
  <2>8. CASE pc[c] = "accepted" /\ ArchivesAs(c, "accepted") /\ UNCHANGED <<claimed, seats, counted, rows>>
    BY <2>4, <2>8 DEF ArchivesAs, h, Statuses, AfterRaw, AfterKey, AfterSeat, AfterAccept
  <2>9. CASE TakesKey(c) \/ TakesSeat(c)
    BY <2>5, <2>9 DEF TakesKey, TakesSeat, OrderInv, OnlyAcceptedPersisted, RowsAreCounted
  <2>10. CASE pc[c] = "stats" /\ counted' = counted \cup {h} /\ UNCHANGED <<archived, claimed, seats, rows>>
    BY <2>3, <2>5, <2>10 DEF OrderInv, OnlyAcceptedPersisted, RowsAreCounted, AfterAccept
  <2>11. CASE pc[c] = "commit" /\ rows' = rows \cup {h} /\ UNCHANGED <<archived, claimed, seats, counted>>
    BY <2>3, <2>5, <2>11 DEF OrderInv, OnlyAcceptedPersisted, RowsAreCounted, AfterCount
  <2> QED
    BY <1>5, <2>6, <2>7, <2>8, <2>9, <2>10, <2>11 DEF LeavesTrace, h
<1> QED
  BY <1>4, <1>5, TraceSteps

\* The stages and the order hold in every reachable state.
LEMMA ChainInvariant == Spec => [](ChainInv /\ OrderInv)
<1>1. Init => TracesBehind /\ TracesLeft /\ OrderInv
  BY DEF Init, TracesBehind, TracesLeft, OrderInv, OnlyAcceptedPersisted, RowsAreCounted, Statuses,
         AfterRaw, AfterKey, AfterSeat, AfterAccept, AfterCount
<1>2. TypeInv /\ TypeInv' /\ TracesBehind /\ TracesLeft /\ OrderInv /\ [Next]_vars
        => TracesBehind' /\ TracesLeft' /\ OrderInv'
  BY BehindStep, LeftStep, OrderStep DEF ChainInv
<1>3. ChainInv <=> TypeInv /\ TracesBehind /\ TracesLeft
  BY DEF ChainInv
<1> QED
  BY <1>1, <1>2, <1>3, TypeInvariant, PTL DEF Spec

\* A row or an aggregate belongs to an event archived raw and then accepted, and no event
\* has two final statuses, for every log and every interleaving of claims and faults
\* (service.go:74-150).
THEOREM OnlyAcceptedArePersisted == Spec => []OnlyAcceptedPersisted
  BY ChainInvariant, PTL DEF OrderInv

\* campaign_stats is never behind raw_events (repo.go:92-104).
THEOREM RowsAreAlwaysCounted == Spec => []RowsAreCounted
  BY ChainInvariant, PTL DEF OrderInv

-----------------------------------------------------------------------------
(* Keys and seats are given once                                           *)

\* A key is taken by one delivery of its own event, never in an epoch to come, and an
\* entry of the current epoch means that the key is there.
KeyInv ==
    /\ \A x \in claimed :
          /\ x.id = EventOf(x.d).id /\ x.epoch <= expiries[x.id]
          /\ x.epoch = expiries[x.id] => x.id \in seen
    /\ \A x, y \in claimed : x.id = y.id /\ x.epoch = y.epoch => x = y

\* A seat of a window is given to one delivery, and no rank is above the counter.
SeatInv ==
    /\ \A x \in seats :
          /\ x.ip = EventOf(x.d).ip /\ x.window <= windows[x.ip]
          /\ x.window = windows[x.ip] => x.rank <= count[x.ip]
    /\ \A x, y \in seats : x.ip = y.ip /\ x.window = y.window /\ x.rank = y.rank => x = y

\* Keys are taken, expire, or neither.
LEMMA KeySteps ==
    ASSUME TypeInv, [Next]_vars
    PROVE  \/ UNCHANGED <<claimed, expiries>> /\ seen \subseteq seen'
           \/ \E c \in Claims : TakesKey(c)
           \/ \E id \in Ids : ExpireKey(id)
<1> SUFFICES ASSUME ~(\E id \in Ids : ExpireKey(id)), ~(\E c \in Claims : TakesKey(c))
             PROVE  UNCHANGED <<claimed, expiries>> /\ seen \subseteq seen'
  OBVIOUS
<1>1. claimed' = claimed
  BY TraceSteps DEF LeavesTrace, TakesSeat, traces
<1>2. UNCHANGED expiries /\ seen \subseteq seen'
  BY DEF Next, ClaimStep, ProcessStep, Produce, StartClaim, Revoke, AutoCommit, EndClaim, Fetch,
     FetchInvalid, ReturnClaim, EnqueueRefused, EnqueueRaw, EnqueueFinal, EnqueueAccepted,
     IsDuplicate, TakeKey, IsDuplicateFails, IsDuplicateRetried, CheckFraudBlank, CheckFraud,
     CheckFraudFails, Insert, UpsertStats, CommitRow, PersistFails, ExpireWindow, Crash, Restart,
     Cancel, CloseArchiver, Exit, Idle, vars, redisVars
<1> QED
  BY <1>1, <1>2

\* Seats are given, windows expire, or neither.
LEMMA SeatSteps ==
    ASSUME TypeInv, [Next]_vars
    PROVE  \/ UNCHANGED <<seats, windows>> /\ \A i \in IPs : count'[i] >= count[i]
           \/ \E c \in Claims : TakesSeat(c)
           \/ \E i \in IPs : ExpireWindow(i)
<1> SUFFICES ASSUME ~(\E i \in IPs : ExpireWindow(i)), ~(\E c \in Claims : TakesSeat(c))
             PROVE  UNCHANGED <<seats, windows>> /\ \A i \in IPs : count'[i] >= count[i]
  OBVIOUS
<1>1. seats' = seats
  BY TraceSteps DEF LeavesTrace, TakesKey, traces
<1>2. count \in [IPs -> Nat]
  BY DEF TypeInv, TypeOK
<1>3. ASSUME NEW c \in Claims, CheckFraud(c)
      PROVE  UNCHANGED windows /\ \A i \in IPs : count'[i] >= count[i]
  <2>1. PICK n \in {1, 2} : count' = [count EXCEPT ![Msg(c).ip] = @ + n]
    BY <1>3 DEF CheckFraud, Increments
  <2> QED
    BY <1>2, <1>3, <2>1 DEF CheckFraud
<1>4. ASSUME NEW c \in Claims, CheckFraudFails(c)
      PROVE  UNCHANGED windows /\ \A i \in IPs : count'[i] >= count[i]
  <2>1. count' \in {count} \cup (IF "redis" \in Faults THEN {[count EXCEPT ![Msg(c).ip] = @ + 1]} ELSE {})
    BY <1>4 DEF CheckFraudFails
  <2>2. count' = count \/ count' = [count EXCEPT ![Msg(c).ip] = @ + 1]
    BY <2>1
  <2> QED
    BY <1>2, <1>4, <2>2 DEF CheckFraudFails
<1>5. UNCHANGED <<count, windows>> \/ \E c \in Claims : CheckFraud(c) \/ CheckFraudFails(c)
  BY DEF Next, ClaimStep, ProcessStep, Produce, StartClaim, Revoke, AutoCommit, EndClaim, Fetch,
     FetchInvalid, ReturnClaim, EnqueueRefused, EnqueueRaw, EnqueueFinal, EnqueueAccepted,
     IsDuplicate, IsDuplicateFails, IsDuplicateRetried, CheckFraudBlank,
     Insert, UpsertStats, CommitRow, PersistFails, ExpireKey, Crash, Restart,
     Cancel, CloseArchiver, Exit, Idle, vars, redisVars
<1>6. UNCHANGED count => \A i \in IPs : count'[i] >= count[i]
  BY <1>2
<1> QED
  BY <1>1, <1>3, <1>4, <1>5, <1>6

\* A key is taken when it is not there, so not yet in this epoch.
LEMMA KeyStep == TypeInv /\ KeyInv /\ [Next]_vars => KeyInv'
<1> SUFFICES ASSUME TypeInv, KeyInv, [Next]_vars
             PROVE  KeyInv'
  OBVIOUS
<1>1. /\ claimed \subseteq [id : Ids, epoch : 0..MaxExpiry, d : Deliveries]
      /\ expiries \in [Ids -> Nat]
  BY BoundTypes DEF TypeInv, TypeOK
<1>2. CASE UNCHANGED <<claimed, expiries>> /\ seen \subseteq seen'
  BY <1>2 DEF KeyInv, EventOf
<1>3. ASSUME NEW c \in Claims, TakesKey(c)
      PROVE  KeyInv'
  <2> DEFINE n == [id |-> Msg(c).id, epoch |-> expiries[Msg(c).id], d |-> Hand(c)]
  <2>1. Msg(c).id \in Ids /\ EventOf(Hand(c)) = Msg(c)
    BY <1>3, HandFacts DEF TakesKey, InChain
  <2>2. n.id = Msg(c).id /\ n.epoch = expiries[Msg(c).id] /\ n.d = Hand(c)
    OBVIOUS
  <2>3. /\ claimed' = claimed \cup {n} /\ seen' = seen \cup {Msg(c).id} /\ expiries' = expiries
        /\ Msg(c).id \notin seen
    BY <1>3 DEF TakesKey, TakeKey
  <2> HIDE DEF n
  <2>4. \A x \in claimed : ~(x.id = n.id /\ x.epoch = n.epoch)
    BY <2>2, <2>3 DEF KeyInv
  <2>5. \A x \in claimed' : /\ x.id = EventOf(x.d).id /\ x.epoch <= expiries[x.id]
                            /\ x.epoch = expiries[x.id] => x.id \in seen'
    BY <1>1, <2>1, <2>2, <2>3 DEF KeyInv
  <2> QED
    BY <2>3, <2>4, <2>5 DEF KeyInv, EventOf
<1>4. ASSUME NEW id \in Ids, ExpireKey(id)
      PROVE  KeyInv'
  <2>1. /\ claimed' = claimed /\ seen' = seen \ {id}
        /\ \A j \in Ids : expiries'[j] = IF j = id THEN expiries[j] + 1 ELSE expiries[j]
    BY <1>1, <1>4 DEF ExpireKey
  <2>2. ASSUME NEW x \in claimed
        PROVE  /\ x.id = EventOf(x.d).id /\ x.epoch <= expiries'[x.id]
               /\ x.epoch = expiries'[x.id] => x.id \in seen'
    <3>1. x.id \in Ids /\ x.epoch \in Nat /\ expiries[x.id] \in Nat
      BY <1>1, BoundTypes
    <3>2. x.id = EventOf(x.d).id /\ x.epoch <= expiries[x.id] /\ (x.epoch = expiries[x.id] => x.id \in seen)
      BY DEF KeyInv
    <3> QED
      BY <2>1, <3>1, <3>2
  <2> QED
    BY <2>1, <2>2 DEF KeyInv, EventOf
<1> QED
  BY <1>2, <1>3, <1>4, KeySteps

\* A seat has a rank above all others of its window, because the counter grew.
LEMMA SeatStep == TypeInv /\ SeatInv /\ [Next]_vars => SeatInv'
<1> SUFFICES ASSUME TypeInv, SeatInv, [Next]_vars
             PROVE  SeatInv'
  OBVIOUS
<1>1. /\ \A x \in seats : x.ip \in IPs /\ x.window \in Nat /\ x.rank \in Nat
      /\ windows \in [IPs -> Nat] /\ count \in [IPs -> Nat]
      /\ \A i \in IPs : count'[i] \in Nat
  <2>1. TypeOK /\ TypeOK'
    BY TypeStep DEF TypeInv
  <2> QED
    BY <2>1, BoundTypes, ThresholdPositive DEF TypeOK
<1>2. CASE UNCHANGED <<seats, windows>> /\ \A i \in IPs : count'[i] >= count[i]
  <2>1. ASSUME NEW x \in seats
        PROVE  /\ x.ip = EventOf(x.d).ip /\ x.window <= windows[x.ip]
               /\ x.window = windows[x.ip] => x.rank <= count'[x.ip]
    <3>1. /\ x.ip = EventOf(x.d).ip /\ x.window <= windows[x.ip]
          /\ x.window = windows[x.ip] => x.rank <= count[x.ip]
      BY DEF SeatInv
    <3> QED
      BY <1>1, <1>2, <3>1
  <2> QED
    BY <1>2, <2>1 DEF SeatInv, EventOf
<1>3. ASSUME NEW c \in Claims, TakesSeat(c)
      PROVE  SeatInv'
  <2> DEFINE i == Msg(c).ip
             n == [ip |-> i, window |-> windows[i], rank |-> count'[i], d |-> Hand(c)]
  <2>1. EventOf(Hand(c)) = Msg(c)
    BY <1>3, HandFacts DEF TakesSeat, InChain
  <2>2. n.ip = i /\ n.window = windows[i] /\ n.rank = count'[i] /\ n.d = Hand(c)
    OBVIOUS
  <2>3. /\ seats' = seats \cup {n} /\ windows' = windows /\ i \in IPs
        /\ count'[i] > count[i] /\ \A j \in IPs : count'[j] >= count[j]
    BY <1>3 DEF TakesSeat
  <2>4. EventOf(Hand(c)).ip = i
    BY <2>1
  <2> HIDE DEF n, i
  <2>5. ASSUME NEW x \in seats
        PROVE  /\ x.ip = EventOf(x.d).ip /\ x.window <= windows[x.ip]
               /\ x.window = windows[x.ip] => x.rank <= count[x.ip]
               /\ x.window = windows[x.ip] => x.rank <= count'[x.ip]
    <3>1. /\ x.ip = EventOf(x.d).ip /\ x.window <= windows[x.ip]
          /\ x.window = windows[x.ip] => x.rank <= count[x.ip]
      BY DEF SeatInv
    <3> QED
      BY <1>1, <2>3, <3>1
  <2>6. \A x \in seats : ~(x.ip = n.ip /\ x.window = n.window /\ x.rank = n.rank)
    BY <1>1, <2>2, <2>3, <2>5
  <2>7. \A x \in seats' : /\ x.ip = EventOf(x.d).ip /\ x.window <= windows[x.ip]
                          /\ x.window = windows[x.ip] => x.rank <= count'[x.ip]
    BY <1>1, <2>2, <2>3, <2>4, <2>5
  <2> QED
    BY <2>3, <2>6, <2>7 DEF SeatInv, EventOf
<1>4. ASSUME NEW i \in IPs, ExpireWindow(i)
      PROVE  SeatInv'
  <2>1. /\ seats' = seats
        /\ \A j \in IPs : windows'[j] = IF j = i THEN windows[j] + 1 ELSE windows[j]
        /\ \A j \in IPs : j # i => count'[j] = count[j]
    BY <1>1, <1>4 DEF ExpireWindow
  <2>2. ASSUME NEW x \in seats
        PROVE  /\ x.ip = EventOf(x.d).ip /\ x.window <= windows'[x.ip]
               /\ x.window = windows'[x.ip] => x.rank <= count'[x.ip]
    <3>1. /\ x.ip = EventOf(x.d).ip /\ x.window <= windows[x.ip]
          /\ x.window = windows[x.ip] => x.rank <= count[x.ip]
      BY DEF SeatInv
    <3> QED
      BY <1>1, <2>1, <3>1
  <2> QED
    BY <2>1, <2>2 DEF SeatInv, EventOf
<1> QED
  BY <1>2, <1>3, <1>4, SeatSteps

\* Keys and seats are given once in every reachable state.
LEMMA OnceInvariant == Spec => [](KeyInv /\ SeatInv)
<1>1. Init => KeyInv /\ SeatInv
  BY DEF Init, KeyInv, SeatInv
<1> QED
  BY <1>1, KeyStep, SeatStep, TypeInvariant, PTL DEF Spec

-----------------------------------------------------------------------------
(* How many rows there can be                                              *)

\* A set that can be injected into a finite one is no larger.
LEMMA NoMoreThan ==
    ASSUME NEW S, NEW T, IsFiniteSet(T), NEW f \in [S -> T],
           \A x, y \in S : f[x] = f[y] => x = y
    PROVE  Cardinality(S) <= Cardinality(T)
<1>1. f \in Injection(S, T)
  BY DEF Injection, IsInjective
<1> QED
  BY <1>1, FS_Injection

\* Deliveries of one id that took a key are told apart by the epoch they took it in.
LEMMA OncePerEpoch ==
    ASSUME TypeInv, KeyInv, NEW id \in Ids, NEW S,
           \A d \in S : Took(d, claimed) /\ EventOf(d).id = id
    PROVE  Cardinality(S) <= 1 + expiries[id]
<1> DEFINE entry(d) == CHOOSE x \in claimed : x.d = d
           f == [d \in S |-> entry(d).epoch]
<1>1. ASSUME NEW d \in S
      PROVE  entry(d) \in claimed /\ entry(d).d = d /\ entry(d).id = id
  <2>1. entry(d) \in claimed /\ entry(d).d = d
    BY DEF Took
  <2> QED
    BY <2>1 DEF KeyInv
<1>2. /\ expiries[id] \in Nat
      /\ \A x \in claimed : x.epoch \in Nat
  BY BoundTypes DEF TypeInv, TypeOK
<1> HIDE DEF entry
<1>3. ASSUME NEW d \in S
      PROVE  entry(d).epoch \in 0..expiries[id]
  <2>1. entry(d) \in claimed /\ entry(d).id = id
    BY <1>1
  <2>2. entry(d).epoch <= expiries[id]
    BY <2>1 DEF KeyInv
  <2> QED
    BY <1>2, <2>1, <2>2
<1>4. f \in [S -> 0..expiries[id]]
  BY <1>3
<1>5. ASSUME NEW d \in S, NEW e \in S, f[d] = f[e]
      PROVE  d = e
  <2>1. entry(d).epoch = entry(e).epoch
    BY <1>5
  <2>2. entry(d) = entry(e)
    BY <1>1, <2>1 DEF KeyInv
  <2> QED
    BY <1>1, <2>2
<1>6. IsFiniteSet(0..expiries[id]) /\ Cardinality(0..expiries[id]) = 1 + expiries[id]
  BY <1>2, FS_Interval
<1> HIDE DEF f
<1> QED
  BY <1>4, <1>5, <1>6, NoMoreThan

\* The invariants that the bounds rest on, together.
LEMMA ClaimedInvariant == Spec => [](TypeInv /\ OrderInv /\ KeyInv /\ SeatInv)
  BY TypeInvariant, ChainInvariant, OnceInvariant, PTL

\* raw_events never holds more rows of an id than its dedupe key had lives, for every
\* log, redelivery, crash, zombie and fault (redis.go:49-60, repo.go:27-57).
THEOREM RowOncePerKey == Spec => []OneRowPerKey
<1>1. ASSUME TypeInv, OrderInv, KeyInv, NEW id \in Ids
      PROVE  Cardinality(RowsOf(id)) <= 1 + expiries[id]
  <2>1. \A d \in RowsOf(id) : Took(d, claimed) /\ EventOf(d).id = id
    BY <1>1 DEF RowsOf, OrderInv, OnlyAcceptedPersisted
  <2> QED
    BY <1>1, <2>1, OncePerEpoch
<1>2. TypeInv /\ OrderInv /\ KeyInv /\ SeatInv => OneRowPerKey
  BY <1>1 DEF OneRowPerKey
<1> QED
  BY <1>2, ClaimedInvariant, PTL

\* The same of the aggregates: campaign_stats counts an id at most once per life of its
\* key (repo.go:92-104).
THEOREM CountOncePerKey == Spec => []CountedOncePerKey
<1>1. ASSUME TypeInv, OrderInv, KeyInv, NEW id \in Ids
      PROVE  Cardinality({d \in counted : EventOf(d).id = id}) <= 1 + expiries[id]
  <2>1. \A d \in {e \in counted : EventOf(e).id = id} : Took(d, claimed) /\ EventOf(d).id = id
    BY <1>1 DEF OrderInv, OnlyAcceptedPersisted
  <2> QED
    BY <1>1, <2>1, OncePerEpoch
<1>2. TypeInv /\ OrderInv /\ KeyInv /\ SeatInv => CountedOncePerKey
  BY <1>1 DEF CountedOncePerKey
<1> QED
  BY <1>2, ClaimedInvariant, PTL

\* Rows of one address are told apart by the window and the rank of their seats.
LEMMA OncePerSeat ==
    ASSUME TypeInv, SeatInv, NEW i \in IPs, NEW S,
           \A d \in S : Took(d, seats) /\ EventOf(d).ip = i
    PROVE  Cardinality(S) <= Threshold * (1 + windows[i])
<1> DEFINE seat(d) == CHOOSE x \in seats : x.d = d
           T == (0..windows[i]) \X (1..Threshold)
           f == [d \in S |-> <<seat(d).window, seat(d).rank>>]
<1>1. ASSUME NEW d \in S
      PROVE  seat(d) \in seats /\ seat(d).d = d /\ seat(d).ip = i
  <2>1. seat(d) \in seats /\ seat(d).d = d
    BY DEF Took
  <2> QED
    BY <2>1 DEF SeatInv
<1>2. /\ windows[i] \in Nat
      /\ \A x \in seats : x.window \in Nat /\ x.rank \in 1..Threshold
  BY BoundTypes DEF TypeInv, TypeOK
<1> HIDE DEF seat
<1>3. ASSUME NEW d \in S
      PROVE  seat(d).window \in 0..windows[i] /\ seat(d).rank \in 1..Threshold
  <2>1. seat(d) \in seats /\ seat(d).ip = i
    BY <1>1
  <2>2. seat(d).window <= windows[i]
    BY <2>1 DEF SeatInv
  <2> QED
    BY <1>2, <2>1, <2>2
<1>4. f \in [S -> T]
  BY <1>3
<1>5. ASSUME NEW d \in S, NEW e \in S, f[d] = f[e]
      PROVE  d = e
  <2>1. seat(d).window = seat(e).window /\ seat(d).rank = seat(e).rank
    BY <1>5
  <2>2. seat(d) = seat(e)
    BY <1>1, <2>1 DEF SeatInv
  <2> QED
    BY <1>1, <2>2
<1>6. IsFiniteSet(T) /\ Cardinality(T) = Threshold * (1 + windows[i])
  <2>1. IsFiniteSet(0..windows[i]) /\ Cardinality(0..windows[i]) = 1 + windows[i]
    BY <1>2, FS_Interval
  <2>2. IsFiniteSet(1..Threshold) /\ Cardinality(1..Threshold) = Threshold
    BY FS_Interval, ThresholdPositive
  <2>3. \A A, B : IsFiniteSet(A) /\ IsFiniteSet(B)
                    => IsFiniteSet(A \X B) /\ Cardinality(A \X B) = Cardinality(A) * Cardinality(B)
    BY FS_Product, Zenon
  <2>4. Cardinality(T) = Cardinality(0..windows[i]) * Cardinality(1..Threshold) /\ IsFiniteSet(T)
    BY <2>1, <2>2, <2>3, Zenon
  <2> HIDE DEF T
  <2>5. (1 + windows[i]) * Threshold = Threshold * (1 + windows[i])
    BY <1>2, ThresholdPositive
  <2> QED
    BY <2>1, <2>2, <2>4, <2>5
<1> HIDE DEF f, T
<1> QED
  BY <1>4, <1>5, <1>6, NoMoreThan

\* No more than the threshold of events of one address reach Postgres in one counting
\* window, for every threshold and any number of partitions and workers (scorer.go:61-87).
THEOREM FraudIsCapped == Spec => []FraudCap
<1>1. ASSUME TypeInv, OrderInv, SeatInv, NEW i \in IPs
      PROVE  Cardinality(RowsFrom(i)) <= Threshold * (1 + windows[i])
  <2>1. \A d \in RowsFrom(i) : Took(d, seats) /\ EventOf(d).ip = i
    BY <1>1, BlankIsNoAddress DEF RowsFrom, OrderInv, OnlyAcceptedPersisted, Seated
  <2> QED
    BY <1>1, <2>1, OncePerSeat
<1>2. TypeInv /\ OrderInv /\ KeyInv /\ SeatInv => FraudCap
  BY <1>1 DEF FraudCap
<1> QED
  BY <1>2, ClaimedInvariant, PTL

-----------------------------------------------------------------------------
(* Verdicts have a cause                                                   *)

\* A claim only works on messages that validate, on a worker that is not down.
HandInv ==
    \A c \in Claims :
        /\ pc[c] \in InChain => Msg(c).ok
        /\ Live(c) => host[c] \in Workers /\ up[host[c]] # "down"

\* Deliveries of which ProcessEvent has already said s, or is about to.
Called(s) == archived[s] \cup {Hand(c) : c \in {k \in Claims : pc[k] = s}}

\* What Redis remembers was put there by a delivery that was told so.
KeyHeld == \A id \in seen : \E x \in claimed : x.id = id
SeatsFull ==
    \A i \in IPs : \A r \in 1..Threshold : r <= count[i] =>
        \E x \in seats : x.ip = i /\ x.window = windows[i] /\ x.rank = r

\* A duplicate met a key it had not taken itself; a fraud met a full window.
DuplicateCaused ==
    \A d \in Called("duplicate") : ~Took(d, claimed) /\ \E x \in claimed : x.id = EventOf(d).id
FraudCaused == \A d \in Called("fraud") : OverThreshold(d)

\* Keys are taken by valid messages of a claim's own reading.
KeyOfValid == \A x \in claimed : EventOf(x.d).ok /\ start[x.d[1]] <= x.d[2]

\* Delivery d has all it can hope for.
Settled(d) ==
    \/ d \in archived["duplicate"] \cup archived["fraud"]
    \/ d \in archived["accepted"] /\ ("postgres" \notin Faults => d \in rows)

AllSettled ==
    \A c \in Claims : Undisturbed(c) =>
        \A o \in start[c]..(next[c] - 1) : EventOf(<<c, o>>).ok => Settled(<<c, o>>)

VerdictInv ==
    /\ HandInv
    /\ KeyOfValid
    /\ "redis" \notin Faults => /\ KeyHeld /\ SeatsFull
                                /\ DuplicateCaused /\ FraudCaused
                                /\ AllSettled

\* A worker goes down only when none of its claims runs, and only then can it start again.
LEMMA WorkerSteps ==
    ASSUME TypeInv, [Next]_vars
    PROVE  \/ UNCHANGED up
           \/ \E w \in Workers :
                \/ Crash(w)
                \/ up[w] = "down" /\ up' = [up EXCEPT ![w] = "running"]
                \/ up[w] # "down" /\ \E s \in {"cancelled", "archiverClosed"} : up' = [up EXCEPT ![w] = s]
                \/ ClaimsOf(w) = {} /\ up' = [up EXCEPT ![w] = "down"]
<1>1. ASSUME NEW w \in Workers, Crash(w) \/ Restart(w) \/ Cancel(w) \/ CloseArchiver(w) \/ Exit(w)
      PROVE  \/ Crash(w)
             \/ up[w] = "down" /\ up' = [up EXCEPT ![w] = "running"]
             \/ up[w] # "down" /\ \E s \in {"cancelled", "archiverClosed"} : up' = [up EXCEPT ![w] = s]
             \/ ClaimsOf(w) = {} /\ up' = [up EXCEPT ![w] = "down"]
  BY <1>1 DEF Restart, Cancel, CloseArchiver, Exit
<1> QED
  BY <1>1
  DEF Next, ClaimStep, ProcessStep, Produce, StartClaim, Revoke, AutoCommit, EndClaim, Fetch,
     FetchInvalid, ReturnClaim, EnqueueRefused, EnqueueRaw, EnqueueFinal, EnqueueAccepted,
     IsDuplicate, IsDuplicateFails, IsDuplicateRetried, CheckFraudBlank, CheckFraud,
     CheckFraudFails, Insert, UpsertStats, CommitRow, PersistFails, ExpireKey, ExpireWindow,
     Idle, vars

\* A claim gets its host when it is assigned, and a running one.
LEMMA HostSteps ==
    ASSUME TypeInv, [Next]_vars
    PROVE  \/ UNCHANGED host
           \/ \E p \in Partitions, w \in Workers :
                /\ StartClaim(p, w) /\ up[w] = "running" /\ up' = up
                /\ host' = [host EXCEPT ![<<p, gen[p] + 1>>] = w]
<1>1. ASSUME NEW c \in Claims, FetchInvalid(c) \/ EnqueueRefused(c) \/ EnqueueFinal(c)
                  \/ IsDuplicateFails(c) \/ CheckFraudFails(c) \/ CommitRow(c) \/ PersistFails(c)
      PROVE  UNCHANGED host
  BY <1>1 DEF FetchInvalid, EnqueueRefused, EnqueueFinal, IsDuplicateFails, CheckFraudFails,
     CommitRow, PersistFails, Conclude
<1>2. ASSUME NEW c \in Claims, EndClaim(c) \/ Fetch(c) \/ ReturnClaim(c) \/ EnqueueRaw(c)
                  \/ EnqueueAccepted(c) \/ IsDuplicate(c) \/ IsDuplicateRetried(c) \/ CheckFraudBlank(c)
                  \/ CheckFraud(c) \/ Insert(c) \/ UpsertStats(c)
      PROVE  UNCHANGED host
  BY <1>2 DEF EndClaim, Fetch, ReturnClaim, EnqueueRaw, EnqueueAccepted, IsDuplicate,
     IsDuplicateRetried, CheckFraudBlank, CheckFraud, Insert, UpsertStats, Goto
<1> QED
  BY <1>1, <1>2
  DEF Next, ClaimStep, ProcessStep, Produce, StartClaim, Revoke, AutoCommit, ExpireKey,
     ExpireWindow, Crash, Restart, Cancel, CloseArchiver, Exit, Idle, vars, claimVars

\* A session context that is cancelled stays so.
LEMMA RevokedGrows ==
    ASSUME [Next]_vars
    PROVE  revoked \subseteq revoked'
  BY DEF Next, ClaimStep, ProcessStep, Produce, StartClaim, Revoke, AutoCommit, EndClaim, Fetch,
     FetchInvalid, ReturnClaim, EnqueueRefused, EnqueueRaw, EnqueueFinal, EnqueueAccepted,
     IsDuplicate, IsDuplicateFails, IsDuplicateRetried, CheckFraudBlank, CheckFraud,
     CheckFraudFails, Insert, UpsertStats, CommitRow, PersistFails, ExpireKey, ExpireWindow,
     Crash, Restart, Cancel, CloseArchiver, Exit, Idle, vars

\* A claim that runs after a step ran before it on the same worker, or is the one assigned.
LEMMA LiveBefore ==
    ASSUME TypeInv, [Next]_vars, NEW c \in Claims, pc'[c] \notin {"unborn", "ended", "dead"}
    PROVE  \/ Live(c) /\ host'[c] = host[c]
           \/ \E w \in Workers :
                /\ pc[c] = "unborn" /\ pc'[c] = "poll" /\ next'[c] = start'[c]
                /\ host'[c] = w /\ up[w] = "running" /\ up' = up
<1>1. CASE Stays(c) \/ Proceeds(c) \/ Passes(c)
  <2>1. Live(c)
    BY <1>1 DEF Stays, Proceeds, Passes, Live, InChain
  <2>2. ASSUME NEW p \in Partitions, NEW w \in Workers, StartClaim(p, w),
               host' = [host EXCEPT ![<<p, gen[p] + 1>>] = w]
        PROVE  host'[c] = host[c]
    <3>1. c # <<p, gen[p] + 1>>
      BY <2>1, <2>2, StartFacts DEF Live
    <3> QED
      BY <2>2, <3>1 DEF TypeInv, TypeOK
  <2> QED
    BY <2>1, <2>2, HostSteps
<1>2. ASSUME NEW w \in Workers, StartClaim(c[1], w), ~Stays(c)
      PROVE  /\ pc[c] = "unborn" /\ pc'[c] = "poll" /\ next'[c] = start'[c]
             /\ host'[c] = w /\ up[w] = "running" /\ up' = up
  <2>1. /\ c[1] \in Partitions
        /\ host' = [host EXCEPT ![<<c[1], gen[c[1]] + 1>>] = w] /\ up[w] = "running" /\ up' = up
    BY <1>2, ClaimFacts DEF StartClaim
  <2>2. PICK n \in Claims :
             /\ n = <<c[1], gen[c[1]] + 1>> /\ pc[n] = "unborn"
             /\ pc'[n] = "poll" /\ next'[n] = start'[n]
             /\ \A k \in Claims : k # n => Stays(k)
    BY <1>2, <2>1, StartFacts
  <2>3. c = n
    BY <1>2, <2>2
  <2>4. host \in [Claims -> Workers \cup {Nobody}]
    BY DEF TypeInv, TypeOK
  <2> QED
    BY <2>1, <2>2, <2>3, <2>4
<1> QED
  BY <1>1, <1>2, ClaimMoves DEF Moves

\* A message is taken in hand when it validates; a running claim's worker is not down.
LEMMA HandStep == TypeInv /\ HandInv /\ [Next]_vars => HandInv'
<1> SUFFICES ASSUME TypeInv, HandInv, [Next]_vars, NEW c \in Claims
             PROVE  /\ pc'[c] \in InChain => Log[c[1]][next'[c]].ok
                    /\ pc'[c] \notin {"unborn", "ended", "dead"} =>
                         host'[c] \in Workers /\ up'[host'[c]] # "down"
  BY DEF HandInv, Msg, Live
<1>1. ASSUME pc'[c] \in InChain
      PROVE  Log[c[1]][next'[c]].ok
  <2>1. CASE Stays(c)
    BY <1>1, <2>1 DEF Stays, HandInv, Msg
  <2>2. CASE Proceeds(c)
    <3>1. next'[c] = next[c] /\ (Msg(c).ok \/ pc[c] \in InChain)
      BY <1>1, <2>2 DEF Proceeds, InChain
    <3> QED
      BY <3>1 DEF HandInv, Msg
  <2>3. CASE Passes(c) \/ \E w \in Workers : StartClaim(c[1], w) /\ ~Stays(c)
    <3>1. pc'[c] = "poll"
      BY <2>3, StartFacts, ClaimFacts DEF Passes
    <3> QED
      BY <1>1, <3>1 DEF InChain
  <2> QED
    BY <2>1, <2>2, <2>3, ClaimMoves DEF Moves
<1>2. ASSUME pc'[c] \notin {"unborn", "ended", "dead"}
      PROVE  host'[c] \in Workers /\ up'[host'[c]] # "down"
  <2>1. CASE Live(c) /\ host'[c] = host[c]
    <3>1. host[c] \in Workers /\ up[host[c]] # "down" /\ up \in [Workers -> {"running", "cancelled", "archiverClosed", "down"}]
      BY <2>1 DEF HandInv, TypeInv, TypeOK
    <3>2. ASSUME NEW w \in Workers, Crash(w)
          PROVE  up'[host[c]] # "down"
      <4>1. host[c] # w
        BY <1>2, <2>1, <3>2 DEF Crash, ClaimsOf, TypeInv, TypeOK
      <4> QED
        BY <3>1, <3>2, <4>1 DEF Crash
    <3>3. ASSUME NEW w \in Workers, ClaimsOf(w) = {}
          PROVE  host[c] # w
      BY <2>1, <3>3 DEF ClaimsOf
    <3> QED
      BY <2>1, <3>1, <3>2, <3>3, WorkerSteps
  <2>2. CASE \E w \in Workers : host'[c] = w /\ up[w] = "running" /\ up' = up
    BY <2>2
  <2> QED
    BY <1>2, <2>1, <2>2, LiveBefore
<1> QED
  BY <1>1, <1>2

\* A claim that nobody has disturbed was not disturbed before, or has just been assigned.
LEMMA UndisturbedBefore ==
    ASSUME TypeInv, HandInv, [Next]_vars, NEW c \in Claims, Undisturbed(c)'
    PROVE  Undisturbed(c) \/ next'[c] = start'[c]
<1>1. pc'[c] \notin {"unborn", "ended", "dead"} /\ c \notin revoked' /\ up'[host'[c]] = "running"
  BY DEF Undisturbed, Live, CtxDone
<1>2. CASE Live(c) /\ host'[c] = host[c]
  <2>1. host[c] \in Workers /\ up[host[c]] # "down" /\ up \in [Workers -> {"running", "cancelled", "archiverClosed", "down"}]
    BY <1>2 DEF HandInv, TypeInv, TypeOK
  <2>2. c \notin revoked
    BY <1>1, RevokedGrows
  <2>3. up[host[c]] = "running"
    <3>1. ASSUME NEW w \in Workers, Crash(w)
          PROVE  up[host[c]] = "running"
      BY <1>1, <1>2, <2>1, <3>1 DEF Crash
    <3> QED
      BY <1>1, <1>2, <2>1, <3>1, WorkerSteps
  <2> QED
    BY <1>2, <2>2, <2>3 DEF Undisturbed, CtxDone
<1> QED
  BY <1>1, <1>2, LiveBefore

\* A key is taken by the message in hand, which validates and is not behind the start.
LEMMA ValidStep == ChainInv /\ HandInv /\ KeyOfValid /\ [Next]_vars => KeyOfValid'
<1> SUFFICES ASSUME ChainInv, HandInv, KeyOfValid, [Next]_vars, NEW x \in claimed'
             PROVE  EventOf(x.d).ok /\ start'[x.d[1]] <= x.d[2]
  BY DEF KeyOfValid, EventOf
<1> USE DEF ChainInv
<1>1. CASE x \in claimed
  <2>1. x.d \in Deliveries /\ EventOf(x.d).ok /\ start[x.d[1]] <= x.d[2] /\ Passed(x.d, AfterKey)
    BY <1>1 DEF TypeInv, TypeOK, KeyOfValid, TracesBehind
  <2>2. x.d[1] \in Claims /\ x.d[2] \in Nat \ {0}
    BY <2>1, DeliveryParts
  <2>3. pc[x.d[1]] # "unborn"
    BY <2>1, <2>2 DEF TypeInv, PositionInv, Passed
  <2> QED
    BY <2>1, <2>2, <2>3, ClaimForward
<1>2. ASSUME NEW c \in Claims, TakesKey(c), x \notin claimed
      PROVE  EventOf(x.d).ok /\ start'[x.d[1]] <= x.d[2]
  <2>1. pc[c] \in InChain /\ pc[c] # "unborn"
    BY <1>2 DEF TakesKey, InChain
  <2>2. x = [id |-> Msg(c).id, epoch |-> expiries[Msg(c).id], d |-> Hand(c)]
    BY <1>2 DEF TakesKey, TakeKey
  <2>3. x.d = Hand(c) /\ x.d[1] = c /\ x.d[2] = next[c]
    BY <2>2 DEF Hand
  <2>4. EventOf(x.d).ok
    BY <2>1, <2>3, HandFacts DEF HandInv
  <2>5. start[c] <= next[c] /\ start'[c] = start[c]
    BY <2>1, ClaimForward DEF TypeInv, PositionInv
  <2> QED
    BY <2>3, <2>4, <2>5
<1>3. claimed' = claimed \/ \E c \in Claims : TakesKey(c)
  BY TraceSteps DEF traces, LeavesTrace, TakesSeat
<1> QED
  BY <1>1, <1>2, <1>3

\* While Redis does not fail, a dedupe key is there only with the delivery that took it.
LEMMA HeldStep ==
    ASSUME TypeInv, "redis" \notin Faults, KeyHeld, [Next]_vars
    PROVE  KeyHeld'
<1>1. claimed \subseteq claimed'
  BY TracesGrow
<1>2. ASSUME NEW c \in Claims, IsDuplicate(c)
      PROVE  KeyHeld'
  <2>1. CASE Msg(c).id \in seen
    BY <1>2, <2>1 DEF IsDuplicate, KeyHeld
  <2>2. CASE Msg(c).id \notin seen
    <3> DEFINE n == [id |-> Msg(c).id, epoch |-> expiries[Msg(c).id], d |-> Hand(c)]
    <3>1. seen' = seen \cup {Msg(c).id} /\ n \in claimed'
      BY <1>2, <2>2 DEF IsDuplicate, TakeKey
    <3>2. n.id = Msg(c).id
      OBVIOUS
    <3> HIDE DEF n
    <3> QED
      BY <1>1, <3>1, <3>2 DEF KeyHeld
  <2> QED
    BY <2>1, <2>2
<1>3. seen' \subseteq seen \/ \E c \in Claims : IsDuplicate(c)
  BY DEF Next, ClaimStep, ProcessStep, Produce, StartClaim, Revoke, AutoCommit, EndClaim, Fetch,
     FetchInvalid, ReturnClaim, EnqueueRefused, EnqueueRaw, EnqueueFinal, EnqueueAccepted,
     IsDuplicateFails, IsDuplicateRetried, CheckFraudBlank, CheckFraud, CheckFraudFails, Insert,
     UpsertStats, CommitRow, PersistFails, ExpireKey, ExpireWindow, Crash, Restart, Cancel,
     CloseArchiver, Exit, Idle, vars, redisVars
<1> QED
  BY <1>1, <1>2, <1>3 DEF KeyHeld

\* While Redis does not fail, every number up to the counter is the rank of a seat.
LEMMA FullStep ==
    ASSUME TypeInv, "redis" \notin Faults, SeatsFull, [Next]_vars
    PROVE  SeatsFull'
<1>1. seats \subseteq seats' /\ count \in [IPs -> Nat] /\ windows \in [IPs -> Nat]
  BY TracesGrow, BoundTypes DEF TypeInv, TypeOK
<1>2. ASSUME NEW c \in Claims, CheckFraud(c)
      PROVE  SeatsFull'
  <2> DEFINE i == Msg(c).ip
             n == [ip |-> i, window |-> windows[i], rank |-> count'[i], d |-> Hand(c)]
  <2>1. i \in IPs
    BY <1>2, HandFacts DEF CheckFraud, InChain
  <2>2. count' = [count EXCEPT ![i] = @ + 1] /\ windows' = windows
    BY <1>2 DEF CheckFraud, Increments
  <2>3. count'[i] = count[i] + 1 /\ \A j \in IPs : j # i => count'[j] = count[j]
    BY <1>1, <2>1, <2>2
  <2>4. count'[i] \in 1..Threshold => n \in seats'
    BY <1>2, <2>1, <2>3, ThresholdPositive DEF CheckFraud
  <2>5. n.ip = i /\ n.window = windows[i] /\ n.rank = count'[i]
    OBVIOUS
  <2> HIDE DEF n, i
  <2>6. ASSUME NEW j \in IPs, NEW r \in 1..Threshold, r <= count'[j]
        PROVE  \E x \in seats' : x.ip = j /\ x.window = windows[j] /\ x.rank = r
    <3>1. CASE r <= count[j]
      BY <1>1, <3>1 DEF SeatsFull
    <3>2. CASE ~(r <= count[j])
      <4>1. j = i /\ r = count'[i]
        BY <1>1, <2>1, <2>3, <2>6, <3>2
      <4> QED
        BY <2>4, <2>5, <4>1
    <3> QED
      BY <3>1, <3>2
  <2> QED
    BY <2>2, <2>6 DEF SeatsFull
<1>3. ASSUME NEW c \in Claims, CheckFraudFails(c)
      PROVE  UNCHANGED <<count, windows>>
  <2>1. count' \in {count} \cup (IF "redis" \in Faults THEN {[count EXCEPT ![Msg(c).ip] = @ + 1]} ELSE {})
    BY <1>3 DEF CheckFraudFails
  <2> QED
    BY <1>3, <2>1 DEF CheckFraudFails
<1>4. ASSUME NEW i \in IPs, ExpireWindow(i)
      PROVE  SeatsFull'
  <2>1. \A j \in IPs : IF j = i THEN count'[j] = 0 ELSE count'[j] = count[j] /\ windows'[j] = windows[j]
    BY <1>1, <1>4 DEF ExpireWindow
  <2>2. ASSUME NEW j \in IPs, NEW r \in 1..Threshold, r <= count'[j]
        PROVE  \E x \in seats' : x.ip = j /\ x.window = windows'[j] /\ x.rank = r
    <3>1. j # i
      BY <2>1, <2>2
    <3> QED
      BY <1>1, <2>1, <2>2, <3>1 DEF SeatsFull
  <2> QED
    BY <2>2 DEF SeatsFull
<1>5. \/ UNCHANGED <<count, windows>>
      \/ \E c \in Claims : CheckFraud(c) \/ CheckFraudFails(c)
      \/ \E i \in IPs : ExpireWindow(i)
  BY DEF Next, ClaimStep, ProcessStep, Produce, StartClaim, Revoke, AutoCommit, EndClaim, Fetch,
     FetchInvalid, ReturnClaim, EnqueueRefused, EnqueueRaw, EnqueueFinal, EnqueueAccepted,
     IsDuplicate, IsDuplicateFails, IsDuplicateRetried, CheckFraudBlank,
     Insert, UpsertStats, CommitRow, PersistFails, ExpireKey, Crash, Restart,
     Cancel, CloseArchiver, Exit, Idle, vars, redisVars
<1> QED
  BY <1>1, <1>2, <1>3, <1>4, <1>5 DEF SeatsFull

\* What is newly called s was in hand, or has just come to s.
LEMMA NewlyCalled ==
    ASSUME TypeInv, [Next]_vars, NEW s \in {"duplicate", "fraud"}, NEW d \in Called(s)'
    PROVE  \/ d \in Called(s)
           \/ \E c \in Claims : d = Hand(c) /\ pc[c] # s /\ pc'[c] = s /\ Proceeds(c)
<1>1. archived \in [Statuses -> SUBSET Deliveries]
  BY DEF TypeInv, TypeOK
<1>2. CASE d \in archived'[s]
  <2>1. ASSUME NEW c \in Claims, LeavesTrace(c), d \notin archived[s]
        PROVE  d = Hand(c) /\ pc[c] = s
    BY <1>1, <1>2, <2>1 DEF LeavesTrace, ArchivesAs, TakesKey, TakesSeat, Statuses
  <2> QED
    BY <1>2, <2>1, TraceSteps DEF Called, traces
<1>3. ASSUME NEW c \in Claims, pc'[c] = s, d = <<c, next'[c]>>
      PROVE  d \in Called(s) \/ (d = Hand(c) /\ pc[c] # s /\ Proceeds(c))
  <2>1. CASE Stays(c)
    BY <1>3, <2>1 DEF Stays, Called, Hand
  <2>2. CASE Proceeds(c)
    <3>1. d = Hand(c)
      BY <1>3, <2>2 DEF Proceeds, Hand
    <3> QED
      BY <2>2, <3>1 DEF Called
  <2>3. CASE Passes(c) \/ \E w \in Workers : StartClaim(c[1], w) /\ ~Stays(c)
    BY <1>3, <2>3, StartFacts, ClaimFacts DEF Passes
  <2> QED
    BY <2>1, <2>2, <2>3, ClaimMoves DEF Moves
<1>4. d \in archived'[s] \/ \E c \in Claims : pc'[c] = s /\ d = <<c, next'[c]>>
  BY DEF Called, Hand
<1> QED
  BY <1>2, <1>3, <1>4

\* While Redis does not fail, a message becomes a duplicate by meeting a key that another
\* delivery took.
LEMMA DuplicateStep ==
    ASSUME ChainInv, "redis" \notin Faults, KeyHeld, DuplicateCaused, [Next]_vars
    PROVE  DuplicateCaused'
<1> USE DEF ChainInv
<1>1. claimed \subseteq claimed'
  BY TracesGrow
<1>2. ASSUME NEW d \in Called("duplicate")'
      PROVE  ~Took(d, claimed) /\ \E x \in claimed : x.id = EventOf(d).id
  <2>1. CASE d \in Called("duplicate")
    BY <2>1 DEF DuplicateCaused
  <2>2. ASSUME NEW c \in Claims, d = Hand(c), pc[c] # "duplicate", pc'[c] = "duplicate", Proceeds(c)
        PROVE  ~Took(d, claimed) /\ \E x \in claimed : x.id = EventOf(d).id
    <3>1. pc[c] = "setnx" /\ Msg(c).id \in seen
      BY <2>2 DEF Proceeds, Live
    <3>2. ~Took(d, claimed)
      BY <2>2, <3>1, NotPassed DEF TracesBehind, Took, InChain, AfterKey
    <3>3. EventOf(d) = Msg(c)
      BY <2>2, <3>1, HandFacts DEF InChain
    <3> QED
      BY <3>1, <3>2, <3>3 DEF KeyHeld
  <2> QED
    BY <1>2, <2>1, <2>2, NewlyCalled
<1>3. ASSUME NEW d \in Called("duplicate")', NEW c \in Claims, TakesKey(c)
      PROVE  d # Hand(c)
  <2>1. pc[c] = "setnx" /\ pc'[c] = "score" /\ Hand(c) = <<c, next'[c]>> /\ Hand(c) \in Deliveries
    BY <1>3, HandFacts DEF TakesKey, Holds, Hand, InChain
  <2>2. ~Passed(Hand(c), {})
    BY <2>1, NotPassed DEF InChain
  <2>3. CASE d \in Called("duplicate")
    <3>1. Hand(c) \notin archived["duplicate"]
      BY <2>2 DEF TracesBehind
    <3> QED
      BY <2>1, <2>3, <3>1 DEF Called, Hand
  <2>4. CASE \E k \in Claims : d = Hand(k) /\ pc'[k] = "duplicate"
    BY <2>1, <2>4 DEF Hand
  <2> QED
    BY <1>3, <2>3, <2>4, NewlyCalled
<1>4. ASSUME NEW d \in Called("duplicate")'
      PROVE  ~Took(d, claimed')
  <2>1. claimed' = claimed \/ \E c \in Claims : TakesKey(c)
    BY TraceSteps DEF traces, LeavesTrace, TakesSeat
  <2> QED
    BY <1>2, <1>3, <1>4, <2>1 DEF Took, TakesKey, TakeKey
<1> QED
  BY <1>1, <1>2, <1>4 DEF DuplicateCaused, Took, EventOf

\* While Redis does not fail, a message becomes fraud when the seats of its window are all
\* taken, and not by itself.
LEMMA FraudStep ==
    ASSUME ChainInv, "redis" \notin Faults, SeatsFull, FraudCaused, [Next]_vars
    PROVE  FraudCaused'
<1> USE DEF ChainInv
<1>1. seats \subseteq seats'
  BY TracesGrow
<1>2. ASSUME NEW d \in Called("fraud")'
      PROVE  OverThreshold(d)
  <2>1. CASE d \in Called("fraud")
    BY <2>1 DEF FraudCaused
  <2>2. ASSUME NEW c \in Claims, d = Hand(c), pc[c] # "fraud", pc'[c] = "fraud", Proceeds(c)
        PROVE  OverThreshold(d)
    <3>1. pc[c] = "score" /\ AtThreshold(Msg(c).ip)
      BY <2>2 DEF Proceeds, Live
    <3>2. Msg(c).ip \in IPs /\ EventOf(d).ip = Msg(c).ip
      BY <2>2, <3>1, HandFacts DEF InChain, AtThreshold
    <3>3. \A x \in seats : x.d # d
      BY <2>2, <3>1, NotPassed DEF TracesBehind, InChain, AfterSeat
    <3>4. windows[Msg(c).ip] \in 0..MaxWindows /\ count[Msg(c).ip] \in Nat
      BY <3>2 DEF TypeInv, TypeOK
    <3>5. \A k \in 1..Threshold : k <= count[Msg(c).ip]
      BY <3>1, <3>4, ThresholdPositive DEF AtThreshold
    <3> QED
      BY <3>2, <3>3, <3>4, <3>5 DEF SeatsFull, OverThreshold
  <2> QED
    BY <1>2, <2>1, <2>2, NewlyCalled
<1> QED
  BY <1>1, <1>2 DEF FraudCaused, OverThreshold, EventOf

\* Why ProcessEvent can have come to its end, or have been passed over.
Ends(c) ==
    \/ ~Msg(c).ok
    \/ CtxDone(c)
    \/ "redis" \in Faults
    \/ Hand(c) \in archived'["duplicate"] \cup archived'["fraud"]
    \/ pc[c] \in AfterAccept /\ (Hand(c) \in rows' \/ "postgres" \in Faults)

LEMMA PassEnds ==
    ASSUME TypeInv, [Next]_vars, NEW k \in Claims, pc[k] # "unborn", next'[k] # next[k]
    PROVE  Ends(k)
<1>0. TypeOK
  BY DEF TypeInv
<1>1. ASSUME NEW c \in Claims, Conclude(c)
      PROVE  k = c
  BY <1>0, <1>1 DEF TypeOK, Conclude
<1>2. ASSUME NEW c \in Claims, FetchInvalid(c)
      PROVE  Ends(k)
  BY <1>1, <1>2 DEF FetchInvalid, Ends
<1>3. ASSUME NEW c \in Claims, EnqueueRefused(c)
      PROVE  Ends(k)
  BY <1>1, <1>3 DEF EnqueueRefused, ArchiverOpen, CtxDone, Ends
<1>4. ASSUME NEW c \in Claims, EnqueueFinal(c)
      PROVE  Ends(k)
  <2>1. k = c /\ pc[c] \in {"duplicate", "fraud"} /\ Archive(c, pc[c])
    BY <1>1, <1>4 DEF EnqueueFinal
  <2>2. Hand(c) \in archived'[pc[c]]
    BY <1>0, <2>1 DEF Archive, TypeOK, Statuses
  <2> QED
    BY <2>1, <2>2 DEF Ends
<1>5. ASSUME NEW c \in Claims, IsDuplicateFails(c) \/ CheckFraudFails(c)
      PROVE  Ends(k)
  BY <1>1, <1>5 DEF IsDuplicateFails, CheckFraudFails, CanFail, Ends
<1>6. ASSUME NEW c \in Claims, CommitRow(c)
      PROVE  Ends(k)
  BY <1>1, <1>6 DEF CommitRow, AfterAccept, Ends
<1>7. ASSUME NEW c \in Claims, PersistFails(c)
      PROVE  Ends(k)
  BY <1>1, <1>7 DEF PersistFails, CanFail, AfterAccept, Ends
<1>8. ASSUME NEW c \in Claims, EndClaim(c) \/ Fetch(c) \/ ReturnClaim(c) \/ EnqueueRaw(c)
                  \/ EnqueueAccepted(c) \/ IsDuplicate(c) \/ IsDuplicateRetried(c) \/ CheckFraudBlank(c)
                  \/ CheckFraud(c) \/ Insert(c) \/ UpsertStats(c)
      PROVE  FALSE
  BY <1>8 DEF EndClaim, Fetch, ReturnClaim, EnqueueRaw, EnqueueAccepted, IsDuplicate,
     IsDuplicateRetried, CheckFraudBlank, CheckFraud, Insert, UpsertStats, Goto
<1>9. ASSUME NEW p \in Partitions, NEW w \in Workers, StartClaim(p, w)
      PROVE  FALSE
  BY <1>9, StartFacts DEF Stays
<1> QED
  BY <1>2, <1>3, <1>4, <1>5, <1>6, <1>7, <1>8, <1>9
  DEF Next, ClaimStep, ProcessStep, Produce, Revoke, AutoCommit, ExpireKey, ExpireWindow, Crash,
     Restart, Cancel, CloseArchiver, Exit, Idle, vars, claimVars

\* While Redis does not fail, an undisturbed claim passes a valid message only when it has
\* what it can hope for.
LEMMA SettledStep ==
    ASSUME ChainInv, HandInv, "redis" \notin Faults, AllSettled, [Next]_vars
    PROVE  AllSettled'
<1> SUFFICES ASSUME NEW c \in Claims, Undisturbed(c)',
                    NEW o \in start'[c]..(next'[c] - 1), EventOf(<<c, o>>).ok
             PROVE  Settled(<<c, o>>)'
  BY DEF AllSettled, EventOf
<1> USE DEF ChainInv
<1>1. /\ archived["duplicate"] \subseteq archived'["duplicate"] /\ archived["fraud"] \subseteq archived'["fraud"]
      /\ archived["accepted"] \subseteq archived'["accepted"] /\ rows \subseteq rows'
  BY TracesGrow DEF Statuses
<1>2. /\ next[c] \in Nat /\ start[c] \in Nat /\ next'[c] \in Nat /\ start'[c] \in Nat
  <2>1. TypeOK /\ TypeOK'
    BY TypeStep DEF TypeInv
  <2> QED
    BY <2>1 DEF TypeOK
<1>3. Undisturbed(c)
  BY <1>2, UndisturbedBefore
<1>4. Live(c) /\ ~CtxDone(c) /\ pc[c] # "unborn" /\ start'[c] = start[c]
  BY <1>3, ClaimForward DEF Undisturbed, Live
<1>5. CASE o < next[c]
  <2>1. Settled(<<c, o>>)
    BY <1>2, <1>3, <1>4, <1>5 DEF AllSettled
  <2> QED
    BY <1>1, <2>1 DEF Settled
<1>6. CASE ~(o < next[c])
  <2>1. next'[c] = next[c] + 1 /\ next'[c] # next[c]
    <3>1. ASSUME NEW w \in Workers, StartClaim(c[1], w)
          PROVE  Stays(c)
      BY <1>4, <3>1, StartFacts, ClaimFacts
    <3> QED
      BY <1>2, <1>6, <3>1, ClaimMoves DEF Moves, Stays, Proceeds, Passes
  <2>2. o = next[c] /\ <<c, o>> = Hand(c) /\ EventOf(<<c, o>>) = Msg(c)
    BY <1>2, <1>6, <2>1 DEF Hand, EventOf, Msg
  <2>3. \/ Hand(c) \in archived'["duplicate"] \cup archived'["fraud"]
        \/ pc[c] \in AfterAccept /\ (Hand(c) \in rows' \/ "postgres" \in Faults)
    BY <1>4, <2>1, <2>2, PassEnds DEF Ends
  <2>4. pc[c] \in AfterAccept => Hand(c) \in archived'["accepted"]
    BY <1>1 DEF TracesLeft
  <2> QED
    BY <2>2, <2>3, <2>4 DEF Settled
<1> QED
  BY <1>5, <1>6

\* The causes of the verdicts hold in every reachable state.
LEMMA VerdictInvariant == Spec => [](ChainInv /\ VerdictInv)
<1>1. Init => VerdictInv
  BY ThresholdPositive
  DEF Init, VerdictInv, HandInv, InChain, Live, KeyOfValid, KeyHeld, SeatsFull, DuplicateCaused,
      FraudCaused, Called, AllSettled, Undisturbed, Statuses
<1>2. ChainInv /\ VerdictInv /\ [Next]_vars => VerdictInv'
  BY HandStep, ValidStep, HeldStep, FullStep, DuplicateStep, FraudStep, SettledStep
  DEF VerdictInv, ChainInv
<1> QED
  BY <1>1, <1>2, ChainInvariant, PTL DEF Spec

\* A delivery that took a key has got a final status that is not "duplicate", is in hand,
\* or belongs to a claim that was disturbed.
LEMMA TakerSettled ==
    ASSUME ChainInv, VerdictInv, "redis" \notin Faults, NEW x \in claimed
    PROVE  \/ x.d \in archived["fraud"] \cup archived["accepted"]
           \/ InHand(x.d) \/ ~Undisturbed(x.d[1])
<1> DEFINE c == x.d[1]
           o == x.d[2]
<1>1. x.d \in Deliveries /\ Passed(x.d, AfterKey)
  BY DEF ChainInv, TypeInv, TypeOK, TracesBehind
<1>2. c \in Claims /\ o \in Nat /\ x.d = <<c, o>> /\ next[c] \in Nat /\ start[c] \in Nat
  BY <1>1, DeliveryParts DEF ChainInv, TypeInv, TypeOK
<1>3. CASE o = next[c] /\ pc[c] \in AfterKey \cup {"dead"}
  BY <1>3 DEF InHand, Undisturbed, Live, AfterKey
<1>4. CASE o < next[c] /\ Undisturbed(c)
  <2>1. EventOf(<<c, o>>).ok /\ start[c] <= o
    BY <1>2 DEF VerdictInv, KeyOfValid
  <2>2. Settled(x.d)
    BY <1>2, <1>4, <2>1 DEF VerdictInv, AllSettled
  <2>3. x.d \notin archived["duplicate"]
    BY DEF VerdictInv, DuplicateCaused, Called, Took
  <2> QED
    BY <2>2, <2>3 DEF Settled
<1> QED
  BY <1>1, <1>3, <1>4 DEF Passed

\* No event is called a duplicate or fraud without a cause, and no valid message is left
\* behind without its due, for every log, threshold, number of claims and workers, and
\* every interleaving of them, while Redis does not fail (service.go:98-138).
THEOREM VerdictsAreJustified == Spec => []VerdictsJustified
<1>1. ASSUME ChainInv, VerdictInv, "redis" \notin Faults, NEW d \in archived["duplicate"]
      PROVE  HasOriginal(d)
  <2>1. ~Took(d, claimed) /\ \E x \in claimed : x.id = EventOf(d).id
    BY <1>1 DEF VerdictInv, DuplicateCaused, Called
  <2>2. PICK x \in claimed : x.id = EventOf(d).id
    BY <2>1
  <2>3. x.d # d
    BY <2>1 DEF Took
  <2> QED
    BY <1>1, <2>2, <2>3, TakerSettled DEF HasOriginal
<1>2. ChainInv /\ VerdictInv => VerdictsJustified
  BY <1>1 DEF VerdictInv, FraudCaused, Called, AllSettled, Settled, VerdictsJustified
<1> QED
  BY <1>2, VerdictInvariant, PTL

-----------------------------------------------------------------------------
(* The chain implements the ledger                                         *)

\* Every step of the chain is one step of the ledger or none.
LEMMA LedgerStep ==
    ASSUME ChainInv, OrderInv, KeyInv, [Next]_vars
    PROVE  [Ledger!LNext]_(Ledger!lvars)
<1> USE DEF ChainInv
<1>1. archived \in [Statuses -> SUBSET Deliveries]
  BY DEF TypeInv, TypeOK
<1>2. ASSUME NEW id \in Ids, ExpireKey(id)
      PROVE  [Ledger!LNext]_(Ledger!lvars)
  BY <1>2 DEF ExpireKey, dbVars, Ledger!Expire, Ledger!LNext
<1>3. CASE UNCHANGED traces /\ UNCHANGED expiries
  BY <1>3 DEF traces, Ledger!lvars
<1>4. ASSUME NEW c \in Claims, LeavesTrace(c), UNCHANGED expiries
      PROVE  [Ledger!LNext]_(Ledger!lvars)
  <2> DEFINE h == Hand(c)
  <2>1. h \in Deliveries /\ pc[c] \in InChain
    BY <1>4, TracingHand
  <2>2. /\ pc[c] \in AfterKey => Took(h, claimed)
        /\ pc[c] \in AfterAccept => h \in archived["accepted"]
        /\ pc[c] \in AfterCount => h \in counted
    BY DEF TracesLeft
  <2>3. /\ pc[c] \notin AfterKey => ~Took(h, claimed)
        /\ pc[c] \notin AfterAccept => h \notin archived["accepted"]
        /\ pc[c] \notin AfterCount => h \notin counted
        /\ h \notin archived["fraud"] /\ h \notin rows
    BY <2>1, NotPassed DEF TracesBehind, Took
  <2>4. Took(h, claimed) <=> Ledger!HasKey(h)
    BY DEF Took, Ledger!HasKey
  <2>5. ASSUME NEW s \in Statuses, ArchivesAs(c, s)
        PROVE  \A t \in Statuses : archived'[t] = IF t = s THEN archived[t] \cup {h} ELSE archived[t]
    BY <1>1, <2>5 DEF ArchivesAs
  <2> HIDE DEF h
  <2>6. CASE /\ ArchivesAs(c, "raw") \/ ArchivesAs(c, "duplicate")
             /\ UNCHANGED <<claimed, counted, rows>>
    BY <1>4, <2>5, <2>6 DEF Statuses, Ledger!lvars
  <2>7. CASE pc[c] = "fraud" /\ ArchivesAs(c, "fraud") /\ UNCHANGED <<claimed, counted, rows>>
    <3>1. archived'["fraud"] = archived["fraud"] \cup {h} /\ archived'["accepted"] = archived["accepted"]
      BY <2>5, <2>7 DEF Statuses
    <3>2. Ledger!Flag(h)
      BY <1>4, <2>2, <2>3, <2>4, <2>7, <3>1 DEF AfterKey, AfterAccept, Ledger!Flag
    <3> QED
      BY <2>1, <3>2 DEF Ledger!LNext
  <2>8. CASE pc[c] = "accepted" /\ ArchivesAs(c, "accepted") /\ UNCHANGED <<claimed, counted, rows>>
    <3>1. archived'["accepted"] = archived["accepted"] \cup {h} /\ archived'["fraud"] = archived["fraud"]
      BY <2>5, <2>8 DEF Statuses
    <3>2. Ledger!Accept(h)
      BY <1>4, <2>2, <2>3, <2>4, <2>8, <3>1 DEF AfterKey, AfterAccept, Ledger!Accept
    <3> QED
      BY <2>1, <3>2 DEF Ledger!LNext
  <2>9. CASE TakesKey(c)
    <3> DEFINE id == Msg(c).id
    <3>1. [d \in Deliveries |-> EventOf(d).id][h] = id
      BY <2>1, HandFacts DEF h
    <3>2. ~\E x \in claimed : x.id = id /\ x.epoch = expiries[id]
      BY <2>9 DEF TakesKey, KeyInv
    <3>3. ~Ledger!HasKey(h)
      BY <2>3, <2>4, <2>9 DEF TakesKey, AfterKey
    <3>4. claimed' = claimed \cup {[id |-> id, epoch |-> expiries[id], d |-> h]}
          /\ UNCHANGED <<archived, counted, rows>>
      BY <2>9 DEF TakesKey, TakeKey, h
    <3> HIDE DEF id
    <3>5. Ledger!Take(h)
      BY <1>4, <3>1, <3>2, <3>3, <3>4 DEF Ledger!Take
    <3> QED
      BY <2>1, <3>5 DEF Ledger!LNext
  <2>10. CASE TakesSeat(c)
    BY <1>4, <2>10 DEF TakesSeat, Ledger!lvars
  <2>11. CASE /\ pc[c] = "stats" /\ counted' = counted \cup {h}
              /\ UNCHANGED <<archived, claimed, rows>>
    <3>1. Ledger!Count(h)
      BY <1>4, <2>2, <2>3, <2>11 DEF AfterAccept, AfterCount, Ledger!Count
    <3> QED
      BY <2>1, <3>1 DEF Ledger!LNext
  <2>12. CASE /\ pc[c] = "commit" /\ rows' = rows \cup {h}
              /\ UNCHANGED <<archived, claimed, counted>>
    <3>1. Ledger!Persist(h)
      BY <1>4, <2>2, <2>3, <2>12 DEF AfterCount, Ledger!Persist
    <3> QED
      BY <2>1, <3>1 DEF Ledger!LNext
  <2> QED
    BY <1>4, <2>6, <2>7, <2>8, <2>9, <2>10, <2>11, <2>12 DEF LeavesTrace, h
<1>5. UNCHANGED expiries \/ \E id \in Ids : ExpireKey(id)
  BY KeySteps DEF TakesKey
<1> QED
  BY <1>2, <1>3, <1>4, <1>5, TraceSteps

\* The chain implements the ledger: its steps, whatever fails, crashes or runs as a
\* zombie, take a key, classify, count and persist in the ledger's order and as often
\* (service.go:74-150).
THEOREM ChainImplementsLedger == Spec => ImplementsLedger
<1>1. Init => Ledger!LInit
  BY DEF Init, Ledger!LInit, Statuses
<1> QED
  BY <1>1, LedgerStep, ChainInvariant, ClaimedInvariant, PTL
  DEF Spec, ImplementsLedger, Ledger!LSpec
=============================================================================
