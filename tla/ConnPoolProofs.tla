--------------------------- MODULE ConnPoolProofs ---------------------------
(***************************************************************************)
(* The pool does not leak for any number of claims and connections, and    *)
(* does not block itself while the claims are fewer than the connections   *)
(* that the migrator leaves.                                               *)
(***************************************************************************)
EXTENDS ConnPool, FiniteSetTheorems, TLAPS

USE DEF Kept

\* What NothingLeaks rests on: the types without the bound of the pool.
PoolInv ==
    /\ at \in [Claims -> Calls] /\ inTx \in SUBSET Claims /\ open \in Nat
    /\ cancelled \in BOOLEAN /\ open <= MaxOpen
    /\ NothingLeaks

LEMMA Sizes ==
    ASSUME PoolInv
    PROVE  /\ IsFiniteSet(inTx) /\ Cardinality(inTx) \in Nat
           /\ IsFiniteSet(Upserting) /\ Cardinality(Upserting) \in Nat
<1>1. inTx \in SUBSET Claims /\ Upserting \in SUBSET Claims
  BY DEF PoolInv, Upserting
<1>2. IsFiniteSet(inTx) /\ IsFiniteSet(Upserting)
  BY <1>1, ClaimsFinite, FS_Subset
<1> QED
  BY <1>2, FS_CardinalityType

\* A call begins or ends for claim c: what happens to the size of Upserting.
LEMMA Moved ==
    ASSUME PoolInv, NEW c \in Claims, NEW l \in Calls, Goto(c, l)
    PROVE  /\ at' \in [Claims -> Calls]
           /\ Cardinality(Upserting') =
                Cardinality(Upserting) + (IF l = "upsert" /\ at[c] # "upsert" THEN 1 ELSE 0)
                                       - (IF l # "upsert" /\ at[c] = "upsert" THEN 1 ELSE 0)
<1>1. /\ at' \in [Claims -> Calls]
      /\ \A k \in Claims : at'[k] = IF k = c THEN l ELSE at[k]
  BY DEF Goto, PoolInv
<1>2. CASE l = "upsert"
  <2>1. Upserting' = Upserting \cup {c}
    BY <1>1, <1>2 DEF Upserting
  <2>2. c \in Upserting <=> at[c] = "upsert"
    BY DEF Upserting
  <2>3. Cardinality(Upserting \cup {c}) =
          IF c \in Upserting THEN Cardinality(Upserting) ELSE Cardinality(Upserting) + 1
    BY Sizes, FS_AddElement
  <2> QED
    BY <1>1, <1>2, <2>1, <2>2, <2>3, Sizes
<1>3. CASE l # "upsert"
  <2>1. Upserting' = Upserting \ {c}
    BY <1>1, <1>3 DEF Upserting
  <2>2. c \in Upserting <=> at[c] = "upsert"
    BY DEF Upserting
  <2>3. Cardinality(Upserting \ {c}) =
          IF c \in Upserting THEN Cardinality(Upserting) - 1 ELSE Cardinality(Upserting)
    BY Sizes, FS_RemoveElement
  <2> QED
    BY <1>1, <1>3, <2>1, <2>2, <2>3, Sizes
<1> QED
  BY <1>2, <1>3

\* A transaction is opened or ends.
LEMMA TxSizes ==
    ASSUME PoolInv, NEW c \in Claims
    PROVE  /\ Cardinality(inTx \cup {c}) = Cardinality(inTx) + (IF c \in inTx THEN 0 ELSE 1)
           /\ Cardinality(inTx \ {c}) = Cardinality(inTx) - (IF c \in inTx THEN 1 ELSE 0)
<1>1. /\ Cardinality(inTx \cup {c}) =
            IF c \in inTx THEN Cardinality(inTx) ELSE Cardinality(inTx) + 1
      /\ Cardinality(inTx \ {c}) =
            IF c \in inTx THEN Cardinality(inTx) - 1 ELSE Cardinality(inTx)
  BY Sizes, FS_AddElement, FS_RemoveElement
<1> QED
  BY <1>1, Sizes

\* Every way out of ProcessRawEvent gives back what it holds.
LEMMA ReturnStep ==
    ASSUME PoolInv, NEW c \in Claims, NEW n \in {0, 1}, Return(c, n),
           n = 1 <=> at[c] = "upsert"
    PROVE  PoolInv'
<1> DEFINE t == IF c \in inTx THEN 1 ELSE 0
           u == Cardinality(Upserting)
           x == Cardinality(inTx)
<1>1. /\ at' \in [Claims -> Calls] /\ Cardinality(Upserting') = u - n
  BY Moved, Sizes DEF Return, Calls
<1>2. inTx' = inTx \ {c} /\ Cardinality(inTx') = x - t
  BY TxSizes DEF Return
<1>3. open = Kept + x + u /\ open' = open - n - t
  BY DEF PoolInv, NothingLeaks, Return
<1>4. x - t \in Nat /\ u - n \in Nat
  <2>1. /\ IsFiniteSet(inTx') /\ IsFiniteSet(Upserting')
    <3>1. inTx' \in SUBSET Claims /\ Upserting' \in SUBSET Claims
      BY <1>2 DEF PoolInv, Upserting
    <3> QED
      BY <3>1, ClaimsFinite, FS_Subset
  <2>2. Cardinality(inTx') \in Nat /\ Cardinality(Upserting') \in Nat
    BY <2>1, FS_CardinalityType
  <2> QED
    BY <1>1, <1>2, <2>2
<1>5. x \in Nat /\ u \in Nat /\ t \in {0, 1} /\ MaxOpen \in Nat /\ open <= MaxOpen
  BY Sizes, MaxOpenPositive DEF PoolInv
<1> HIDE DEF t, u, x
<1>6. open' = Kept + (x - t) + (u - n) /\ open' \in Nat /\ open' <= MaxOpen
  BY <1>3, <1>4, <1>5
<1>7. \A k \in inTx' : at'[k] \in {"insert", "stats", "upsert", "commit"}
  BY <1>2 DEF PoolInv, NothingLeaks, Return, Goto
<1> QED
  BY <1>1, <1>2, <1>6, <1>7 DEF PoolInv, NothingLeaks, Return

\* Every step keeps the count.
LEMMA PoolStep == PoolInv /\ [Next]_vars => PoolInv'
<1> SUFFICES ASSUME PoolInv, [Next]_vars
             PROVE  PoolInv'
  OBVIOUS
<1>0. Cardinality(inTx) \in Nat /\ Cardinality(Upserting) \in Nat /\ MaxOpen \in Nat
  BY Sizes, MaxOpenPositive
<1>1. ASSUME NEW c \in Claims, Call(c) \/ InsertRow(c)
      PROVE  PoolInv'
  <2>1. at' \in [Claims -> Calls] /\ Cardinality(Upserting') = Cardinality(Upserting)
    BY <1>0, <1>1, Moved DEF Call, InsertRow, Calls
  <2>2. \A k \in inTx : at'[k] \in {"insert", "stats", "upsert", "commit"}
    BY <1>1 DEF Call, InsertRow, Goto, PoolInv, NothingLeaks
  <2> QED
    BY <1>1, <2>1, <2>2 DEF Call, InsertRow, PoolInv, NothingLeaks
<1>2. ASSUME NEW c \in Claims, BeginTx(c)
      PROVE  PoolInv'
  <2>1. at' \in [Claims -> Calls] /\ Cardinality(Upserting') = Cardinality(Upserting)
    BY <1>0, <1>2, Moved DEF BeginTx, Calls
  <2>2. c \notin inTx
    BY <1>2 DEF BeginTx, PoolInv, NothingLeaks
  <2>3. Cardinality(inTx') = Cardinality(inTx) + 1
    BY <1>2, <2>2, TxSizes DEF BeginTx
  <2>4. \A k \in inTx' : at'[k] \in {"insert", "stats", "upsert", "commit"}
    BY <1>2 DEF BeginTx, Goto, PoolInv, NothingLeaks
  <2> QED
    BY <1>0, <1>2, <2>1, <2>3, <2>4 DEF BeginTx, Free, PoolInv, NothingLeaks
<1>3. ASSUME NEW c \in Claims, TakeConn(c)
      PROVE  PoolInv'
  <2>1. at' \in [Claims -> Calls] /\ Cardinality(Upserting') = Cardinality(Upserting) + 1
    BY <1>0, <1>3, Moved DEF TakeConn, Calls
  <2>2. \A k \in inTx : at'[k] \in {"insert", "stats", "upsert", "commit"}
    BY <1>3 DEF TakeConn, Goto, PoolInv, NothingLeaks
  <2> QED
    BY <1>0, <1>3, <2>1, <2>2 DEF TakeConn, Free, PoolInv, NothingLeaks
<1>4. ASSUME NEW c \in Claims, Upsert(c)
      PROVE  PoolInv'
  <2>1. at' \in [Claims -> Calls] /\ Cardinality(Upserting') = Cardinality(Upserting) - 1
    BY <1>0, <1>4, Moved DEF Upsert, Calls
  <2>2. \A k \in inTx : at'[k] \in {"insert", "stats", "upsert", "commit"}
    BY <1>4 DEF Upsert, Goto, PoolInv, NothingLeaks
  <2>3. Cardinality(Upserting) # 0
    <3>1. c \in Upserting
      BY <1>4 DEF Upsert, Upserting
    <3> QED
      BY <3>1, Sizes, FS_EmptySet
  <2> QED
    BY <1>0, <1>4, <2>1, <2>2, <2>3 DEF Upsert, PoolInv, NothingLeaks
<1>5. ASSUME NEW c \in Claims, InsertFails(c) \/ Commit(c) \/ WaitCancelled(c) \/ DialFails(c)
      PROVE  PoolInv'
  BY <1>5, ReturnStep DEF InsertFails, Commit, WaitCancelled, DialFails, Waiting
<1>6. ASSUME NEW c \in Claims, UpsertFails(c)
      PROVE  PoolInv'
  BY <1>6, ReturnStep DEF UpsertFails
<1>7. ASSUME NEW c \in Claims, Rollback(c)
      PROVE  PoolInv'
  <2>1. Cardinality(inTx') = Cardinality(inTx) - 1 /\ Cardinality(inTx) # 0
    <3>1. c \in inTx /\ inTx' = inTx \ {c}
      BY <1>7 DEF Rollback
    <3> QED
      BY <3>1, TxSizes, Sizes, FS_EmptySet
  <2>2. Upserting' = Upserting
    BY <1>7 DEF Rollback, Upserting
  <2> QED
    BY <1>0, <1>7, <2>1, <2>2 DEF Rollback, PoolInv, NothingLeaks
<1>8. CASE Cancel \/ NewSession \/ UNCHANGED vars
  <2>1. Upserting' = Upserting
    BY <1>8 DEF Cancel, NewSession, vars, Upserting
  <2> QED
    BY <1>8, <2>1 DEF Cancel, NewSession, vars, PoolInv, NothingLeaks
<1> QED
  BY <1>1, <1>2, <1>3, <1>4, <1>5, <1>6, <1>7, <1>8 DEF Next, Running

LEMMA PoolInvariant == Spec => []PoolInv
<1>1. Init => PoolInv
  <2> SUFFICES ASSUME Init
               PROVE  PoolInv
    OBVIOUS
  <2>1. inTx = {} /\ Upserting = {}
    BY DEF Init, Upserting
  <2> QED
    <3>1. Cardinality(inTx) = 0 /\ Cardinality(Upserting) = 0
      BY <2>1, FS_EmptySet
    <3>2. at \in [Claims -> Calls] /\ open = Kept /\ open \in Nat /\ open <= MaxOpen
      BY MaxOpenPositive DEF Init, Calls
    <3>3. cancelled \in BOOLEAN
      BY DEF Init
    <3>4. NothingLeaks
      BY <2>1, <3>1, <3>2 DEF NothingLeaks
    <3> QED
      BY <2>1, <3>2, <3>3, <3>4 DEF PoolInv
<1> QED
  BY <1>1, PoolStep, PTL DEF Spec

\* The variables keep their types: at least the connection of the migrator (db.go:36) and
\* never more than MaxOpen (cmd/main.go:35) are in use.
THEOREM TypeCorrect == Spec => []TypeOK
<1>1. PoolInv => TypeOK
  BY Sizes, MaxOpenPositive DEF PoolInv, NothingLeaks, TypeOK
<1> QED
  BY <1>1, PoolInvariant, PTL

\* No path through ProcessRawEvent, and no cancellation, leaks a connection or gives one
\* back twice, for any number of claims and connections (repo.go:27-104).
THEOREM PoolNeverLeaks == Spec => []NothingLeaks
  BY PoolInvariant, PTL DEF PoolInv

\* With fewer claims than connections beside the migrator's the claims never block each
\* other in the pool: the 6 partitions of the deployment (topic-job.yaml:20) are below the
\* 24 that db.go:36 leaves of the 25 of cmd/main.go:35.  With 24 claims it is false.
THEOREM FewerClaimsNeverBlock ==
    ASSUME Cardinality(Claims) < MaxOpen - Kept
    PROVE  Spec => []NoPoolDeadlock
<1>1. ASSUME PoolInv, ~Free, \A c \in Claims : at[c] \notin {"insert", "upsert", "commit"}
      PROVE  FALSE
  <2>1. Upserting = {} /\ inTx \in SUBSET Claims
    BY <1>1 DEF Upserting, PoolInv
  <2>2. Cardinality(Upserting) = 0 /\ Cardinality(inTx) <= Cardinality(Claims)
    BY <2>1, FS_EmptySet, FS_Subset, ClaimsFinite
  <2>3. Cardinality(Claims) \in Nat
    BY ClaimsFinite, FS_CardinalityType
  <2>4. open = Kept + Cardinality(inTx) /\ Cardinality(inTx) \in Nat
    BY <1>1, <2>2, Sizes DEF PoolInv, NothingLeaks
  <2> QED
    BY <1>1, <2>2, <2>3, <2>4, MaxOpenPositive DEF Free
<1>2. PoolInv => NoPoolDeadlock
  BY <1>1 DEF NoPoolDeadlock
<1> QED
  BY <1>2, PoolInvariant, PTL
=============================================================================
