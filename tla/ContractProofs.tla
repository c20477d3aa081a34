--------------------------- MODULE ContractProofs ---------------------------
(***************************************************************************)
(* What a caller may conclude from the three contracts alone, for all      *)
(* values of their constants.  The detailed modules implement them         *)
(* (ChainImplementsLedger, ImplementsArchiveContract, RefinesIngest).      *)
(***************************************************************************)
EXTENDS FiniteSetTheorems, TLAPS

CONSTANTS Ids, Tries, IdOf,    \* of EventLedger
          Records, Statuses,   \* of ArchiveContract
          Posts, Items         \* of IngestContract

VARIABLES life, taken, flagged, accepted, counted, persisted,  \* of EventLedger
          phase, handed, stored, refused,                      \* of ArchiveContract
          carried, topic, verdict                              \* of IngestContract

Ledger == INSTANCE EventLedger
Archive == INSTANCE ArchiveContract WITH accepted <- handed
Ingest == INSTANCE IngestContract

-----------------------------------------------------------------------------
(* The ledger                                                              *)

\* A key belongs to one try, and a try has one key, of its own event and of a life that
\* the key has had.
KeysInv ==
    /\ life \in [Ids -> Nat]
    /\ \A x \in taken :
          /\ x.d \in Tries /\ x.id = IdOf[x.d]
          /\ x.epoch \in 0..life[x.id]
    /\ \A x, y \in taken : (x.id = y.id /\ x.epoch = y.epoch) \/ x.d = y.d => x = y

\* A try goes through the ledger in its order.
OrderInv ==
    /\ persisted \subseteq counted /\ counted \subseteq accepted
    /\ flagged \cap accepted = {}
    /\ \A d \in flagged \cup accepted : Ledger!HasKey(d)

LEMMA LedgerStep ==
    ASSUME IdOf \in [Tries -> Ids], KeysInv, OrderInv, [Ledger!LNext]_(Ledger!lvars)
    PROVE  KeysInv' /\ OrderInv'
<1> USE DEF KeysInv, OrderInv, Ledger!HasKey
<1>1. ASSUME NEW id \in Ids, Ledger!Expire(id)
      PROVE  KeysInv' /\ OrderInv'
  <2>1. /\ life' \in [Ids -> Nat] /\ \A i \in Ids : life[i] <= life'[i]
        /\ UNCHANGED <<taken, flagged, accepted, counted, persisted>>
    BY <1>1 DEF Ledger!Expire
  <2>2. \A x \in taken : x.id \in Ids /\ x.epoch \in 0..life'[x.id]
    BY <2>1
  <2> QED
    BY <2>1, <2>2
<1>2. ASSUME NEW d \in Tries, Ledger!Take(d)
      PROVE  KeysInv' /\ OrderInv'
  <2> DEFINE k == [id |-> IdOf[d], epoch |-> life[IdOf[d]], d |-> d]
  <2>1. /\ taken' = taken \cup {k} /\ ~Ledger!HasKey(d)
        /\ ~\E x \in taken : x.id = k.id /\ x.epoch = k.epoch
        /\ UNCHANGED <<life, flagged, accepted, counted, persisted>>
    BY <1>2 DEF Ledger!Take
  <2>2. k.d = d /\ k.id = IdOf[d] /\ k.epoch \in 0..life[k.id]
    OBVIOUS
  <2> HIDE DEF k
  <2>3. KeysInv'
    BY <2>1, <2>2
  <2>4. OrderInv'
    BY <2>1
  <2> QED
    BY <2>3, <2>4
<1>3. ASSUME NEW d \in Tries,
             Ledger!Flag(d) \/ Ledger!Accept(d) \/ Ledger!Count(d) \/ Ledger!Persist(d)
      PROVE  KeysInv' /\ OrderInv'
  BY <1>3 DEF Ledger!Flag, Ledger!Accept, Ledger!Count, Ledger!Persist
<1>4. CASE UNCHANGED Ledger!lvars
  BY <1>4 DEF Ledger!lvars
<1> QED
  BY <1>1, <1>2, <1>3, <1>4 DEF Ledger!LNext

\* A life of a key classifies one try at most.
LEMMA OneTryPerLife ==
    ASSUME KeysInv, NEW id \in Ids, NEW S,
           \A d \in S : Ledger!HasKey(d) /\ IdOf[d] = id
    PROVE  IsFiniteSet(S) /\ Cardinality(S) <= 1 + life[id]
<1> DEFINE key(d) == CHOOSE x \in taken : x.d = d
           f == [d \in S |-> key(d).epoch]
<1>1. ASSUME NEW d \in S
      PROVE  key(d) \in taken /\ key(d).d = d /\ key(d).id = id /\ key(d).epoch \in 0..life[id]
  <2>1. key(d) \in taken /\ key(d).d = d
    BY DEF Ledger!HasKey
  <2> QED
    BY <2>1 DEF KeysInv
<1> HIDE DEF key
<1>2. f \in [S -> 0..life[id]]
  BY <1>1
<1>3. \A d, e \in S : f[d] = f[e] => d = e
  BY <1>1 DEF KeysInv
<1>4. /\ IsFiniteSet(0..life[id]) /\ Cardinality(0..life[id]) = 1 + life[id]
  BY FS_Interval DEF KeysInv
<1>5. f \in Injection(S, 0..life[id])
  BY <1>2, <1>3 DEF Injection, IsInjective
<1> QED
  BY <1>4, <1>5, FS_Injection

\* However tries of an event race and fail, at most one for each life of its dedupe key is
\* classified, and so counted, and so persisted; what is persisted is counted.
LedgerBounds ==
    /\ persisted \subseteq counted
    /\ \A id \in Ids :
          LET Of(S) == {d \in S : IdOf[d] = id} IN
          /\ IsFiniteSet(Of(flagged \cup accepted))
          /\ Cardinality(Of(persisted)) <= Cardinality(Of(counted))
          /\ Cardinality(Of(counted)) <= Cardinality(Of(accepted))
          /\ Cardinality(Of(flagged)) + Cardinality(Of(accepted)) <= 1 + life[id]

\* The bound of the ledger (README.md, "Worker flow per event").
THEOREM LedgerIsBounded == ASSUME IdOf \in [Tries -> Ids] PROVE Ledger!LSpec => []LedgerBounds
<1>1. Ledger!LInit => KeysInv /\ OrderInv
  BY DEF Ledger!LInit, KeysInv, OrderInv
<1>2. ASSUME KeysInv, OrderInv, NEW id \in Ids
      PROVE  LET Of(S) == {d \in S : IdOf[d] = id} IN
             /\ IsFiniteSet(Of(flagged \cup accepted))
             /\ Cardinality(Of(persisted)) <= Cardinality(Of(counted))
             /\ Cardinality(Of(counted)) <= Cardinality(Of(accepted))
             /\ Cardinality(Of(flagged)) + Cardinality(Of(accepted)) <= 1 + life[id]
  <2> DEFINE Of(S) == {d \in S : IdOf[d] = id}
             A == Of(flagged \cup accepted)
  <2>1. \A d \in A : Ledger!HasKey(d) /\ IdOf[d] = id
    BY <1>2 DEF OrderInv
  <2> HIDE DEF A
  <2>2. IsFiniteSet(A) /\ Cardinality(A) <= 1 + life[id]
    BY <1>2, <2>1, OneTryPerLife
  <2> USE DEF A
  <2>3. /\ A = Of(flagged) \cup Of(accepted) /\ Of(flagged) \cap Of(accepted) = {}
        /\ Of(persisted) \subseteq Of(counted) /\ Of(counted) \subseteq Of(accepted)
        /\ Of(accepted) \subseteq A /\ Of(flagged) \subseteq A
    BY <1>2 DEF OrderInv
  <2> HIDE DEF A, Of
  <2>4. /\ IsFiniteSet(Of(flagged)) /\ IsFiniteSet(Of(accepted))
        /\ IsFiniteSet(Of(counted)) /\ IsFiniteSet(Of(persisted))
    BY <2>2, <2>3, FS_Subset
  <2>5. /\ Cardinality(Of(persisted)) <= Cardinality(Of(counted))
        /\ Cardinality(Of(counted)) <= Cardinality(Of(accepted))
    BY <2>3, <2>4, FS_Subset
  <2>6. Cardinality(A) = Cardinality(Of(flagged)) + Cardinality(Of(accepted))
    <3>1. Cardinality(A) = Cardinality(Of(flagged)) + Cardinality(Of(accepted))
                           - Cardinality(Of(flagged) \cap Of(accepted))
      BY <2>3, <2>4, FS_Union
    <3>2. /\ Cardinality(Of(flagged)) \in Nat /\ Cardinality(Of(accepted)) \in Nat
      BY <2>4, FS_CardinalityType
    <3>3. Cardinality(Of(flagged) \cap Of(accepted)) = 0
      BY <2>3, FS_EmptySet
    <3> QED
      BY <3>1, <3>2, <3>3
  <2> QED
    BY <2>2, <2>5, <2>6 DEF A, Of
<1>3. KeysInv /\ OrderInv => LedgerBounds
  BY <1>2 DEF LedgerBounds, OrderInv
<1> QED
  BY <1>1, <1>3, LedgerStep, PTL DEF Ledger!LSpec

-----------------------------------------------------------------------------
(* The archive                                                             *)

\* A record that was taken has one status, and is in no object of another.
ArchiveInv ==
    /\ phase \in {"open", "closing", "closed"}
    /\ handed \in [Statuses -> SUBSET Records]
    /\ stored \in [Statuses -> SUBSET Records]
    /\ \A s \in Statuses : stored[s] \subseteq handed[s]
    /\ \A s, t \in Statuses : s # t => handed[s] \cap handed[t] = {}
    /\ phase = "closed" => \A s \in Statuses : handed[s] \subseteq stored[s] \cup refused

LEMMA ArchiveStep ==
    ASSUME ArchiveInv, [Archive!CNext]_(Archive!cvars)
    PROVE  ArchiveInv'
<1> USE DEF ArchiveInv
<1>1. ASSUME NEW s \in Statuses, NEW r \in Records, Archive!Accept(s, r)
      PROVE  ArchiveInv'
  BY <1>1 DEF Archive!Accept
<1>2. ASSUME NEW s \in Statuses, NEW R \in SUBSET Records, Archive!Attempt(s, R)
      PROVE  ArchiveInv'
  <2>1. R \subseteq handed[s] /\ UNCHANGED <<phase, handed>> /\ phase # "closed"
    BY <1>2 DEF Archive!Attempt
  <2>2. stored' = stored \/ stored' = [stored EXCEPT ![s] = @ \cup R]
    BY <1>2 DEF Archive!Attempt
  <2>3. stored' \in [Statuses -> SUBSET Records] /\ \A t \in Statuses : stored'[t] \subseteq handed[t]
    BY <2>1, <2>2
  <2> QED
    BY <2>1, <2>3
<1>3. CASE Archive!BeginClose \/ Archive!EndClose
  BY <1>3 DEF Archive!BeginClose, Archive!EndClose
<1>4. CASE UNCHANGED Archive!cvars
  BY <1>4 DEF Archive!cvars
<1> QED
  BY <1>1, <1>2, <1>3, <1>4 DEF Archive!CNext

\* An object under a prefix holds only records that were archived with this status and no
\* other (archiver.go:178-194, 207-225).
ObjectsOfOneStatus ==
    \A s, t \in Statuses : stored[s] \cap handed[t] # {} => s = t

\* A Close that has returned is final: every record had its upload, nothing is taken and
\* nothing is stored after it (archiver.go:109-124).
ClosedForGood ==
    phase = "closed" =>
        /\ \A s \in Statuses : handed[s] \subseteq stored[s] \cup refused
        /\ UNCHANGED <<phase, handed, stored, refused>>

THEOREM ArchiveIsSorted == Archive!CSpec => []ObjectsOfOneStatus
<1>1. Archive!CInit => ArchiveInv
  BY DEF Archive!CInit, ArchiveInv
<1>2. ArchiveInv => ObjectsOfOneStatus
  BY DEF ArchiveInv, ObjectsOfOneStatus
<1> QED
  BY <1>1, <1>2, ArchiveStep, PTL DEF Archive!CSpec

THEOREM CloseIsFinal == Archive!CSpec => [][ClosedForGood]_(Archive!cvars)
<1>1. Archive!CInit => ArchiveInv
  BY DEF Archive!CInit, ArchiveInv
<1>2. ASSUME ArchiveInv, [Archive!CNext]_(Archive!cvars)
      PROVE  ClosedForGood
  BY <1>2 DEF ArchiveInv, ClosedForGood, Archive!CNext, Archive!cvars, Archive!Accept, Archive!Attempt,
              Archive!BeginClose, Archive!EndClose
<1> QED
  BY <1>1, <1>2, ArchiveStep, PTL DEF Archive!CSpec

-----------------------------------------------------------------------------
(* The intake                                                              *)

\* What a client was told stays true, now and later: all items of an accepted post are in the
\* topic, and it has some, and none of a refused one is (event.go:46-82, 84-126).  The items
\* are the events that marshal (producer.go:96-99).
AnswersHold ==
    \A a \in Posts :
        /\ verdict[a] = "accepted" => carried[a] # {} /\ \A i \in carried[a] : <<a, i>> \in topic
        /\ verdict[a] = "refused" => \A i \in carried[a] : <<a, i>> \notin topic

IngestInv == verdict \in [Posts -> Ingest!Verdicts] /\ AnswersHold

THEOREM AnswersStayTrue == Ingest!ISpec => []AnswersHold
<1>1. Ingest!IInit => IngestInv
  BY DEF Ingest!IInit, IngestInv, AnswersHold, Ingest!Verdicts
<1>2. IngestInv /\ [Ingest!INext]_(Ingest!ivars) => IngestInv'
  <2> SUFFICES ASSUME IngestInv, [Ingest!INext]_(Ingest!ivars)
               PROVE  IngestInv'
    OBVIOUS
  <2> USE DEF IngestInv, AnswersHold
  <2>1. ASSUME NEW a \in Posts, NEW i \in carried[a], Ingest!Publish(a, i)
        PROVE  IngestInv'
    BY <2>1 DEF Ingest!Publish
  <2>2. ASSUME NEW a \in Posts, NEW v \in Ingest!Verdicts \ {"none"}, Ingest!Tell(a, v)
        PROVE  IngestInv'
    BY <2>2 DEF Ingest!Tell
  <2>3. CASE UNCHANGED Ingest!ivars
    BY <2>3 DEF Ingest!ivars
  <2> QED
    BY <2>1, <2>2, <2>3 DEF Ingest!INext
<1>3. IngestInv => AnswersHold
  BY DEF IngestInv
<1> QED
  BY <1>1, <1>2, <1>3, PTL DEF Ingest!ISpec
=============================================================================
